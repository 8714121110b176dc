---------------------------- MODULE TxQueue_proofs ----------------------------
(***************************************************************************)
(* Theorems about TxQueue for every capacity and every number of messages. *)
(***************************************************************************)
EXTENDS TxQueue, TLAPS, SequenceTheorems

USE DEF sharedVars, settingVars, Fields, GuiPC, TxPC

LEMMA TypeInitially == Init => TypeOK
<1> SUFFICES ASSUME Init PROVE TypeOK
  OBVIOUS
<1> USE DEF Init
<1>1. <<>> \in Seq(Nat)
  BY EmptySeq
<1>2. queue \in Seq(Nat) /\ accepted \in Seq(Nat) /\ popped \in Seq(Nat)
  BY <1>1
<1>3. /\ readable \in Nat /\ writable \in Nat /\ cur \in Nat /\ next \in Nat
      /\ next > 0 /\ leaked \in Nat /\ late \in Nat
  BY TxAssumption DEF TxAssumption
<1>4. gui \in GuiPC /\ tx \in TxPC /\ stop \in BOOLEAN /\ alive \in BOOLEAN
  OBVIOUS
<1>5. /\ config \in SUBSET Fields /\ dropped \in SUBSET Nat
      /\ unheard \in SUBSET Nat /\ sent \in SUBSET Nat
  OBVIOUS
<1>6. QED BY <1>2, <1>3, <1>4, <1>5 DEF TypeOK

LEMMA TypeStep == TypeOK /\ [Next]_vars => TypeOK'
<1> SUFFICES ASSUME TypeOK, [Next]_vars PROVE TypeOK'
  OBVIOUS
<1> USE DEF TypeOK
<1>1. CASE SendTo           BY <1>1 DEF SendTo
<1>2. CASE SendToNobody
  <2>1. unheard' \in SUBSET Nat
    BY <1>2 DEF SendToNobody
  <2>2. QED BY <1>2, <2>1 DEF SendToNobody
<1>3. CASE AcquireWritable  BY <1>3 DEF AcquireWritable
<1>4. CASE Overflow         BY <1>4 DEF Overflow
<1>5. CASE Enqueue          BY <1>5 DEF Enqueue
<1>6. CASE ReleaseReadable  BY <1>6 DEF ReleaseReadable
<1>7. CASE ShutdownNetwork  BY <1>7 DEF ShutdownNetwork
<1>8. CASE OnTxDone         BY <1>8 DEF OnTxDone
<1>9. ASSUME NEW fields \in SUBSET Fields, SetupNetwork(fields)
      PROVE  TypeOK'
  BY <1>9 DEF SetupNetwork
<1>10. CASE LoopHead        BY <1>10 DEF LoopHead
<1>11. CASE AcquireReadable BY <1>11 DEF AcquireReadable
<1>12. CASE ReadTimeout     BY <1>12 DEF ReadTimeout
<1>13. CASE CheckField      BY <1>13 DEF CheckField, AfterCheck
<1>14. CASE Dequeue
  <2>1. Head(queue) \in Nat /\ Tail(queue) \in Seq(Nat)
    BY <1>14, HeadTailProperties DEF Dequeue
  <2>2. QED BY <1>14, <2>1 DEF Dequeue
<1>15. CASE ReleaseWritable BY <1>15 DEF ReleaseWritable
<1>16. ASSUME NEW ok \in BOOLEAN, Transmit(ok) PROVE TypeOK'
  BY <1>16 DEF Transmit
<1>17. CASE Terminated      BY <1>17 DEF Terminated, vars
<1>18. CASE UNCHANGED vars  BY <1>18 DEF vars
<1>19. QED
  BY <1>1, <1>2, <1>3, <1>4, <1>5, <1>6, <1>7, <1>8, <1>9, <1>10, <1>11,
     <1>12, <1>13, <1>14, <1>15, <1>16, <1>17, <1>18
  DEF Next, GuiNext, TxNext

(* Every variable keeps its type: in particular no step takes a permit from *)
(* a semaphore that has none, which would leave the naturals.               *)
THEOREM TypeCorrect == Spec => []TypeOK
BY TypeInitially, TypeStep, PTL DEF Spec
-----------------------------------------------------------------------------
(* The permits.  Both counts are needed at once: a step of push() moves an  *)
(* addend of one while it leaves the queue's length alone, and the other    *)
(* way round.                                                               *)
PermitInv == TypeOK /\ ReadPermits /\ WritePermits

LEMMA PermitsInitially == Init => PermitInv
<1> SUFFICES ASSUME Init PROVE PermitInv
  OBVIOUS
<1>1. TypeOK
  <2>1. Init => TypeOK BY TypeInitially
  <2>2. QED BY <2>1
<1>2. Len(queue) = 0 /\ ~PermitInHand
  BY EmptySeq DEF Init, PermitInHand
<1>3. ReadPermits
  BY <1>2 DEF Init, ReadPermits, One
<1>4. WritePermits
  BY <1>2, TxAssumption DEF Init, WritePermits, One, TxAssumption
<1>5. QED BY <1>1, <1>3, <1>4 DEF PermitInv

LEMMA PermitsStep == PermitInv /\ [Next]_vars => PermitInv'
<1> SUFFICES ASSUME PermitInv, [Next]_vars PROVE PermitInv'
  OBVIOUS
<1>1. TypeOK'
  BY TypeStep DEF PermitInv
<1>2. /\ queue \in Seq(Nat) /\ Len(queue) \in Nat
      /\ readable \in Nat /\ writable \in Nat /\ leaked \in Nat /\ next \in Nat
      /\ Capacity \in Nat
  BY LenProperties, TxAssumption DEF PermitInv, TypeOK, TxAssumption
<1>3. ReadPermits /\ WritePermits
  BY DEF PermitInv
<1> HIDE DEF PermitInv
<1> USE <1>2, <1>3 DEF ReadPermits, WritePermits, PermitInHand, One
<1>4. ReadPermits' /\ WritePermits'
  <2>1. CASE SendTo           BY <2>1 DEF SendTo
  <2>2. CASE SendToNobody     BY <2>2 DEF SendToNobody
  <2>3. CASE AcquireWritable  BY <2>3 DEF AcquireWritable
  <2>4. CASE Overflow         BY <2>4 DEF Overflow
  <2>5. CASE Enqueue
    <3>1. next - 1 \in Nat
      BY TypeStep DEF PermitInv, TypeOK
    <3>2. Len(Append(queue, next - 1)) = Len(queue) + 1
      BY AppendProperties, <3>1
    <3>3. Len(queue') = Len(queue) + 1
      BY <2>5, <3>2 DEF Enqueue
    <3>4. /\ gui = "push" /\ gui' = "release" /\ tx' = tx /\ readable' = readable
          /\ writable' = writable /\ leaked' = leaked
      BY <2>5 DEF Enqueue
    <3>5. QED BY <3>3, <3>4
  <2>6. CASE ReleaseReadable  BY <2>6 DEF ReleaseReadable
  <2>7. CASE ShutdownNetwork  BY <2>7 DEF ShutdownNetwork
  <2>8. CASE OnTxDone         BY <2>8 DEF OnTxDone
  <2>9. ASSUME NEW fields \in SUBSET Fields, SetupNetwork(fields)
        PROVE  ReadPermits' /\ WritePermits'
    BY <2>9 DEF SetupNetwork
  <2>10. CASE LoopHead        BY <2>10 DEF LoopHead
  <2>11. CASE AcquireReadable BY <2>11 DEF AcquireReadable
  <2>12. CASE ReadTimeout     BY <2>12 DEF ReadTimeout
  <2>13. CASE CheckField      BY <2>13 DEF CheckField, AfterCheck
  <2>14. CASE Dequeue
    <3>1. Len(queue') = Len(queue) - 1
      BY <2>14, HeadTailProperties DEF Dequeue
    <3>2. /\ tx = "pop" /\ tx' = "free" /\ gui' = gui /\ readable' = readable
          /\ writable' = writable /\ leaked' = leaked
      BY <2>14 DEF Dequeue
    <3>3. QED BY <3>1, <3>2
  <2>15. CASE ReleaseWritable BY <2>15 DEF ReleaseWritable
  <2>16. ASSUME NEW ok \in BOOLEAN, Transmit(ok)
         PROVE  ReadPermits' /\ WritePermits'
    BY <2>16 DEF Transmit
  <2>17. CASE Terminated      BY <2>17 DEF Terminated, vars
  <2>18. CASE UNCHANGED vars  BY <2>18 DEF vars
  <2>19. QED
    BY <2>1, <2>2, <2>3, <2>4, <2>5, <2>6, <2>7, <2>8, <2>9, <2>10, <2>11,
       <2>12, <2>13, <2>14, <2>15, <2>16, <2>17, <2>18
    DEF Next, GuiNext, TxNext
<1>5. QED BY <1>1, <1>4 DEF PermitInv

(* Every queued message has exactly one read permit and every place of the  *)
(* queue exactly one write permit, wherever the two threads are.            *)
THEOREM PermitsCorrect == Spec => [](ReadPermits /\ WritePermits)
<1>1. PermitInv => ReadPermits /\ WritePermits
  BY DEF PermitInv
<1>2. QED BY PermitsInitially, PermitsStep, <1>1, PTL DEF Spec

(* Every place of the queue is free, filled, claimed or being released.     *)
THEOREM PlacesCorrect == Spec => []WritePermits
<1>1. PermitInv => WritePermits
  BY DEF PermitInv
<1>2. QED BY PermitsInitially, PermitsStep, <1>1, PTL DEF Spec

(* run() never dequeues from an empty queue.                                *)
THEOREM DequeueIsSafe == Spec => []DequeueSafe
<1>1. PermitInv => DequeueSafe
  <2> SUFFICES ASSUME PermitInv, tx = "pop" PROVE queue # <<>>
    BY DEF DequeueSafe
  <2>1. Len(queue) > 0
    BY LenProperties DEF PermitInv, TypeOK, ReadPermits, PermitInHand, One
  <2>2. QED BY <2>1, EmptySeq
<1>2. QED BY PermitsInitially, PermitsStep, <1>1, PTL DEF Spec

(* Overflow is reported only of a queue that is full, or about to have the  *)
(* first of its places released.                                            *)
THEOREM DropsAreJustified == Spec => DropOnlyWhenFull
<1>1. PermitInv /\ [Next]_vars
        => [dropped' # dropped => Len(queue) + One(tx = "free") = Capacity]_vars
  <2> SUFFICES ASSUME PermitInv, Next, dropped' # dropped
               PROVE  Len(queue) + One(tx = "free") = Capacity
    BY DEF vars
  <2>1. Overflow
    BY DEF Next, GuiNext, TxNext, SendTo, SendToNobody, AcquireWritable,
           Enqueue, ReleaseReadable, ShutdownNetwork, OnTxDone, SetupNetwork,
           LoopHead, AcquireReadable, ReadTimeout, CheckField, Dequeue,
           ReleaseWritable, Transmit, Terminated, vars
  <2>2. Len(queue) \in Nat
    BY LenProperties DEF PermitInv, TypeOK
  <2>3. QED
    BY <2>1, <2>2 DEF Overflow, PermitInv, TypeOK, WritePermits, One
<1>2. QED
  BY PermitsInitially, PermitsStep, <1>1, PTL DEF Spec, DropOnlyWhenFull
-----------------------------------------------------------------------------
(* The order of messages.                                                   *)

LEMMA MoveHead ==
  ASSUME NEW S, NEW s \in Seq(S), NEW t \in Seq(S), t # <<>>
  PROVE  Append(s, Head(t)) \o Tail(t) = s \o t
<1>1. Head(t) \in S /\ Tail(t) \in Seq(S)
  BY HeadTailProperties
<1>2. t = <<Head(t)>> \o Tail(t)
  BY SubSeqFull, SubSeqRecursiveFirst, TailIsSubSeq, LenProperties, EmptySeq
<1>3. Append(s, Head(t)) = s \o <<Head(t)>>
  BY <1>1, AppendIsConcat
<1>4. <<Head(t)>> \in Seq(S)
  BY <1>1
<1>5. QED BY <1>1, <1>2, <1>3, <1>4, ConcatAssociative

LEMMA AppendToConcat ==
  ASSUME NEW s \in Seq(Nat), NEW t \in Seq(Nat), NEW e \in Nat
  PROVE  Append(s \o t, e) = s \o Append(t, e)
<1>1. s \o t \in Seq(Nat) /\ <<e>> \in Seq(Nat)
  BY ConcatProperties
<1>2. Append(s \o t, e) = (s \o t) \o <<e>> /\ Append(t, e) = t \o <<e>>
  BY <1>1, AppendIsConcat
<1>3. (s \o t) \o <<e>> = s \o (t \o <<e>>)
  BY <1>1, ConcatAssociative
<1>4. QED BY <1>2, <1>3

(* What was popped and what is queued together are what was pushed, in the  *)
(* same order.                                                              *)
THEOREM QueueIsInOrder == Spec => []InOrder
<1>1. Init => TypeOK /\ InOrder
  <2> SUFFICES ASSUME Init PROVE InOrder
    BY TypeInitially
  <2>1. <<>> \o <<>> = <<>>
    BY EmptySeq, ConcatEmptySeq
  <2>2. QED BY <2>1 DEF Init, InOrder
<1>2. TypeOK /\ InOrder /\ [Next]_vars => (TypeOK /\ InOrder)'
  <2> SUFFICES ASSUME TypeOK, InOrder, [Next]_vars PROVE InOrder'
    BY TypeStep
  <2>1. CASE Enqueue
    <3> DEFINE m == next - 1
    <3>1. m \in Nat /\ popped \in Seq(Nat) /\ queue \in Seq(Nat)
      BY DEF TypeOK
    <3>2. /\ queue' = Append(queue, m) /\ accepted' = Append(accepted, m)
          /\ popped' = popped /\ accepted = popped \o queue
      BY <2>1 DEF Enqueue, InOrder
    <3> HIDE DEF m
    <3>3. Append(popped \o queue, m) = popped \o Append(queue, m)
      BY <3>1, AppendToConcat
    <3>4. QED BY <3>2, <3>3 DEF InOrder
  <2>2. CASE Dequeue
    BY <2>2, MoveHead DEF Dequeue, InOrder, TypeOK
  <2>3. CASE ~Enqueue /\ ~Dequeue
    <3>1. UNCHANGED <<accepted, popped, queue>>
      BY <2>3 DEF Next, GuiNext, TxNext, SendTo, SendToNobody,
         AcquireWritable, Overflow, ReleaseReadable, ShutdownNetwork, OnTxDone,
         SetupNetwork, LoopHead, AcquireReadable, ReadTimeout, CheckField,
         ReleaseWritable, Transmit, Terminated, vars
    <3>2. QED BY <3>1 DEF InOrder
  <2>4. QED BY <2>1, <2>2, <2>3
<1>3. QED BY <1>1, <1>2, PTL DEF Spec
-----------------------------------------------------------------------------
(* Where the messages went.                                                 *)

(* The message the slot is working on.                                      *)
Slot == IF gui \in {"writable", "push"} THEN {next - 1} ELSE {}

(* The sets a, b, c and d are a partition of n.                             *)
Parted(a, b, c, d, n) ==
  /\ n = a \cup b \cup c \cup d
  /\ a \cap b = {} /\ a \cap c = {} /\ a \cap d = {}
  /\ b \cap c = {} /\ b \cap d = {} /\ c \cap d = {}

AccountInv ==
  /\ Parted(Elements(accepted), dropped, unheard, Slot, 1 .. next - 1)
  /\ sent \subseteq Elements(popped)
  /\ tx \in {"free", "transmit"} => cur \in Elements(popped)

LEMMA ElementsOfAppend ==
  ASSUME NEW s \in Seq(Nat), NEW e \in Nat
  PROVE  Elements(Append(s, e)) = Elements(s) \cup {e}
BY AppendProperties, LenProperties DEF Elements

LEMMA AccountSays == ASSUME AccountInv PROVE Accounted
<1> DEFINE parts == <<Elements(accepted), dropped, unheard, Slot>>
<1>1. /\ parts[1] = Elements(accepted) /\ parts[2] = dropped
      /\ parts[3] = unheard /\ parts[4] = Slot /\ Len(parts) = 4
  OBVIOUS
<1> HIDE DEF parts
<1>2. \A i \in 1 .. 4 : i = 1 \/ i = 2 \/ i = 3 \/ i = 4
  OBVIOUS
<1>3. Elements(parts) = {Elements(accepted), dropped, unheard, Slot}
  BY <1>1, <1>2 DEF Elements
<1>4. UNION Elements(parts) = 1 .. next - 1
  <2>1. UNION Elements(parts)
          = Elements(accepted) \cup dropped \cup unheard \cup Slot
    BY <1>3, Zenon
  <2> QED BY <2>1 DEF AccountInv, Parted
<1>5. \A i, j \in 1 .. 4 : i # j => parts[i] \cap parts[j] = {}
  BY <1>1, <1>2 DEF AccountInv, Parted
<1> QED BY <1>4, <1>5 DEF Accounted, AccountInv, Slot, parts

LEMMA AccountStep == TypeOK /\ AccountInv /\ [Next]_vars => AccountInv'
<1> SUFFICES ASSUME TypeOK, AccountInv, [Next]_vars PROVE AccountInv'
  OBVIOUS
<1>1. /\ next \in Nat /\ next > 0
      /\ Parted(Elements(accepted), dropped, unheard, Slot, 1 .. next - 1)
  BY DEF TypeOK, AccountInv
<1>2. CASE SendTo
  <2>1. Slot = {} /\ Slot' = {next} /\ 1 .. next' - 1 = (1 .. next - 1) \cup {next}
    BY <1>1, <1>2 DEF SendTo, Slot
  <2>2. next \notin 1 .. next - 1
    BY <1>1
  <2>3. Parted(Elements(accepted), dropped, unheard, Slot', 1 .. next' - 1)
    BY <1>1, <2>1, <2>2 DEF Parted
  <2> QED BY <1>2, <2>3 DEF SendTo, AccountInv, Elements
<1>3. CASE SendToNobody
  <2>1. /\ Slot = {} /\ Slot' = {} /\ unheard' = unheard \cup {next}
        /\ 1 .. next' - 1 = (1 .. next - 1) \cup {next}
    BY <1>1, <1>3 DEF SendToNobody, Slot
  <2>2. next \notin 1 .. next - 1
    BY <1>1
  <2>3. Parted(Elements(accepted), dropped, unheard', Slot', 1 .. next' - 1)
    BY <1>1, <2>1, <2>2 DEF Parted
  <2> QED BY <1>3, <2>3 DEF SendToNobody, AccountInv, Elements
<1>4. CASE Overflow
  <2>1. Slot = {next - 1} /\ Slot' = {} /\ dropped' = dropped \cup {next - 1}
    BY <1>4 DEF Overflow, Slot
  <2>2. Parted(Elements(accepted), dropped', unheard, Slot', 1 .. next - 1)
    BY <1>1, <2>1 DEF Parted
  <2> QED BY <1>4, <2>2 DEF Overflow, AccountInv, Elements
<1>5. CASE Enqueue
  <2>1. Slot = {next - 1} /\ Slot' = {} /\ accepted' = Append(accepted, next - 1)
    BY <1>5 DEF Enqueue, Slot
  <2>2. Elements(accepted') = Elements(accepted) \cup {next - 1}
    BY <1>1, <2>1, ElementsOfAppend DEF TypeOK
  <2>3. Parted(Elements(accepted'), dropped, unheard, Slot', 1 .. next - 1)
    BY <1>1, <2>1, <2>2 DEF Parted
  <2> QED BY <1>5, <2>3 DEF Enqueue, AccountInv, Elements
<1>6. CASE Dequeue
  <2>1. Head(queue) \in Nat
    BY <1>6, HeadTailProperties DEF Dequeue, TypeOK
  <2>2. Elements(popped') = Elements(popped) \cup {cur'}
    BY <1>6, <2>1, ElementsOfAppend DEF Dequeue, TypeOK
  <2>3. Slot' = Slot /\ Elements(accepted)' = Elements(accepted)
    BY <1>6 DEF Dequeue, Slot, Elements
  <2> QED BY <1>6, <2>2, <2>3 DEF Dequeue, AccountInv
<1>7. ASSUME NEW ok \in BOOLEAN, Transmit(ok) PROVE AccountInv'
  BY <1>7 DEF Transmit, AccountInv, Slot, Elements
<1>8. CASE AcquireWritable \/ ReleaseReadable
  <2>1. Slot' = Slot
    BY <1>8 DEF AcquireWritable, ReleaseReadable, Slot
  <2> QED BY <1>8, <2>1 DEF AcquireWritable, ReleaseReadable, AccountInv, Elements
<1>9. CASE LoopHead \/ AcquireReadable \/ ReadTimeout \/ CheckField
  <2>1. tx' \notin {"free", "transmit"}
    BY <1>9 DEF LoopHead, AcquireReadable, ReadTimeout, CheckField, AfterCheck
  <2>2. UNCHANGED <<accepted, dropped, unheard, gui, next, sent, popped>>
    BY <1>9 DEF LoopHead, AcquireReadable, ReadTimeout, CheckField
  <2> QED BY <2>1, <2>2 DEF AccountInv, Slot, Elements
<1>10. CASE ReleaseWritable
  BY <1>10 DEF ReleaseWritable, AccountInv, Slot, Elements
<1>11. CASE ShutdownNetwork \/ OnTxDone
            \/ \E fields \in SUBSET Fields : SetupNetwork(fields)
  BY <1>11 DEF ShutdownNetwork, OnTxDone, SetupNetwork, AccountInv, Slot, Elements
<1>12. CASE UNCHANGED vars
  BY <1>12 DEF vars, AccountInv, Slot, Elements
<1> QED
  BY <1>2, <1>3, <1>4, <1>5, <1>6, <1>7, <1>8, <1>9, <1>10, <1>11, <1>12
  DEF Next, GuiNext, TxNext, Terminated

(* Every message recorded in the chat was enqueued, dropped, emitted to     *)
(* nobody or is with the slot, one of these only, and what is reported as   *)
(* sent was popped.                                                         *)
THEOREM EveryMessageAccounted == Spec => []Accounted
<1>1. Init => AccountInv
  <2> SUFFICES ASSUME Init PROVE AccountInv
    OBVIOUS
  <2>1. Elements(accepted) = {} /\ Slot = {} /\ 1 .. next - 1 = {}
    BY DEF Init, Elements, Slot
  <2> QED BY <2>1 DEF Init, AccountInv, Parted
<1>2. TypeOK /\ AccountInv /\ [Next]_vars => (TypeOK /\ AccountInv)'
  BY TypeStep, AccountStep
<1> QED BY <1>1, <1>2, TypeInitially, AccountSays, PTL DEF Spec
-----------------------------------------------------------------------------
(* Stopping and deleting the thread.                                        *)

StopInv == OneAfterStop /\ (~alive => tx = "done")

(* After stop() the thread pops at most one more message, and the object    *)
(* that OnTxDone deletes belongs to a thread that has left its loop.        *)
LEMMA StopInvariant == Spec => []StopInv
<1>1. Init => TypeOK /\ StopInv
  <2>1. Init => StopInv
    BY DEF Init, StopInv, OneAfterStop
  <2>2. QED BY <2>1, TypeInitially
<1>2. TypeOK /\ StopInv /\ [Next]_vars => (TypeOK /\ StopInv)'
  <2> SUFFICES ASSUME TypeOK, StopInv, [Next]_vars PROVE StopInv'
    BY TypeStep
  <2>1. late \in Nat /\ tx \in TxPC
    BY DEF TypeOK
  <2> USE <2>1 DEF StopInv, OneAfterStop
  <2>2. CASE ShutdownNetwork BY <2>2 DEF ShutdownNetwork
  <2>3. CASE OnTxDone        BY <2>3 DEF OnTxDone
  <2>4. CASE LoopHead        BY <2>4 DEF LoopHead
  <2>5. CASE AcquireReadable BY <2>5 DEF AcquireReadable
  <2>6. CASE ReadTimeout     BY <2>6 DEF ReadTimeout
  <2>7. CASE CheckField      BY <2>7 DEF CheckField, AfterCheck
  <2>8. CASE Dequeue         BY <2>8 DEF Dequeue
  <2>9. CASE ReleaseWritable BY <2>9 DEF ReleaseWritable
  <2>10. ASSUME NEW ok \in BOOLEAN, Transmit(ok) PROVE StopInv'
    BY <2>10 DEF Transmit
  <2>11. CASE \/ SendTo \/ SendToNobody \/ AcquireWritable \/ Overflow
              \/ Enqueue \/ ReleaseReadable
              \/ \E fields \in SUBSET Fields : SetupNetwork(fields)
              \/ Terminated \/ UNCHANGED vars
    <3>1. UNCHANGED <<late, stop, tx, alive>>
      BY <2>11 DEF SendTo, SendToNobody, AcquireWritable, Overflow, Enqueue,
                   ReleaseReadable, SetupNetwork, Terminated, vars
    <3>2. QED BY <3>1
  <2>12. QED
    BY <2>2, <2>3, <2>4, <2>5, <2>6, <2>7, <2>8, <2>9, <2>10, <2>11
    DEF Next, GuiNext, TxNext
<1>3. QED BY <1>1, <1>2, PTL DEF Spec

(* Once stop() was called, run() takes at most the one message it was about *)
(* to pop and then finishes only that one.                                  *)
THEOREM StopIsPrompt == Spec => []OneAfterStop
<1>1. StopInv => OneAfterStop BY DEF StopInv
<1>2. QED BY <1>1, StopInvariant, PTL
-----------------------------------------------------------------------------
(* Refinement.                                                              *)

(* The client with its semaphores and threads implements TxChannel.         *)
THEOREM ImplementsChannel == Spec => ChannelSpec
<1> DEFINE Inv == PermitInv /\ StopInv
<1>1. Init => Channel!Init
  BY DEF Init, Channel!Init
<1>2. Inv /\ [Next]_vars => [Channel!Next]_(Channel!vars)
  <2> SUFFICES ASSUME PermitInv, StopInv, [Next]_vars
               PROVE  Channel!Next \/ UNCHANGED Channel!vars
    OBVIOUS
  <2>1. /\ queue \in Seq(Nat) /\ Len(queue) \in Nat /\ next \in Nat
        /\ writable \in Nat /\ Capacity \in Nat /\ next > 0
    BY LenProperties, TxAssumption DEF PermitInv, TypeOK, TxAssumption
  <2>2. WritePermits /\ (~alive => tx = "done")
    BY DEF PermitInv, StopInv
  <2> USE <2>1 DEF Channel!vars
  <2>3. CASE SendTo
    BY <2>3 DEF SendTo
  <2>4. CASE SendToNobody
    BY <2>4 DEF SendToNobody, Channel!Next, Channel!Refuse
  <2>5. CASE AcquireWritable
    BY <2>5 DEF AcquireWritable
  <2>6. CASE Overflow
    <3>1. Len(queue) + 1 >= Capacity
      BY <2>2, <2>6 DEF WritePermits, Overflow, One
    <3>2. QED BY <2>6, <3>1 DEF Overflow, Channel!Next, Channel!Refuse
  <2>7. CASE Enqueue
    <3>1. Len(queue) < Capacity
      BY <2>2, <2>7 DEF WritePermits, Enqueue, One
    <3>2. QED BY <2>7, <3>1 DEF Enqueue, Channel!Next, Channel!Keep
  <2>8. CASE ReleaseReadable
    BY <2>8 DEF ReleaseReadable
  <2>9. CASE OnTxDone
    BY <2>9 DEF OnTxDone, Channel!Next, Channel!Close
  <2>10. CASE Dequeue
    <3>1. alive
      BY <2>2, <2>10 DEF Dequeue
    <3>2. QED BY <2>10, <3>1 DEF Dequeue, Channel!Next, Channel!Take
  <2>11. CASE \/ ShutdownNetwork
              \/ \E fields \in SUBSET Fields : SetupNetwork(fields)
              \/ LoopHead \/ AcquireReadable \/ ReadTimeout \/ CheckField
              \/ ReleaseWritable \/ \E ok \in BOOLEAN : Transmit(ok)
              \/ Terminated \/ UNCHANGED vars
    <3>1. UNCHANGED <<queue, popped, alive, gui, next>>
      BY <2>11 DEF ShutdownNetwork, SetupNetwork, LoopHead, AcquireReadable,
                   ReadTimeout, CheckField, ReleaseWritable, Transmit,
                   Terminated, vars
    <3>2. QED BY <3>1
  <2>12. QED
    BY <2>3, <2>4, <2>5, <2>6, <2>7, <2>8, <2>9, <2>10, <2>11
    DEF Next, GuiNext, TxNext
<1>3. Spec => []Inv
  BY PermitsInitially, PermitsStep, StopInvariant, PTL DEF Spec
<1>4. QED
  BY <1>1, <1>2, <1>3, PTL DEF Spec, ChannelSpec, Channel!Spec
=============================================================================
