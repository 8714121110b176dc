---------------------------- MODULE Shutdown_proofs ----------------------------
(***************************************************************************)
(* Proofs about Shutdown, for any number of messages.                      *)
(*                                                                         *)
(* The window knows that a thread is gone by its done() signal, which is   *)
(* the thread's last and is handled after the messages posted before it.   *)
(* The invariant says so of the event queue: done() stands in it only once *)
(* its thread has left the loop, and no message stands behind the receive  *)
(* thread's; and that nothing but the user lets the main thread go on      *)
(* before both slots have run.                                             *)
(***************************************************************************)
EXTENDS Shutdown, TLAPS, FiniteSetTheorems, SequenceTheorems

USE DEF Threads

(* The messages among the posted signals.                                   *)
Places(e) == {i \in 1 .. Len(e) : e[i] = "mail"}
Mails(e)  == Cardinality(Places(e))

Gone(t) == pc[t] = "finished"
Past == gui \in {"after", "accept", "save", "saved", "freed", "exit"}

(* A thread whose object is deleted has ended.                              *)
DeadHasEnded == \A t \in Threads : ~alive[t] => Gone(t)

(* done() is posted when the thread has left its loop, and is the receive   *)
(* thread's last signal.                                                    *)
DoneIsLast ==
  /\ \A i \in 1 .. Len(events) :
       events[i] \in Threads => pc[events[i]] \in {"leaving", "finished"}
  /\ \A i, j \in 1 .. Len(events) :
       i < j /\ events[i] = "rx" => events[j] # "mail"
  /\ ~alive["rx"] => \A i \in 1 .. Len(events) : events[i] # "mail"

(* The main thread goes on when both objects are deleted or the user closed *)
(* the dialog.                                                              *)
GoesOnWhenDead == Past => dismissed \/ \A t \in Threads : ~alive[t]

(* A message reported is posted, or shown, or the one the process died of.  *)
MailCounted ==
  emitted = shown + Mails(events) + (IF gui = "crash" THEN 1 ELSE 0)

(* Without a tray no message is ever shown, and the process dies of a NULL  *)
(* trayIcon only then.                                                      *)
NoTrayNoMail == /\ ~tray => shown = 0
                /\ gui = "crash" => ~tray

Inv == /\ TypeOK /\ DeadHasEnded /\ DoneIsLast /\ GoesOnWhenDead
       /\ MailCounted /\ NoTrayNoMail
-----------------------------------------------------------------------------
(* Counting.                                                                *)

LEMMA MailsType ==
  ASSUME NEW S, NEW e \in Seq(S)
  PROVE  IsFiniteSet(Places(e)) /\ Mails(e) \in Nat
<1>1. Len(e) \in Nat
  OBVIOUS
<1>2. IsFiniteSet(1 .. Len(e)) /\ Places(e) \in SUBSET (1 .. Len(e))
  BY <1>1, FS_Interval DEF Places
<1>3. IsFiniteSet(Places(e))
  BY <1>2, FS_Subset
<1> QED BY <1>3, FS_CardinalityType DEF Mails

LEMMA MailsAppend ==
  ASSUME NEW S, NEW e \in Seq(S), NEW x \in S
  PROVE  Mails(Append(e, x)) = Mails(e) + (IF x = "mail" THEN 1 ELSE 0)
<1>1. /\ Len(e) \in Nat /\ Len(Append(e, x)) = Len(e) + 1
      /\ Append(e, x)[Len(e) + 1] = x
      /\ \A i \in 1 .. Len(e) : Append(e, x)[i] = e[i]
  OBVIOUS
<1>2. IsFiniteSet(Places(e)) /\ Mails(e) \in Nat
  BY MailsType
<1>3. CASE x = "mail"
  <2>1. Places(Append(e, x)) = Places(e) \cup {Len(e) + 1}
    BY <1>1, <1>3 DEF Places
  <2>2. Len(e) + 1 \notin Places(e)
    BY <1>1 DEF Places
  <2> QED BY <1>2, <1>3, <2>1, <2>2, FS_AddElement DEF Mails
<1>4. CASE x # "mail"
  <2>1. Places(Append(e, x)) = Places(e)
    BY <1>1, <1>4 DEF Places
  <2> QED BY <1>2, <1>4, <2>1 DEF Mails
<1> QED BY <1>3, <1>4

LEMMA MailsTail ==
  ASSUME NEW S, NEW e \in Seq(S), e # <<>>
  PROVE  Mails(e) = Mails(Tail(e)) + (IF Head(e) = "mail" THEN 1 ELSE 0)
<1>1. /\ Len(e) \in Nat \ {0} /\ Tail(e) \in Seq(S) /\ Len(Tail(e)) = Len(e) - 1
      /\ \A i \in 1 .. Len(e) - 1 : Tail(e)[i] = e[i + 1]
      /\ Head(e) = e[1]
  OBVIOUS
<1>2. IsFiniteSet(Places(Tail(e))) /\ Mails(Tail(e)) \in Nat
  BY <1>1, MailsType
<1> DEFINE f == [i \in Places(Tail(e)) |-> i + 1]
           T == Places(e) \ {1}
<1>3. f \in Bijection(Places(Tail(e)), T)
  <2>1. \A i \in Places(Tail(e)) : i \in 1 .. Len(e) - 1 /\ i + 1 \in T
    BY <1>1 DEF Places
  <2>2. \A j \in T : j - 1 \in Places(Tail(e)) /\ j = f[j - 1]
    BY <1>1 DEF Places
  <2>3. f \in [Places(Tail(e)) -> T]
    BY <2>1
  <2>4. \A i, j \in Places(Tail(e)) : f[i] = f[j] => i = j
    BY <2>1
  <2> QED BY <2>2, <2>3, <2>4 DEF Bijection, Injection, Surjection, IsInjective
<1>4. IsFiniteSet(T) /\ Cardinality(T) = Mails(Tail(e))
  <2>1. ExistsBijection(Places(Tail(e)), T)
    BY <1>3 DEF ExistsBijection
  <2> HIDE DEF T
  <2> QED BY <1>2, <2>1, FS_Bijection DEF Mails
<1>5. CASE Head(e) = "mail"
  <2>1. Places(e) = T \cup {1} /\ 1 \notin T
    BY <1>1, <1>5 DEF Places
  <2> HIDE DEF T
  <2> QED BY <1>2, <1>4, <1>5, <2>1, FS_AddElement DEF Mails
<1>6. CASE Head(e) # "mail"
  <2>1. Places(e) = T
    BY <1>1, <1>6 DEF Places
  <2> HIDE DEF T
  <2> QED BY <1>2, <1>4, <1>6, <2>1 DEF Mails
<1> QED BY <1>5, <1>6
-----------------------------------------------------------------------------
LEMMA Initially == Init => Inv
<1> SUFFICES ASSUME Init PROVE Inv
  OBVIOUS
<1>1. Places(<<>>) = {} /\ Mails(<<>>) = 0
  BY FS_EmptySet DEF Places, Mails
<1>2. TypeOK
  <2>1. events \in Seq(Threads \cup {"mail"})
    BY EmptySeq DEF Init
  <2>2. emitted \in 0 .. MaxMail /\ shown \in 0 .. MaxMail
    BY ShutdownAssumption DEF Init, ShutdownAssumption
  <2>3. pc \in [Threads -> {"head", "wait", "use", "expunge", "emit", "leaving",
                           "finished"}]
        /\ alive \in [Threads -> BOOLEAN]
    BY DEF Init
  <2> QED BY <2>1, <2>2, <2>3 DEF Init, TypeOK
<1>3. DeadHasEnded /\ DoneIsLast /\ GoesOnWhenDead /\ NoTrayNoMail
  BY DEF Init, DeadHasEnded, DoneIsLast, GoesOnWhenDead, Past, NoTrayNoMail
<1> QED BY <1>1, <1>2, <1>3 DEF Init, Inv, MailCounted

(* Steps of a thread that post nothing: where it was inside the loop it may *)
(* go anywhere, once out of it only on.                                     *)
LEMMA QuietThreadStep ==
  ASSUME Inv, NEW t \in Threads, Loop(t) \/ Wake(t) \/ Return(t) \/ Finish(t)
  PROVE  Inv'
<1>1. /\ UNCHANGED <<gui, tray, caller, stop, alive, events, emitted, shown,
                     dismissed, saved>>
      /\ pc[t] \notin {"finished"}
      /\ pc[t] = "leaving" => pc' = [pc EXCEPT ![t] = "finished"]
      /\ \E l \in {"head", "wait", "use", "expunge", "emit", "leaving", "finished"} :
           pc' = [pc EXCEPT ![t] = l]
  BY DEF Loop, Wake, Return, Finish, Goto, Using
<1>2. TypeOK /\ DeadHasEnded /\ DoneIsLast /\ GoesOnWhenDead /\ MailCounted
      /\ NoTrayNoMail
  BY DEF Inv
<1>3. pc \in [Threads -> {"head", "wait", "use", "expunge", "emit", "leaving",
                          "finished"}]
  BY <1>2 DEF TypeOK
<1>4. TypeOK'
  BY <1>1, <1>2 DEF TypeOK
<1>5. DeadHasEnded'
  BY <1>1, <1>2, <1>3 DEF DeadHasEnded, Gone
<1>6. DoneIsLast'
  BY <1>1, <1>2, <1>3 DEF DoneIsLast
<1>7. GoesOnWhenDead' /\ MailCounted' /\ NoTrayNoMail'
  BY <1>1, <1>2 DEF GoesOnWhenDead, Past, MailCounted, NoTrayNoMail
<1> QED BY <1>4, <1>5, <1>6, <1>7 DEF Inv

(* EmailHandler posts a message only from within the loop.                  *)
LEMMA ReceiveStep == ASSUME Inv, Receive PROVE Inv'
<1>1. /\ pc["rx"] = "use" /\ emitted < MaxMail /\ emitted' = emitted + 1
      /\ events' = Append(events, "mail")
      /\ UNCHANGED <<gui, tray, caller, stop, pc, alive, shown, dismissed, saved>>
  BY DEF Receive
<1>2. TypeOK /\ DeadHasEnded /\ DoneIsLast /\ GoesOnWhenDead /\ MailCounted
      /\ NoTrayNoMail
  BY DEF Inv
<1>3. events \in Seq(Threads \cup {"mail"}) /\ emitted \in 0 .. MaxMail
      /\ shown \in 0 .. MaxMail /\ MaxMail \in Nat
  BY <1>2, ShutdownAssumption DEF TypeOK, ShutdownAssumption
<1>4. events' \in Seq(Threads \cup {"mail"}) /\ emitted' \in 0 .. MaxMail
  BY <1>1, <1>3
<1>5. TypeOK'
  BY <1>1, <1>2, <1>4 DEF TypeOK
<1>6. /\ Len(events') = Len(events) + 1 /\ Len(events) \in Nat
      /\ events'[Len(events) + 1] = "mail"
      /\ \A i \in 1 .. Len(events) : events'[i] = events[i]
  BY <1>1, <1>3
<1>7. alive["rx"] /\ \A i \in 1 .. Len(events) : events[i] # "rx"
  BY <1>1, <1>2 DEF DeadHasEnded, DoneIsLast, Gone
<1>8. DoneIsLast'
  BY <1>1, <1>2, <1>6, <1>7 DEF DoneIsLast
<1>9. DeadHasEnded' /\ GoesOnWhenDead' /\ NoTrayNoMail'
  BY <1>1, <1>2 DEF DeadHasEnded, Gone, GoesOnWhenDead, Past, NoTrayNoMail
<1>10. MailCounted'
  <2>1. Mails(events) \in Nat /\ Mails(events') = Mails(events) + 1
    BY <1>1, <1>3, MailsType, MailsAppend
  <2> QED BY <1>1, <1>2, <1>3, <2>1 DEF MailCounted
<1> QED BY <1>5, <1>8, <1>9, <1>10 DEF Inv

(* done() is posted on the way out.                                         *)
LEMMA EmitDoneStep == ASSUME Inv, NEW t \in Threads, EmitDone(t) PROVE Inv'
<1>1. /\ pc[t] = "emit" /\ pc' = [pc EXCEPT ![t] = "leaving"]
      /\ events' = Append(events, t)
      /\ UNCHANGED <<gui, tray, caller, stop, alive, emitted, shown, dismissed, saved>>
  BY DEF EmitDone, Goto
<1>2. TypeOK /\ DeadHasEnded /\ DoneIsLast /\ GoesOnWhenDead /\ MailCounted
      /\ NoTrayNoMail
  BY DEF Inv
<1>3. /\ events \in Seq(Threads \cup {"mail"})
      /\ emitted \in 0 .. MaxMail /\ shown \in 0 .. MaxMail
      /\ pc \in [Threads -> {"head", "wait", "use", "expunge", "emit", "leaving",
                             "finished"}]
  BY <1>2 DEF TypeOK
<1>4. events' \in Seq(Threads \cup {"mail"})
  BY <1>1, <1>3
<1>5. TypeOK'
  BY <1>1, <1>2, <1>4 DEF TypeOK
<1>6. /\ Len(events') = Len(events) + 1 /\ Len(events) \in Nat
      /\ events'[Len(events) + 1] = t
      /\ \A i \in 1 .. Len(events) : events'[i] = events[i]
  BY <1>1, <1>3
<1>7. DoneIsLast'
  <2>1. \A i \in 1 .. Len(events') :
          events'[i] \in Threads => pc'[events'[i]] \in {"leaving", "finished"}
    BY <1>1, <1>2, <1>3, <1>6 DEF DoneIsLast
  <2>2. \A i, j \in 1 .. Len(events') :
          i < j /\ events'[i] = "rx" => events'[j] # "mail"
    BY <1>2, <1>6 DEF DoneIsLast
  <2>3. ~alive'["rx"] => \A i \in 1 .. Len(events') : events'[i] # "mail"
    BY <1>1, <1>2, <1>6 DEF DoneIsLast
  <2> QED BY <2>1, <2>2, <2>3 DEF DoneIsLast
<1>8. DeadHasEnded' /\ GoesOnWhenDead' /\ NoTrayNoMail'
  BY <1>1, <1>2, <1>3 DEF DeadHasEnded, Gone, GoesOnWhenDead, Past, NoTrayNoMail
<1>9. MailCounted'
  <2>1. Mails(events) \in Nat /\ Mails(events') = Mails(events) + 0
    BY <1>1, <1>3, MailsType, MailsAppend
  <2> QED BY <1>1, <1>2, <2>1 DEF MailCounted
<1> QED BY <1>5, <1>7, <1>8, <1>9 DEF Inv

(* What handling the first signal leaves of the queue.                      *)
LEMMA AfterHead ==
  ASSUME TypeOK, DoneIsLast, events # <<>>, events' = Tail(events)
  PROVE  /\ events' \in Seq(Threads \cup {"mail"})
         /\ \A i \in 1 .. Len(events') : /\ i + 1 \in 1 .. Len(events)
                                         /\ events'[i] = events[i + 1]
         /\ Head(events) = events[1] /\ 1 \in 1 .. Len(events)
BY DEF TypeOK

(* A message is shown; without a tray the process dies of it.               *)
LEMMA NewMessageStep == ASSUME Inv, OnNewMessage PROVE Inv'
<1>1. /\ events # <<>> /\ Head(events) = "mail" /\ events' = Tail(events)
      /\ gui \in {"loop", "dialog", "after"}
      /\ UNCHANGED <<tray, caller, stop, pc, alive, emitted, dismissed, saved>>
  BY DEF OnNewMessage, Delivering
<1>2. TypeOK /\ DeadHasEnded /\ DoneIsLast /\ GoesOnWhenDead /\ MailCounted
      /\ NoTrayNoMail
  BY DEF Inv
<1>3. /\ events \in Seq(Threads \cup {"mail"})
      /\ emitted \in 0 .. MaxMail /\ shown \in 0 .. MaxMail /\ MaxMail \in Nat
  BY <1>2, ShutdownAssumption DEF TypeOK, ShutdownAssumption
<1>4. /\ events' \in Seq(Threads \cup {"mail"})
      /\ \A i \in 1 .. Len(events') : /\ i + 1 \in 1 .. Len(events)
                                      /\ events'[i] = events[i + 1]
  BY <1>1, <1>2, AfterHead
<1>5. Mails(events') \in Nat /\ emitted = shown + Mails(events') + 1
  <2>1. Mails(events') \in Nat /\ Mails(events) = Mails(events') + 1
    BY <1>1, <1>3, <1>4, MailsType, MailsTail
  <2> QED BY <1>1, <1>2, <1>3, <2>1 DEF MailCounted
<1>6. DoneIsLast' /\ DeadHasEnded'
  BY <1>1, <1>2, <1>4 DEF DoneIsLast, DeadHasEnded, Gone
<1>7. CASE tray
  <2>1. shown' = shown + 1 /\ gui' = gui
    BY <1>7 DEF OnNewMessage
  <2>2. MailCounted' /\ shown' \in 0 .. MaxMail
    BY <1>1, <1>3, <1>5, <2>1 DEF MailCounted
  <2>3. TypeOK'
    BY <1>1, <1>2, <1>4, <2>1, <2>2 DEF TypeOK
  <2>4. GoesOnWhenDead' /\ NoTrayNoMail'
    BY <1>1, <1>2, <1>7, <2>1 DEF GoesOnWhenDead, Past, NoTrayNoMail
  <2> QED BY <1>6, <2>2, <2>3, <2>4 DEF Inv
<1>8. CASE ~tray
  <2>1. gui' = "crash" /\ shown' = shown
    BY <1>8 DEF OnNewMessage
  <2>2. MailCounted'
    BY <1>1, <1>3, <1>5, <2>1 DEF MailCounted
  <2>3. TypeOK'
    BY <1>1, <1>2, <1>4, <2>1 DEF TypeOK
  <2>4. GoesOnWhenDead' /\ NoTrayNoMail'
    BY <1>1, <1>2, <1>8, <2>1 DEF GoesOnWhenDead, Past, NoTrayNoMail
  <2> QED BY <1>6, <2>2, <2>3, <2>4 DEF Inv
<1> QED BY <1>7, <1>8

(* onRxDone and onTxDone.                                                   *)
LEMMA DoneStep == ASSUME Inv, NEW t \in Threads, OnDone(t) PROVE Inv'
<1>1. /\ events # <<>> /\ Head(events) = t /\ events' = Tail(events)
      /\ gui \in {"loop", "dialog", "after"} /\ gui' # "crash"
      /\ UNCHANGED <<tray, caller, stop, pc, emitted, shown, dismissed, saved>>
  BY DEF OnDone, Delivering
<1>2. TypeOK /\ DeadHasEnded /\ DoneIsLast /\ GoesOnWhenDead /\ MailCounted
      /\ NoTrayNoMail
  BY DEF Inv
<1>3. events \in Seq(Threads \cup {"mail"}) /\ alive \in [Threads -> BOOLEAN]
  BY <1>2 DEF TypeOK
<1>4. /\ events' \in Seq(Threads \cup {"mail"})
      /\ \A i \in 1 .. Len(events') : /\ i + 1 \in 1 .. Len(events)
                                      /\ events'[i] = events[i + 1]
      /\ events[1] = t /\ 1 \in 1 .. Len(events)
  BY <1>1, <1>2, AfterHead
<1>5. MailCounted'
  <2>1. Mails(events') \in Nat /\ Mails(events) = Mails(events') + 0
    BY <1>1, <1>3, <1>4, MailsType, MailsTail
  <2> QED BY <1>1, <1>2, <2>1 DEF MailCounted
<1>6. CASE pc[t] = "finished"
  <2>1. /\ alive' = [alive EXCEPT ![t] = FALSE]
        /\ gui' = IF gui = "dialog" /\ \A u \in Threads : ~alive'[u]
                    THEN "after" ELSE gui
    BY <1>6 DEF OnDone
  <2>2. TypeOK'
    BY <1>1, <1>2, <1>4, <2>1 DEF TypeOK
  <2>3. DeadHasEnded' /\ GoesOnWhenDead' /\ NoTrayNoMail'
    BY <1>1, <1>2, <1>3, <1>6, <2>1
    DEF DeadHasEnded, Gone, GoesOnWhenDead, Past, NoTrayNoMail
  <2>4. DoneIsLast'
    <3>1. /\ \A i \in 1 .. Len(events') : events'[i] \in Threads
                                   => pc'[events'[i]] \in {"leaving", "finished"}
          /\ \A i, j \in 1 .. Len(events') :
               i < j /\ events'[i] = "rx" => events'[j] # "mail"
      BY <1>1, <1>2, <1>4 DEF DoneIsLast
    <3>2. ~alive'["rx"] => \A i \in 1 .. Len(events') : events'[i] # "mail"
      BY <1>2, <1>3, <1>4, <2>1 DEF DoneIsLast
    <3> QED BY <3>1, <3>2 DEF DoneIsLast
  <2> QED BY <1>5, <2>2, <2>3, <2>4 DEF Inv
<1>7. CASE pc[t] # "finished"
  <2>1. gui' = "abort" /\ alive' = alive
    BY <1>7 DEF OnDone
  <2>2. TypeOK'
    BY <1>1, <1>2, <1>4, <2>1 DEF TypeOK
  <2>3. DeadHasEnded' /\ GoesOnWhenDead' /\ DoneIsLast' /\ NoTrayNoMail'
    BY <1>1, <1>2, <1>4, <2>1
    DEF DeadHasEnded, Gone, GoesOnWhenDead, Past, DoneIsLast, NoTrayNoMail
  <2> QED BY <1>5, <2>2, <2>3 DEF Inv
<1> QED BY <1>6, <1>7

(* The steps of the main thread and the user that handle no signal.         *)
LEMMA MainStep ==
  ASSUME Inv, \/ \E c \in {"menu", "closeEvent"} : Quit(c)
              \/ Dismiss \/ ReturnFromQuit \/ CloseEventAccept
              \/ SaveProfile \/ FreeInst \/ Exit
  PROVE  Inv'
<1>1. TypeOK /\ DeadHasEnded /\ DoneIsLast /\ GoesOnWhenDead /\ MailCounted
      /\ NoTrayNoMail
  BY DEF Inv
<1>2. UNCHANGED <<tray, pc, alive, events, emitted, shown>>
      /\ gui # "crash" /\ gui' # "crash"
  BY DEF Quit, Dismiss, ReturnFromQuit, CloseEventAccept, SaveProfile, FreeInst,
         Exit
<1>3. TypeOK'
  BY <1>1 DEF TypeOK, Quit, Dismiss, ReturnFromQuit, CloseEventAccept,
              SaveProfile, FreeInst, Exit
<1>4. GoesOnWhenDead'
  BY <1>1, <1>2 DEF GoesOnWhenDead, Past, Quit, Dismiss, ReturnFromQuit,
                    CloseEventAccept, SaveProfile, FreeInst, Exit
<1>5. DeadHasEnded' /\ DoneIsLast' /\ MailCounted' /\ NoTrayNoMail'
  BY <1>1, <1>2 DEF DeadHasEnded, Gone, DoneIsLast, MailCounted, NoTrayNoMail
<1> QED BY <1>3, <1>4, <1>5 DEF Inv

LEMMA EveryStep == Inv /\ [Next]_vars => Inv'
<1> SUFFICES ASSUME Inv, [Next]_vars PROVE Inv'
  OBVIOUS
<1>1. CASE UNCHANGED vars
  BY <1>1 DEF vars, Inv, TypeOK, DeadHasEnded, Gone, DoneIsLast, GoesOnWhenDead,
              Past, MailCounted, NoTrayNoMail
<1>2. ASSUME NEW t \in Threads, ThreadNext(t) PROVE Inv'
  BY <1>2, QuietThreadStep, ReceiveStep, EmitDoneStep DEF ThreadNext
<1>3. CASE UserNext \/ MainNext
  BY <1>3, MainStep, NewMessageStep, DoneStep DEF UserNext, MainNext
<1> QED BY <1>1, <1>2, <1>3 DEF Next, Terminated

(* The invariant, with the types.                                           *)
THEOREM InvariantHolds == Spec => []Inv
BY Initially, EveryStep, PTL DEF Spec

THEOREM TypeCorrect == Spec => []TypeOK
<1>1. Inv => TypeOK
  BY DEF Inv
<1> QED BY <1>1, InvariantHolds, PTL

(* main() frees the instance when no thread can use it any more, unless the *)
(* user closed the dialog.                                                  *)
THEOREM InstanceFreedUnused == Spec => []FreedUnused
<1>1. Inv => FreedUnused
  BY DEF Inv, DeadHasEnded, Gone, GoesOnWhenDead, Past, FreedUnused
<1> QED BY <1>1, InvariantHolds, PTL

(* Every message reported has been shown by the time the profile is saved,  *)
(* unless the user closed the dialog; without a tray none was reported.     *)
THEOREM ReportedMailIsShown == Spec => []MailShown
<1>1. Inv => MailShown
  <2> SUFFICES ASSUME Inv, gui \in {"saved", "freed", "exit"}, ~dismissed
               PROVE  shown = emitted /\ (~tray => emitted = 0)
    BY DEF MailShown
  <2>1. ~alive["rx"]
    BY DEF Inv, GoesOnWhenDead, Past
  <2>2. Places(events) = {}
    BY <2>1 DEF Inv, DoneIsLast, Places
  <2>3. Mails(events) = 0
    BY <2>2, FS_EmptySet DEF Mails
  <2>4. shown = emitted
    BY <2>3 DEF Inv, MailCounted, TypeOK
  <2> QED BY <2>4 DEF Inv, NoTrayNoMail
<1> QED BY <1>1, InvariantHolds, PTL

(* The process dies of a NULL trayIcon only without a tray and of a message *)
(* it had been reported and never shows.                                    *)
THEOREM CrashLosesMail ==
  Spec => [](gui = "crash" => ~tray /\ shown < emitted)
<1>1. Inv => (gui = "crash" => ~tray /\ shown < emitted)
  <2> SUFFICES ASSUME Inv, gui = "crash" PROVE ~tray /\ shown < emitted
    OBVIOUS
  <2>1. Mails(events) \in Nat
    BY MailsType DEF Inv, TypeOK
  <2>2. shown < emitted
    BY <2>1 DEF Inv, MailCounted, TypeOK
  <2> QED BY <2>2 DEF Inv, NoTrayNoMail
<1> QED BY <1>1, InvariantHolds, PTL
=============================================================================
