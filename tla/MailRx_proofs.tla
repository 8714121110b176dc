----------------------------- MODULE MailRx_proofs -----------------------------
(***************************************************************************)
(* Proofs about MailRx, for any accounts, any number of messages and any   *)
(* number of faults.                                                       *)
(*                                                                         *)
(* An inbox is kept in the order of arrival, so the number of a message is *)
(* its rank: how many messages of the numbering in force are not younger.  *)
(* New mail leaves a rank alone, and whatever is removed only lowers it.   *)
(***************************************************************************)
EXTENDS MailRx, TLAPS, FiniteSetTheorems, SequenceTheorems

AtNum == {"fetch", "handle", "seen", "delete"}

Ordered(s) == \A i, j \in 1 .. Len(s) : i < j => s[i] < s[j]

(* Inboxes and the numberings of connections, which lack no message.        *)
Boxes ==
  \A a \in Accounts :
    /\ Ordered(box[a]) /\ \A i \in 1 .. Len(box[a]) : box[a][i] <= arrived
    /\ view[a] # Closed =>
         /\ view[a] \in Seq(Msgs) /\ Ordered(view[a])
         /\ \A i \in 1 .. Len(view[a]) : view[a][i] <= arrived
         /\ ToSet(box[a]) \subseteq ToSet(view[a])

(* What is meant goes with the numbers to come and the one at hand.         *)
Listed ==
  /\ rx \in InRx =>
       /\ Len(meant) = Len(list) + (IF rx \in AtNum THEN 1 ELSE 0)
       /\ \A i, j \in 1 .. Len(meant) : meant[i] = meant[j] => i = j
       /\ \A i \in 1 .. Len(meant) : meant[i] <= arrived
       /\ meant # <<>> => acct # NoAccount \/ "switch" \in faults
  /\ rx = "fetch" => smime = 0

(* The number that goes with meant[i].                                      *)
NumberOf(i) == IF rx \in AtNum THEN (IF i = 1 THEN num ELSE list[i - 1])
                               ELSE list[i]

(* NumbersHold and why: without a removal a connection numbers the inbox as *)
(* it is, and the numbers stand for what is meant.                          *)
Faithful ==
  \/ faults \cap {"switch", "remove"} # {}
  \/ /\ ~astray
     /\ \A a \in Accounts : view[a] \in {Closed, box[a]}
     /\ rx \in InRx => \A i \in 1 .. Len(meant) :
          /\ NumberOf(i) \in 1 .. Len(box[acct])
          /\ box[acct][NumberOf(i)] = meant[i]

(* HandledOnce and why: what was handled is \Seen and not to come.          *)
ToCome == IF rx \in {"seen", "delete"} THEN 2 .. Len(meant) ELSE 1 .. Len(meant)

Once ==
  \/ astray
  \/ /\ \A i, j \in 1 .. Len(handled) : handled[i] = handled[j] => i = j
     /\ \A i \in 1 .. Len(handled) : handled[i] \in seen
     /\ rx \in InRx => \A i \in 1 .. Len(handled) : \A k \in ToCome :
                         handled[i] # meant[k]
     /\ rx = "handle" /\ smime # 0 => smime = meant[1] /\ smime \in seen

(* DeletedWasHandled and why: a download is empty only if the message is    *)
(* gone or has another number now.                                          *)
RankIn(v, b, m) == Cardinality({k \in ToSet(IF v = Closed THEN b ELSE v) : k <= m})
Rank(a, m) == RankIn(view[a], box[a], m)
Gone(m)    == m \in ToSet(box[acct]) => Rank(acct, m) < num

Kept ==
  \/ astray \/ faults \cap {"fetch", "switch"} # {}
  \/ /\ flagged \subseteq ToSet(handled)
     /\ rx \in InRx => \A i \in 1 .. Len(meant) : Rank(acct, meant[i]) <= NumberOf(i)
     /\ rx = "handle" => smime = meant[1] \/ (smime = 0 /\ Gone(meant[1]))
     /\ rx \in {"seen", "delete"} => meant[1] \in ToSet(handled) \/ Gone(meant[1])

Inv == TypeOK /\ Boxes /\ Listed /\ Faithful /\ Once /\ Kept
-----------------------------------------------------------------------------
(* Sequences in ascending order.                                            *)

LEMMA MsgsAreFinite == NMsgs \in Nat /\ IsFiniteSet(Msgs)
<1>1. NMsgs \in Nat
  BY RxAssumption DEF RxAssumption
<1> QED BY <1>1, FS_Interval DEF Msgs

LEMMA AscendingFacts ==
  ASSUME NEW N \in Nat, NEW S \in SUBSET (1 .. N), NEW s \in Ascending(S)
  PROVE  s \in Seq(S) /\ Ordered(s) /\ ToSet(s) = S
<1>1. IsFiniteSet(S)
  <2>1. IsFiniteSet(1 .. N)
    BY FS_Interval
  <2> QED BY <2>1, FS_Subset
<1> DEFINE n == Cardinality(S)
<1>2. n \in Nat
  BY <1>1, FS_CardinalityType
<1>3. s \in [1 .. n -> S] /\ \A i, j \in 1 .. n : i < j => s[i] < s[j]
  BY DEF Ascending
<1> HIDE DEF n
<1>4. s \in Seq(S) /\ Len(s) = n /\ DOMAIN s = 1 .. n
  BY <1>2, <1>3
<1>5. s \in Injection(1 .. n, S)
  <2>1. ASSUME NEW i \in 1 .. n, NEW j \in 1 .. n, s[i] = s[j] PROVE i = j
    <3>1. s[i] \in 1 .. N /\ s[j] \in 1 .. N
      BY <1>3
    <3>2. ~(i < j) /\ ~(j < i)
      BY <1>2, <1>3, <2>1, <3>1
    <3> QED BY <1>2, <3>2
  <2> QED BY <1>3, <2>1 DEF Injection, IsInjective
<1>6. IsFiniteSet(1 .. n) /\ Cardinality(1 .. n) = n
  BY <1>2, FS_Interval
<1>7. s \in Surjection(1 .. n, S)
  BY <1>1, <1>5, <1>6, FS_Injection DEF n
<1>8. ToSet(s) = S
  BY <1>3, <1>4, <1>7 DEF Surjection, ToSet
<1> QED BY <1>3, <1>4, <1>8 DEF Ordered

(* The place of a message is how many are not younger.                      *)
LEMMA PlaceIsRank ==
  ASSUME NEW s \in Seq(Msgs), Ordered(s), NEW i \in 1 .. Len(s)
  PROVE  Cardinality({k \in ToSet(s) : k <= s[i]}) = i
<1> DEFINE T == {k \in ToSet(s) : k <= s[i]}
           f == [j \in 1 .. i |-> s[j]]
<1>1. i \in Nat /\ \A j \in 1 .. i : j \in 1 .. Len(s)
  OBVIOUS
<1>2. \A j \in 1 .. Len(s) : s[j] \in Nat
  BY MsgsAreFinite DEF Msgs
<1>3. \A j \in 1 .. i : s[j] \in T
  <2> SUFFICES ASSUME NEW j \in 1 .. i PROVE s[j] \in T
    OBVIOUS
  <2>1. s[j] \in ToSet(s)
    BY <1>1 DEF ToSet
  <2>2. s[j] <= s[i]
    BY <1>1, <1>2 DEF Ordered
  <2> QED BY <2>1, <2>2
<1>4. \A k \in T : \E j \in 1 .. i : s[j] = k
  <2> SUFFICES ASSUME NEW k \in T PROVE \E j \in 1 .. i : s[j] = k
    OBVIOUS
  <2>1. PICK j \in 1 .. Len(s) : s[j] = k
    BY DEF ToSet
  <2>2. ~(i < j)
    BY <1>2, <2>1 DEF Ordered
  <2> QED BY <1>1, <2>1, <2>2
<1>5. \A j, l \in 1 .. i : s[j] = s[l] => j = l
  BY <1>1, <1>2 DEF Ordered
<1> HIDE DEF T
<1>6. f \in Bijection(1 .. i, T)
  BY <1>3, <1>4, <1>5 DEF Bijection, Injection, Surjection, IsInjective
<1>7. IsFiniteSet(1 .. i) /\ Cardinality(1 .. i) = i
  BY <1>1, FS_Interval
<1>8. Cardinality(T) = i
  BY <1>6, <1>7, FS_Bijection DEF ExistsBijection
<1> QED BY <1>8 DEF T

LEMMA RankIsMonotone ==
  ASSUME NEW S \in SUBSET Msgs, NEW T \in SUBSET Msgs, NEW m \in Msgs,
         \A k \in S : k <= m => k \in T
  PROVE  /\ Cardinality({k \in S : k <= m}) \in Nat
         /\ Cardinality({k \in T : k <= m}) \in Nat
         /\ Cardinality({k \in S : k <= m}) <= Cardinality({k \in T : k <= m})
<1> DEFINE A == {k \in S : k <= m}
           B == {k \in T : k <= m}
<1>1. A \in SUBSET B /\ B \in SUBSET Msgs
  OBVIOUS
<1> HIDE DEF A, B
<1>2. IsFiniteSet(B) /\ IsFiniteSet(A)
  BY <1>1, MsgsAreFinite, FS_Subset
<1>3. Cardinality(A) \in Nat /\ Cardinality(B) \in Nat /\ Cardinality(A) <= Cardinality(B)
  BY <1>1, <1>2, FS_Subset, FS_CardinalityType
<1> QED BY <1>3 DEF A, B
-----------------------------------------------------------------------------
(* The numbering in force, and the message behind a number.                 *)

LEMMA Numberings ==
  ASSUME TypeOK, Boxes, NEW a \in Accounts
  PROVE  /\ Numbering(a) \in Seq(Msgs) /\ Ordered(Numbering(a))
         /\ \A i \in 1 .. Len(Numbering(a)) : Numbering(a)[i] <= arrived
         /\ ToSet(box[a]) \subseteq ToSet(Numbering(a))
         /\ ToSet(Numbering(a)) \subseteq Msgs
<1>1. box[a] \in Seq(Msgs) /\ Ordered(box[a])
      /\ \A i \in 1 .. Len(box[a]) : box[a][i] <= arrived
  BY DEF TypeOK, Boxes
<1>2. CASE view[a] = Closed
  BY <1>1, <1>2 DEF Numbering, ToSet
<1>3. CASE view[a] # Closed
  BY <1>3 DEF Boxes, Numbering, ToSet
<1> QED BY <1>2, <1>3

LEMMA AtIsListed ==
  ASSUME TypeOK, Boxes, NEW a \in Accounts, NEW n
  PROVE  /\ At(a, n) \in Msgs \cup {0}
         /\ At(a, n) # 0 => /\ n \in 1 .. Len(Numbering(a))
                            /\ At(a, n) = Numbering(a)[n]
                            /\ At(a, n) \in ToSet(box[a])
         /\ n \in 1 .. Len(Numbering(a)) /\ Numbering(a)[n] \in ToSet(box[a]) =>
              At(a, n) = Numbering(a)[n]
<1>1. Numbering(a) \in Seq(Msgs)
  BY Numberings
<1>2. DOMAIN Numbering(a) = 1 .. Len(Numbering(a))
  BY <1>1
<1> DEFINE v == Numbering(a)
<1>3. At(a, n) = IF n \in DOMAIN v /\ v[n] \in ToSet(box[a]) THEN v[n] ELSE 0
  BY DEF At
<1> HIDE DEF v
<1>4. \A i \in 1 .. Len(v) : v[i] \in Msgs
  BY <1>1 DEF v
<1> QED BY <1>2, <1>3, <1>4 DEF v
-----------------------------------------------------------------------------
(* What a step other than an EXPUNGE does to inboxes and numberings: no     *)
(* rank rises, nothing comes back, and the numbers stay without a removal.  *)
Mild ==
  /\ arrived' \in 0 .. NMsgs /\ arrived <= arrived'
  /\ box' \in [Accounts -> Seq(Msgs)] /\ view' \in [Accounts -> Seq(Msgs \cup {0})]
  /\ Boxes'
  /\ \A a \in Accounts, m \in Msgs : m <= arrived =>
       /\ Rank(a, m) \in Nat /\ Rank(a, m)' \in Nat /\ Rank(a, m)' <= Rank(a, m)
       /\ m \notin ToSet(box[a]) => m \notin ToSet(box'[a])
  /\ faults \subseteq faults'
  /\ "remove" \notin faults' =>
       \A a \in Accounts : view[a] \in {Closed, box[a]} =>
         /\ view'[a] \in {Closed, box'[a]}
         /\ Len(box[a]) <= Len(box'[a])
         /\ \A n \in 1 .. Len(box[a]) : box'[a][n] = box[a][n]

(* The messages in a numbering that arrived by now and are not older.       *)
LEMMA RankFalls ==
  ASSUME TypeOK, Boxes, TypeOK', Boxes', NEW a \in Accounts, NEW m \in Msgs,
         \A k \in ToSet(Numbering(a)') : k <= m => k \in ToSet(Numbering(a))
  PROVE  /\ Rank(a, m) \in Nat /\ Rank(a, m)' \in Nat
         /\ Rank(a, m)' <= Rank(a, m)
<1>1. ToSet(Numbering(a)) \subseteq Msgs
  BY Numberings
<1>2. ToSet(Numbering(a)') \subseteq Msgs
  <2>1. view'[a] = Closed => Numbering(a)' = box'[a]
    BY DEF Numbering
  <2>2. view'[a] # Closed => Numbering(a)' = view'[a]
    BY DEF Numbering
  <2>3. box'[a] \in Seq(Msgs) /\ (view'[a] # Closed => view'[a] \in Seq(Msgs))
    BY DEF TypeOK, Boxes
  <2> QED BY <2>1, <2>2, <2>3 DEF ToSet
<1> DEFINE S == ToSet(Numbering(a)')
           T == ToSet(Numbering(a))
<1>3. S \in SUBSET Msgs /\ T \in SUBSET Msgs /\ \A k \in S : k <= m => k \in T
  BY <1>1, <1>2
<1>4. Rank(a, m)' = Cardinality({k \in S : k <= m})
  BY DEF Rank, RankIn, Numbering
<1>5. Rank(a, m) = Cardinality({k \in T : k <= m})
  BY DEF Rank, RankIn, Numbering
<1> HIDE DEF S, T
<1> QED BY <1>3, <1>4, <1>5, RankIsMonotone

(* Nothing happens to the inboxes.                                          *)
LEMMA MildConnection ==
  ASSUME TypeOK, Boxes, faults \subseteq faults',
         UNCHANGED <<arrived, box>>,
         \A a \in Accounts : view'[a] \in {view[a], Closed, Numbering(a)},
         view' \in [Accounts -> Seq(Msgs \cup {0})],
         TypeOK'
  PROVE  Mild
<1>1. Boxes'
  <2> SUFFICES ASSUME NEW a \in Accounts
               PROVE  /\ Ordered(box[a])
                      /\ \A i \in 1 .. Len(box[a]) : box[a][i] <= arrived
                      /\ view'[a] # Closed =>
                           /\ view'[a] \in Seq(Msgs) /\ Ordered(view'[a])
                           /\ \A i \in 1 .. Len(view'[a]) : view'[a][i] <= arrived
                           /\ ToSet(box[a]) \subseteq ToSet(view'[a])
    BY DEF Boxes, Ordered
  <2>1. /\ Ordered(box[a]) /\ box[a] \in Seq(Msgs)
        /\ \A i \in 1 .. Len(box[a]) : box[a][i] <= arrived
    BY DEF Boxes, TypeOK
  <2>2. CASE view'[a] = view[a]
    BY <2>1, <2>2 DEF Boxes
  <2>3. CASE view'[a] = Numbering(a)
    BY <2>1, <2>3, Numberings
  <2> QED BY <2>1, <2>2, <2>3
<1>2. ASSUME NEW a \in Accounts
      PROVE  Numbering(a)' = Numbering(a) \/ Numbering(a)' = box[a]
  BY <1>2 DEF Numbering
<1>3. ASSUME NEW a \in Accounts, NEW m \in Msgs
      PROVE  Rank(a, m) \in Nat /\ Rank(a, m)' \in Nat /\ Rank(a, m)' <= Rank(a, m)
  <2>1. \A k \in ToSet(Numbering(a)') : k \in ToSet(Numbering(a))
    BY <1>2, <1>3, Numberings
  <2> QED BY <1>1, <1>3, <2>1, RankFalls
<1>4. \A a \in Accounts : view[a] \in {Closed, box[a]} => view'[a] \in {Closed, box[a]}
  BY DEF Numbering
<1>5. arrived \in 0 .. NMsgs /\ arrived <= arrived'
  BY MsgsAreFinite DEF TypeOK
<1>6. \A a \in Accounts : Len(box[a]) <= Len(box[a])
  BY DEF TypeOK
<1>7. /\ arrived' \in 0 .. NMsgs /\ box' \in [Accounts -> Seq(Msgs)]
      /\ faults \subseteq faults' /\ box' = box
      /\ view' \in [Accounts -> Seq(Msgs \cup {0})]
  BY <1>5 DEF TypeOK
<1> QED BY <1>1, <1>3, <1>4, <1>5, <1>6, <1>7 DEF Mild

LEMMA MildArrival ==
  ASSUME TypeOK, Boxes, NEW a \in Accounts, Arrive(a), TypeOK'
  PROVE  Mild
<1>1. /\ arrived < NMsgs /\ arrived' = arrived + 1
      /\ box' = [box EXCEPT ![a] = Append(@, arrived')]
      /\ view' = IF view[a] = Closed THEN view
                                     ELSE [view EXCEPT ![a] = Append(@, arrived')]
      /\ faults' = faults
  BY DEF Arrive, faultVars
<1>2. arrived \in Nat /\ arrived' \in Msgs
  BY <1>1, MsgsAreFinite DEF TypeOK, Msgs
<1>3. ASSUME NEW s \in Seq(Msgs), Ordered(s), \A i \in 1 .. Len(s) : s[i] <= arrived
      PROVE  /\ Append(s, arrived') \in Seq(Msgs) /\ Ordered(Append(s, arrived'))
             /\ \A i \in 1 .. Len(Append(s, arrived')) : Append(s, arrived')[i] <= arrived'
             /\ ToSet(Append(s, arrived')) = ToSet(s) \cup {arrived'}
             /\ Len(s) <= Len(Append(s, arrived'))
             /\ \A n \in 1 .. Len(s) : Append(s, arrived')[n] = s[n]
  <2> DEFINE t == Append(s, arrived')
  <2>1. /\ t \in Seq(Msgs) /\ Len(t) = Len(s) + 1 /\ t[Len(s) + 1] = arrived'
        /\ \A n \in 1 .. Len(s) : t[n] = s[n]
    BY <1>2, <1>3
  <2>2. \A n \in 1 .. Len(s) : s[n] \in Nat
    <3>1. \A n \in 1 .. Len(s) : s[n] \in Msgs
      BY <1>3
    <3> QED BY <3>1, MsgsAreFinite DEF Msgs
  <2> HIDE DEF t
  <2>3. \A i \in 1 .. Len(t) : t[i] <= arrived'
    BY <1>1, <1>2, <1>3, <2>1, <2>2
  <2>4. Ordered(t)
    <3> SUFFICES ASSUME NEW i \in 1 .. Len(t), NEW j \in 1 .. Len(t), i < j
                 PROVE  t[i] < t[j]
      BY DEF Ordered
    <3>1. Len(s) \in Nat
      BY <1>3
    <3>2. i \in 1 .. Len(s)
      BY <2>1, <3>1
    <3>3. CASE j \in 1 .. Len(s)
      BY <1>3, <2>1, <3>2, <3>3 DEF Ordered
    <3>4. CASE j = Len(s) + 1
      BY <1>1, <1>2, <1>3, <2>1, <2>2, <3>2, <3>4
    <3> QED BY <2>1, <3>1, <3>3, <3>4
  <2>5. ToSet(t) = ToSet(s) \cup {arrived'}
    <3>1. DOMAIN t = 1 .. Len(s) + 1 /\ DOMAIN s = 1 .. Len(s)
      BY <1>3, <2>1
    <3> QED BY <2>1, <3>1 DEF ToSet
  <2> QED BY <2>1, <2>3, <2>4, <2>5 DEF t
<1>4. /\ box'[a] = Append(box[a], arrived')
      /\ view'[a] = IF view[a] = Closed THEN Closed ELSE Append(view[a], arrived')
      /\ \A b \in Accounts \ {a} : box'[b] = box[b] /\ view'[b] = view[b]
  BY <1>1 DEF TypeOK
<1>5. \A b \in Accounts : view[b] # Closed => view[b] \in Seq(Msgs)
  BY DEF Boxes
<1>6. view[a] # Closed => view'[a] # Closed /\ view'[a] \in Seq(Msgs)
  <2> SUFFICES ASSUME view[a] # Closed
               PROVE  view'[a] # Closed /\ view'[a] \in Seq(Msgs)
    OBVIOUS
  <2>1. view'[a] \in Seq(Msgs) /\ Len(view'[a]) = Len(view[a]) + 1
    BY <1>2, <1>4, <1>5
  <2>2. 0 \notin Msgs
    BY DEF Msgs
  <2>3. Closed \notin Seq(Msgs)
    BY <2>2 DEF Closed
  <2> QED BY <2>1, <2>3
<1>7. Boxes'
  <2> SUFFICES ASSUME NEW b \in Accounts
               PROVE  /\ Ordered(box'[b])
                      /\ \A i \in 1 .. Len(box'[b]) : box'[b][i] <= arrived'
                      /\ view'[b] # Closed =>
                           /\ view'[b] \in Seq(Msgs) /\ Ordered(view'[b])
                           /\ \A i \in 1 .. Len(view'[b]) : view'[b][i] <= arrived'
                           /\ ToSet(box'[b]) \subseteq ToSet(view'[b])
    BY DEF Boxes, Ordered
  <2>1. /\ Ordered(box[b]) /\ box[b] \in Seq(Msgs)
        /\ \A i \in 1 .. Len(box[b]) : box[b][i] <= arrived
        /\ view[b] # Closed =>
             /\ view[b] \in Seq(Msgs) /\ Ordered(view[b])
             /\ \A i \in 1 .. Len(view[b]) : view[b][i] <= arrived
             /\ ToSet(box[b]) \subseteq ToSet(view[b])
    BY DEF Boxes, TypeOK
  <2>2. CASE b = a
    <3>1. CASE view[a] = Closed
      BY <1>3, <1>4, <2>1, <2>2, <3>1
    <3>2. CASE view[a] # Closed
      BY <1>3, <1>4, <2>1, <2>2, <3>2
    <3> QED BY <3>1, <3>2
  <2>3. CASE b # a
    <3>1. \A s \in Seq(Msgs) : \A i \in 1 .. Len(s) : s[i] <= arrived => s[i] <= arrived'
      <4> SUFFICES ASSUME NEW s \in Seq(Msgs), NEW i \in 1 .. Len(s), s[i] <= arrived
                   PROVE  s[i] <= arrived'
        OBVIOUS
      <4>1. s[i] \in Msgs
        OBVIOUS
      <4> QED BY <1>1, <1>2, <4>1, MsgsAreFinite DEF Msgs
    <3> QED BY <1>4, <2>1, <2>3, <3>1
  <2> QED BY <2>2, <2>3
<1>8. ASSUME NEW b \in Accounts, NEW m \in Msgs, m <= arrived
      PROVE  /\ Rank(b, m) \in Nat /\ Rank(b, m)' \in Nat /\ Rank(b, m)' <= Rank(b, m)
             /\ m \notin ToSet(box[b]) => m \notin ToSet(box'[b])
  <2>1. Numbering(b)' \in {Numbering(b), Append(Numbering(b), arrived')}
    BY <1>4, <1>6 DEF Numbering
  <2>2. ToSet(Numbering(b)') \subseteq ToSet(Numbering(b)) \cup {arrived'}
    BY <1>3, <2>1, Numberings
  <2>3. m \in Nat /\ ~(arrived' <= m)
    BY <1>1, <1>2, <1>8 DEF Msgs
  <2>4. /\ Rank(b, m) \in Nat /\ Rank(b, m)' \in Nat /\ Rank(b, m)' <= Rank(b, m)
    BY <1>7, <2>2, <2>3, RankFalls
  <2>5. box[b] \in Seq(Msgs) /\ Ordered(box[b])
        /\ \A i \in 1 .. Len(box[b]) : box[b][i] <= arrived
    BY DEF Boxes, TypeOK
  <2>6. ToSet(box'[b]) \subseteq ToSet(box[b]) \cup {arrived'}
    BY <1>3, <1>4, <2>5
  <2>7. m # arrived'
    BY <1>1, <1>2, <1>8
  <2> QED BY <2>4, <2>6, <2>7
<1>9. ASSUME NEW b \in Accounts, view[b] \in {Closed, box[b]}
      PROVE  /\ view'[b] \in {Closed, box'[b]} /\ Len(box[b]) <= Len(box'[b])
             /\ \A n \in 1 .. Len(box[b]) : box'[b][n] = box[b][n]
  <2>1. box[b] \in Seq(Msgs) /\ Ordered(box[b])
        /\ \A i \in 1 .. Len(box[b]) : box[b][i] <= arrived
    BY DEF Boxes, TypeOK
  <2>2. CASE b = a
    BY <1>3, <1>4, <1>9, <2>1, <2>2
  <2>3. CASE b # a
    <3>1. Len(box[b]) \in Nat
      BY <2>1
    <3> QED BY <1>4, <1>9, <2>3, <3>1
  <2> QED BY <2>2, <2>3
<1>10. arrived <= arrived'
  BY <1>1, <1>2
<1> QED BY <1>1, <1>7, <1>8, <1>9, <1>10 DEF Mild, TypeOK

LEMMA MildRemoval ==
  ASSUME TypeOK, Boxes, NEW a \in Accounts, NEW m \in Msgs, OtherRemoves(a, m)
  PROVE  Mild
<1>1. PICK b \in Ascending(ToSet(box[a]) \ {m}) : box' = [box EXCEPT ![a] = b]
  BY DEF OtherRemoves
<1>2. /\ UNCHANGED <<arrived, view>>
      /\ faults' = faults \cup {"remove"}
  BY DEF OtherRemoves, Fault
<1>3. box[a] \in Seq(Msgs) /\ ToSet(box[a]) \subseteq Msgs
      /\ \A k \in ToSet(box[a]) : k <= arrived
  BY DEF TypeOK, Boxes, ToSet
<1>4. b \in Seq(ToSet(box[a])) /\ Ordered(b) /\ ToSet(b) = ToSet(box[a]) \ {m}
  <2>1. ToSet(box[a]) \ {m} \in SUBSET (1 .. NMsgs) /\ NMsgs \in Nat
    BY <1>3, MsgsAreFinite DEF Msgs
  <2>2. b \in Seq(ToSet(box[a]) \ {m}) /\ Ordered(b) /\ ToSet(b) = ToSet(box[a]) \ {m}
    BY <2>1, AscendingFacts
  <2> QED BY <2>2
<1>5. b \in Seq(Msgs) /\ \A i \in 1 .. Len(b) : b[i] <= arrived
  BY <1>3, <1>4
<1>6. box' \in [Accounts -> Seq(Msgs)] /\ box'[a] = b
      /\ \A c \in Accounts \ {a} : box'[c] = box[c]
  BY <1>1, <1>5 DEF TypeOK
<1>7. Boxes'
  <2> SUFFICES ASSUME NEW c \in Accounts
               PROVE  /\ Ordered(box'[c])
                      /\ \A i \in 1 .. Len(box'[c]) : box'[c][i] <= arrived
                      /\ view[c] # Closed =>
                           /\ view[c] \in Seq(Msgs) /\ Ordered(view[c])
                           /\ \A i \in 1 .. Len(view[c]) : view[c][i] <= arrived
                           /\ ToSet(box'[c]) \subseteq ToSet(view[c])
    BY <1>2 DEF Boxes, Ordered
  <2>1. CASE c = a
    BY <1>4, <1>5, <1>6, <2>1 DEF Boxes
  <2>2. CASE c # a
    BY <1>6, <2>2 DEF Boxes
  <2> QED BY <2>1, <2>2
<1>8. \A c \in Accounts : ToSet(box'[c]) \subseteq ToSet(box[c])
  BY <1>4, <1>6
<1>9. ASSUME NEW c \in Accounts, NEW k \in Msgs
      PROVE  Rank(c, k) \in Nat /\ Rank(c, k)' \in Nat /\ Rank(c, k)' <= Rank(c, k)
  <2>1. ToSet(Numbering(c)') \subseteq ToSet(Numbering(c))
    BY <1>2, <1>8 DEF Numbering
  <2> DEFINE S == ToSet(Numbering(c)')
             T == ToSet(Numbering(c))
  <2>2. T \in SUBSET Msgs /\ S \in SUBSET Msgs /\ \A i \in S : i <= k => i \in T
    BY <2>1, Numberings
  <2>3. Rank(c, k)' = Cardinality({i \in S : i <= k})
    BY DEF Rank, RankIn, Numbering
  <2>4. Rank(c, k) = Cardinality({i \in T : i <= k})
    BY DEF Rank, RankIn, Numbering
  <2> HIDE DEF S, T
  <2> QED BY <2>2, <2>3, <2>4, RankIsMonotone
<1>10. arrived \in 0 .. NMsgs /\ arrived <= arrived'
  BY <1>2, MsgsAreFinite DEF TypeOK
<1> QED BY <1>2, <1>6, <1>7, <1>8, <1>9, <1>10 DEF Mild, TypeOK
-----------------------------------------------------------------------------
(* Types.                                                                   *)

LEMMA TargetType ==
  ASSUME TypeOK, Boxes
  PROVE  /\ Target \in Msgs \cup {0} /\ (acct = NoAccount => Target = 0)
         /\ acct # NoAccount => acct \in Accounts
         /\ 0 \notin Msgs
<1>1. 0 \notin Msgs
  BY DEF Msgs
<1> QED BY <1>1, AtIsListed DEF Target, TypeOK

(* What a connection may number after a command.                            *)
LEMMA ConnectedView ==
  ASSUME TypeOK, Boxes, (acct # NoAccount /\ Connected) \/ MayClose
  PROVE  /\ \A a \in Accounts : view'[a] \in {view[a], Closed, Numbering(a)}
         /\ view' \in [Accounts -> Seq(Msgs \cup {0})]
<1>1. view \in [Accounts -> Seq(Msgs \cup {0})]
  BY DEF TypeOK
<1>2. Closed \in Seq(Msgs \cup {0})
  BY DEF Closed
<1>3. \A a \in Accounts : Numbering(a) \in Seq(Msgs \cup {0})
  BY <1>1 DEF Numbering, TypeOK
<1>4. CASE acct # NoAccount /\ Connected
  BY <1>1, <1>3, <1>4 DEF Connected
<1>5. CASE MayClose
  BY <1>1, <1>2, <1>5 DEF MayClose
<1> QED BY <1>4, <1>5

LEMMA FaultType ==
  ASSUME TypeOK, NEW k \in Kinds, Fault(k) \/ UNCHANGED faultVars
  PROVE  faults' \subseteq Kinds /\ nfaults' \in 0 .. MaxFaults /\ faults \subseteq faults'
<1>1. MaxFaults \in Nat
  BY RxAssumption DEF RxAssumption
<1>2. CASE Fault(k)
  BY <1>1, <1>2 DEF Fault, TypeOK
<1>3. CASE UNCHANGED faultVars
  BY <1>3 DEF faultVars, TypeOK
<1> QED BY <1>2, <1>3

LEMMA SearchResult ==
  ASSUME TypeOK, Boxes, Search
  PROVE  /\ acct \in Accounts /\ list' \in Seq(Nat)
         /\ meant' \in Seq(Msgs) /\ Len(meant') = Len(list')
         /\ \A i \in 1 .. Len(list') :
              /\ list'[i] \in 1 .. Len(Numbering(acct))
              /\ meant'[i] = Numbering(acct)[list'[i]]
              /\ meant'[i] \in ToSet(box[acct]) /\ meant'[i] \notin seen
         /\ \A i, j \in 1 .. Len(list') : list'[i] = list'[j] => i = j
<1> DEFINE v == Numbering(acct)
           S == Without(seen)
<1>1. acct \in Accounts
  BY DEF Search, TypeOK
<1>2. v \in Seq(Msgs)
  BY <1>1, Numberings
<1>3. Len(v) \in Nat /\ DOMAIN v = 1 .. Len(v)
  BY <1>2
<1>4. S \in SUBSET (1 .. Len(v))
  BY <1>3 DEF Without
<1>5. list' \in Seq(S) /\ Ordered(list')
  BY <1>3, <1>4, AscendingFacts DEF Search
<1>6. \A n \in S : At(acct, n) \notin seen \cup {0}
  BY DEF Without
<1>7. \A n \in S : /\ n \in 1 .. Len(v) /\ At(acct, n) = v[n]
                   /\ At(acct, n) \in ToSet(box[acct])
  BY <1>1, <1>6, AtIsListed
<1>8. meant' = [i \in DOMAIN list' |-> At(acct, list'[i])]
  BY DEF Search
<1>9. DOMAIN list' = 1 .. Len(list') /\ \A i \in 1 .. Len(list') : list'[i] \in S
  BY <1>5
<1> HIDE DEF S, v
<1>10. \A n \in S : n \in Nat /\ At(acct, n) \in Msgs
  <2>1. \A n \in 1 .. Len(v) : n \in Nat /\ v[n] \in Msgs
    BY <1>2, <1>3
  <2> QED BY <1>7, <2>1
<1>11. Len(list') \in Nat /\ list' \in Seq(Nat)
  BY <1>5, <1>10
<1>12. meant' \in Seq(Msgs) /\ Len(meant') = Len(list')
       /\ \A i \in 1 .. Len(list') : meant'[i] = At(acct, list'[i])
  BY <1>8, <1>9, <1>10, <1>11
<1>13. \A i, j \in 1 .. Len(list') : list'[i] = list'[j] => i = j
  <2> SUFFICES ASSUME NEW i \in 1 .. Len(list'), NEW j \in 1 .. Len(list'),
                      list'[i] = list'[j], i < j
               PROVE  FALSE
    BY <1>11
  <2>1. list'[i] < list'[j] /\ list'[i] \in Nat
    BY <1>5, <1>9, <1>10 DEF Ordered
  <2> QED BY <2>1
<1> QED BY <1>1, <1>6, <1>7, <1>9, <1>11, <1>12, <1>13 DEF v

(* A sequence of things is one of more things too, and so is its rest.      *)
LEMMA MeantType ==
  ASSUME TypeOK, Listed, rx \in AtNum
  PROVE  /\ meant \in Seq(Msgs) /\ meant # <<>> /\ Len(meant) \in Nat \ {0}
         /\ Head(meant) = meant[1] /\ meant[1] \in Msgs
         /\ Tail(meant) \in Seq(Msgs) /\ Len(Tail(meant)) = Len(meant) - 1
         /\ \A i \in 1 .. Len(Tail(meant)) : Tail(meant)[i] = meant[i + 1]
<1>1. meant \in Seq(Msgs) /\ Len(list) \in Nat
  BY DEF TypeOK
<1>2. Len(meant) = Len(list) + 1
  BY DEF Listed, AtNum, InRx
<1> QED BY <1>1, <1>2

LEMMA TypeStep == ASSUME TypeOK, Boxes, Listed, Next PROVE TypeOK'
<1>1. CASE LoopHead \/ Poll \/ Stop \/ Terminated \/ ExpungeFails \/ Handle
  <2>1. UNCHANGED <<box, view, seen, deleted, arrived, num, list, smime, meant, flagged, astray, acct>>
    BY <1>1 DEF LoopHead, Poll, Stop, Terminated, ExpungeFails, Handle, serverVars,
       ghostVars, faultVars, vars, threadVars
  <2>2. rx' \in RxPC /\ stop' \in BOOLEAN
    <3>1. /\ rx' \in {rx, "expunge", "wait", "head", "search", "done", "seen"}
          /\ stop' \in {stop, TRUE}
      BY <1>1 DEF LoopHead, Poll, Stop, Terminated, ExpungeFails, Handle, vars, threadVars
    <3> QED BY <3>1 DEF TypeOK, RxPC
  <2>3. handled' \in Seq(Msgs)
    <3>1. \/ handled' = handled
          \/ smime # 0 /\ handled' = Append(handled, smime)
      BY <1>1 DEF LoopHead, Poll, Stop, Terminated, ExpungeFails, Handle, ghostVars, vars
    <3>2. handled \in Seq(Msgs) /\ (smime # 0 => smime \in Msgs)
      BY DEF TypeOK
    <3>3. smime \in Msgs => Append(handled, smime) \in Seq(Msgs)
      BY <3>2
    <3> QED BY <3>1, <3>2, <3>3
  <2>4. faults' \subseteq Kinds /\ nfaults' \in 0 .. MaxFaults
    <3>1. Fault("expunge") \/ UNCHANGED faultVars
      BY <1>1 DEF LoopHead, Poll, Stop, Terminated, ExpungeFails, Handle, faultVars, vars
    <3>2. "expunge" \in Kinds
      BY DEF Kinds
    <3> QED BY <3>1, <3>2, FaultType
  <2> QED BY <2>1, <2>2, <2>3, <2>4 DEF TypeOK
<1>2. CASE Search
  <2>1. view' \in [Accounts -> Seq(Msgs \cup {0})]
    BY <1>2, ConnectedView DEF Search
  <2>2. list' \in Seq(Nat) /\ meant' \in Seq(Msgs)
    BY <1>2, SearchResult
  <2>3. rx' \in RxPC
    BY <1>2 DEF Search, RxPC
  <2> QED BY <1>2, <2>1, <2>2, <2>3 DEF Search, TypeOK, faultVars
<1>3. CASE SearchFails
  <2>1. view' \in [Accounts -> Seq(Msgs \cup {0})]
    BY <1>3, ConnectedView DEF SearchFails
  <2>2. list' \in Seq(Nat) /\ meant' \in Seq(Msgs)
    <3>1. <<>> \in Seq(Nat) /\ <<>> \in Seq(Msgs)
      BY EmptySeq
    <3> QED BY <1>3, <3>1 DEF SearchFails
  <2>3. rx' \in RxPC
    BY <1>3 DEF SearchFails, RxPC
  <2>4. faults' \subseteq Kinds /\ nfaults' \in 0 .. MaxFaults
    <3>1. (Fault("search") \/ UNCHANGED faultVars) /\ "search" \in Kinds
      BY <1>3 DEF SearchFails, Kinds
    <3> QED BY <3>1, FaultType
  <2> QED BY <1>3, <2>1, <2>2, <2>3, <2>4 DEF SearchFails, TypeOK
<1>4. CASE NextNumber
  <2>1. list' \in Seq(Nat) /\ num' \in Nat
    <3>1. list \in Seq(Nat) /\ num \in Nat
      BY DEF TypeOK
    <3>2. list # <<>> => Tail(list) \in Seq(Nat) /\ Head(list) \in Nat
      BY <3>1
    <3>3. \/ list' = list /\ num' = num
          \/ list # <<>> /\ list' = Tail(list) /\ num' = Head(list)
      BY <1>4 DEF NextNumber
    <3> QED BY <3>1, <3>2, <3>3
  <2>2. rx' \in RxPC /\ smime' \in Msgs \cup {0}
    BY <1>4 DEF NextNumber, RxPC
  <2> QED BY <1>4, <2>1, <2>2 DEF NextNumber, TypeOK, serverVars, ghostVars, faultVars
<1>5. CASE Fetch \/ StoreSeen \/ StoreDeleted
  <2>1. view' \in [Accounts -> Seq(Msgs \cup {0})]
    <3>1. acct # NoAccount /\ Connected
      BY <1>5, TargetType DEF Fetch, StoreSeen, StoreDeleted
    <3> QED BY <3>1, ConnectedView
  <2>2. astray' \in BOOLEAN
    BY <1>5 DEF Fetch, StoreSeen, StoreDeleted, Reached
  <2>3. rx' \in RxPC /\ rx \in AtNum
    BY <1>5 DEF Fetch, StoreSeen, StoreDeleted, RxPC, AtNum
  <2>4. /\ smime' \in Msgs \cup {0} /\ seen' \subseteq Msgs
        /\ deleted' \subseteq Msgs /\ flagged' \subseteq Msgs
    BY <1>5, TargetType DEF Fetch, StoreSeen, StoreDeleted, Stored, TypeOK
  <2>5. meant' \in Seq(Msgs)
    BY <1>5, <2>3, MeantType DEF Fetch, StoreSeen, StoreDeleted
  <2>6. UNCHANGED <<acct, list, num, stop, arrived, box, handled, faults, nfaults>>
    BY <1>5 DEF Fetch, StoreSeen, StoreDeleted, faultVars
  <2> QED BY <2>1, <2>2, <2>3, <2>4, <2>5, <2>6 DEF TypeOK
<1>6. CASE (\E served \in BOOLEAN : FetchFails(served)) \/ StoreFails
  <2>1. view' \in [Accounts -> Seq(Msgs \cup {0})]
    BY <1>6, ConnectedView DEF FetchFails, StoreFails
  <2>2. astray' \in BOOLEAN
    BY <1>6 DEF FetchFails, StoreFails, Reached, TypeOK
  <2>3. rx' \in RxPC /\ rx \in AtNum
    BY <1>6 DEF FetchFails, StoreFails, RxPC, AtNum
  <2>4. seen' \subseteq Msgs
    BY <1>6, TargetType DEF FetchFails, StoreFails, TypeOK
  <2>5. meant' \in Seq(Msgs)
    BY <1>6, <2>3, MeantType DEF FetchFails, StoreFails
  <2>6. UNCHANGED <<acct, list, num, smime, stop, arrived, box, deleted, handled, flagged>>
    BY <1>6 DEF FetchFails, StoreFails
  <2>7. faults' \subseteq Kinds /\ nfaults' \in 0 .. MaxFaults
    <3>1. \E k \in {"fetch", "store"} : Fault(k) \/ UNCHANGED faultVars
      BY <1>6 DEF FetchFails, StoreFails
    <3>2. {"fetch", "store"} \subseteq Kinds
      BY DEF Kinds
    <3> QED BY <3>1, <3>2, FaultType
  <2> QED BY <2>1, <2>2, <2>3, <2>4, <2>5, <2>6, <2>7 DEF TypeOK
<1>7. CASE Expunge
  <2>1. PICK b \in Ascending(ToSet(box[acct]) \ deleted) :
          box' = [box EXCEPT ![acct] = b] /\ view' = [view EXCEPT ![acct] = b]
    BY <1>7 DEF Expunge
  <2>2. acct \in Accounts
    BY <1>7 DEF Expunge, TypeOK
  <2>3. ToSet(box[acct]) \ deleted \in SUBSET (1 .. NMsgs) /\ NMsgs \in Nat
    BY <2>2, MsgsAreFinite DEF TypeOK, ToSet, Msgs
  <2>4. b \in Seq(Msgs)
    <3>1. b \in Seq(ToSet(box[acct]) \ deleted)
      BY <2>3, AscendingFacts
    <3> QED BY <2>3, <3>1 DEF Msgs
  <2>5. b \in Seq(Msgs \cup {0})
    BY <2>4
  <2>6. box' \in [Accounts -> Seq(Msgs)] /\ view' \in [Accounts -> Seq(Msgs \cup {0})]
    BY <2>1, <2>4, <2>5 DEF TypeOK
  <2>7. rx' \in RxPC
    BY <1>7 DEF Expunge, RxPC
  <2> QED BY <1>7, <2>6, <2>7 DEF Expunge, TypeOK, ghostVars, faultVars
<1>8. CASE \E a \in Accounts \cup {NoAccount} : SetupNetwork(a)
  <2>1. PICK a \in Accounts \cup {NoAccount} : SetupNetwork(a)
    BY <1>8
  <2>2. faults' \subseteq Kinds /\ nfaults' \in 0 .. MaxFaults
    <3>1. (Fault("switch") \/ UNCHANGED faultVars) /\ "switch" \in Kinds
      BY <2>1 DEF SetupNetwork, Kinds
    <3> QED BY <3>1, FaultType
  <2> QED BY <2>1, <2>2 DEF SetupNetwork, TypeOK, threadVars, serverVars, ghostVars
<1>9. CASE \E a \in Accounts : Arrive(a)
  <2>1. PICK a \in Accounts : Arrive(a)
    BY <1>9
  <2>2. arrived' \in Msgs /\ arrived' \in 0 .. NMsgs
    BY <2>1, MsgsAreFinite DEF Arrive, TypeOK, Msgs
  <2>3. box' \in [Accounts -> Seq(Msgs)] /\ view' \in [Accounts -> Seq(Msgs \cup {0})]
    <3>1. Append(box[a], arrived') \in Seq(Msgs)
      BY <2>2 DEF TypeOK
    <3>2. Append(view[a], arrived') \in Seq(Msgs \cup {0})
      BY <2>2 DEF TypeOK
    <3> QED BY <2>1, <3>1, <3>2 DEF Arrive, TypeOK
  <2> QED BY <2>1, <2>2, <2>3 DEF Arrive, TypeOK, threadVars, ghostVars, faultVars
<1>10. CASE \E a \in Accounts : Drop(a)
  <2>1. PICK a \in Accounts : Drop(a)
    BY <1>10
  <2>2. faults' \subseteq Kinds /\ nfaults' \in 0 .. MaxFaults
    <3>1. Fault("drop") /\ "drop" \in Kinds
      BY <2>1 DEF Drop, Kinds
    <3> QED BY <3>1, FaultType
  <2>3. Closed \in Seq(Msgs \cup {0})
    BY DEF Closed
  <2> QED BY <2>1, <2>2, <2>3 DEF Drop, TypeOK, threadVars, ghostVars
<1>11. CASE \E a \in Accounts, m \in Msgs : OtherRemoves(a, m)
  <2>1. PICK a \in Accounts, m \in Msgs : OtherRemoves(a, m)
    BY <1>11
  <2>2. faults' \subseteq Kinds /\ nfaults' \in 0 .. MaxFaults
    <3>1. Fault("remove") /\ "remove" \in Kinds
      BY <2>1 DEF OtherRemoves, Kinds
    <3> QED BY <3>1, FaultType
  <2>3. box' \in [Accounts -> Seq(Msgs)]
    BY <2>1, MildRemoval DEF Mild
  <2> QED BY <2>1, <2>2, <2>3 DEF OtherRemoves, TypeOK, threadVars, ghostVars
<1>12. CASE \E m \in Msgs : OtherReads(m)
  <2>1. PICK m \in Msgs : OtherReads(m)
    BY <1>12
  <2>2. faults' \subseteq Kinds /\ nfaults' \in 0 .. MaxFaults
    <3>1. Fault("read") /\ "read" \in Kinds
      BY <2>1 DEF OtherReads, Kinds
    <3> QED BY <3>1, FaultType
  <2> QED BY <2>1, <2>2 DEF OtherReads, TypeOK, threadVars, ghostVars
<1> QED BY <1>1, <1>2, <1>3, <1>4, <1>5, <1>6, <1>7, <1>8, <1>9, <1>10, <1>11, <1>12
        DEF Next, RxNext, EnvNext
-----------------------------------------------------------------------------
(* Which steps are mild, and what the others do to the inboxes.             *)

LEMMA MildSteps ==
  ASSUME TypeOK, Boxes, Listed, Next, ~Expunge
  PROVE  Mild
<1>1. TypeOK'
  BY TypeStep
<1>2. CASE \/ LoopHead \/ Poll \/ Stop \/ Terminated \/ ExpungeFails \/ Handle
           \/ NextNumber \/ (\E a \in Accounts \cup {NoAccount} : SetupNetwork(a))
           \/ \E m \in Msgs : OtherReads(m)
  <2>1. UNCHANGED <<arrived, box, view>> /\ faults \subseteq faults'
    BY <1>2 DEF LoopHead, Poll, Stop, Terminated, ExpungeFails, Handle, NextNumber,
       SetupNetwork, OtherReads, Fault, serverVars, faultVars, vars
  <2> QED BY <1>1, <2>1, MildConnection DEF TypeOK
<1>3. CASE \/ Search \/ SearchFails \/ Fetch \/ StoreSeen \/ StoreDeleted \/ StoreFails
           \/ \E served \in BOOLEAN : FetchFails(served)
  <2>1. (acct # NoAccount /\ Connected) \/ MayClose
    BY <1>3, TargetType DEF Search, SearchFails, Fetch, StoreSeen, StoreDeleted,
       StoreFails, FetchFails
  <2>2. UNCHANGED <<arrived, box>> /\ faults \subseteq faults'
    BY <1>3 DEF Search, SearchFails, Fetch, StoreSeen, StoreDeleted,
       StoreFails, FetchFails, Fault, faultVars
  <2> QED BY <1>1, <2>1, <2>2, ConnectedView, MildConnection
<1>4. CASE \E a \in Accounts : Drop(a)
  <2>1. /\ UNCHANGED <<arrived, box>> /\ faults \subseteq faults'
        /\ \A a \in Accounts : view'[a] \in {view[a], Closed, Numbering(a)}
        /\ view' \in [Accounts -> Seq(Msgs \cup {0})]
    BY <1>1, <1>4 DEF Drop, Fault, TypeOK
  <2> QED BY <1>1, <2>1, MildConnection
<1>5. CASE \E a \in Accounts : Arrive(a)
  BY <1>1, <1>5, MildArrival
<1>6. CASE \E a \in Accounts, m \in Msgs : OtherRemoves(a, m)
  BY <1>6, MildRemoval
<1> QED BY <1>2, <1>3, <1>4, <1>5, <1>6 DEF Next, RxNext, EnvNext

LEMMA ExpungeStep ==
  ASSUME TypeOK, Boxes, Expunge
  PROVE  Boxes' /\ view'[acct] = box'[acct] /\ acct \in Accounts
         /\ \A a \in Accounts \ {acct} : view'[a] = view[a] /\ box'[a] = box[a]
<1>1. PICK b \in Ascending(ToSet(box[acct]) \ deleted) :
        box' = [box EXCEPT ![acct] = b] /\ view' = [view EXCEPT ![acct] = b]
  BY DEF Expunge
<1>2. acct \in Accounts /\ arrived' = arrived
  BY DEF Expunge, TypeOK
<1>3. /\ ToSet(box[acct]) \ deleted \in SUBSET (1 .. NMsgs) /\ NMsgs \in Nat
      /\ \A k \in ToSet(box[acct]) : k <= arrived
  BY <1>2, MsgsAreFinite DEF TypeOK, ToSet, Msgs, Boxes
<1>4. b \in Seq(ToSet(box[acct]) \ deleted) /\ Ordered(b)
  BY <1>3, AscendingFacts
<1>5. b \in Seq(Msgs) /\ \A i \in 1 .. Len(b) : b[i] <= arrived
  <2>1. \A i \in 1 .. Len(b) : b[i] \in ToSet(box[acct])
    BY <1>4
  <2>2. b \in Seq(1 .. NMsgs)
    BY <1>3, <1>4
  <2> QED BY <1>3, <2>1, <2>2 DEF Msgs
<1>6. /\ box'[acct] = b /\ view'[acct] = b
      /\ \A a \in Accounts \ {acct} : view'[a] = view[a] /\ box'[a] = box[a]
  BY <1>1, <1>2 DEF TypeOK
<1>7. ASSUME NEW a \in Accounts
      PROVE  /\ Ordered(box'[a])
             /\ \A i \in 1 .. Len(box'[a]) : box'[a][i] <= arrived'
             /\ view'[a] # Closed =>
                  /\ view'[a] \in Seq(Msgs) /\ Ordered(view'[a])
                  /\ \A i \in 1 .. Len(view'[a]) : view'[a][i] <= arrived'
                  /\ ToSet(box'[a]) \subseteq ToSet(view'[a])
  <2>1. CASE a = acct
    BY <1>2, <1>4, <1>5, <1>6, <2>1
  <2>2. CASE a # acct
    BY <1>2, <1>6, <1>7, <2>2 DEF Boxes
  <2> QED BY <2>1, <2>2
<1>8. Boxes'
  BY <1>7 DEF Boxes, Ordered
<1> QED BY <1>2, <1>6, <1>8
-----------------------------------------------------------------------------
(* The list and what it means.                                              *)

(* Steps of the user and of others leave the thread and its list alone.     *)
Others ==
  \/ Stop \/ Terminated
  \/ (\E a \in Accounts \cup {NoAccount} : SetupNetwork(a))
  \/ (\E a \in Accounts : Arrive(a) \/ Drop(a))
  \/ (\E a \in Accounts, m \in Msgs : OtherRemoves(a, m))
  \/ \E m \in Msgs : OtherReads(m)

(* The thread is out of Rx after these.                                     *)
Outside == LoopHead \/ Poll \/ Expunge \/ ExpungeFails \/ (NextNumber /\ list = <<>>)

(* It goes on with the number at hand after these, and with the next after  *)
(* those.                                                                   *)
GoesOn == \/ Fetch \/ (\E served \in BOOLEAN : FetchFails(served)) \/ Handle
          \/ StoreSeen \/ (StoreFails /\ rx = "seen")
Ends   == StoreDeleted \/ (StoreFails /\ rx = "delete")

LEMMA KindsOfSteps ==
  ASSUME Next
  PROVE  \/ Others \/ Outside \/ Search \/ SearchFails
         \/ (NextNumber /\ list # <<>>) \/ GoesOn \/ Ends
<1>1. StoreFails => rx = "seen" \/ rx = "delete"
  BY DEF StoreFails
<1> QED BY <1>1 DEF Next, RxNext, EnvNext, Others, Outside, GoesOn, Ends

LEMMA OthersLeave ==
  ASSUME Others
  PROVE  /\ UNCHANGED <<rx, list, num, smime, meant, handled, flagged, astray>>
         /\ seen \subseteq seen' /\ faults \subseteq faults'
         /\ acct' = acct \/ rx \notin InRx \/ "switch" \in faults'
BY DEF Others, Stop, Terminated, SetupNetwork, Arrive, Drop, OtherRemoves, OtherReads,
   Fault, threadVars, serverVars, ghostVars, faultVars, vars

LEMMA OutsideLeaves ==
  ASSUME Outside
  PROVE  /\ UNCHANGED <<handled, flagged, astray, acct>> /\ rx' \notin InRx
         /\ seen' = seen /\ faults \subseteq faults'
<1>1. rx' \in {"expunge", "wait", "head", "search", "done"}
  BY DEF Outside, LoopHead, Poll, Expunge, ExpungeFails, NextNumber
<1>2. /\ UNCHANGED <<handled, flagged, astray, acct>>
      /\ seen' = seen /\ faults \subseteq faults'
  BY DEF Outside, LoopHead, Poll, Expunge, ExpungeFails, NextNumber, Fault,
     serverVars, ghostVars, faultVars
<1> QED BY <1>1, <1>2 DEF InRx

LEMMA GoesOnLeaves ==
  ASSUME GoesOn
  PROVE  /\ UNCHANGED <<acct, list, num, meant, flagged, arrived>>
         /\ rx \in AtNum /\ rx' \in AtNum /\ rx \in InRx /\ rx' \in InRx
         /\ rx' # "fetch" /\ faults \subseteq faults' /\ seen \subseteq seen'
         /\ astray' = astray \/ Reached(Target)
<1>1. rx \in {"fetch", "handle", "seen"} /\ rx' \in {"handle", "seen", "delete"}
  BY DEF GoesOn, Fetch, FetchFails, Handle, StoreSeen, StoreFails
<1>2. /\ UNCHANGED <<acct, list, num, meant, flagged, arrived>>
      /\ faults \subseteq faults' /\ seen \subseteq seen'
      /\ astray' = astray \/ Reached(Target)
  BY DEF GoesOn, Fetch, FetchFails, Handle, StoreSeen, StoreFails, Fault,
     serverVars, faultVars
<1> QED BY <1>1, <1>2 DEF AtNum, InRx

LEMMA EndsLeaves ==
  ASSUME Ends
  PROVE  /\ UNCHANGED <<acct, list, num, handled, seen, arrived>> /\ meant' = Tail(meant)
         /\ rx = "delete" /\ rx' = "next" /\ faults \subseteq faults'
         /\ astray' = astray \/ Reached(Target)
BY DEF Ends, StoreDeleted, StoreFails, Fault, faultVars

LEMMA ListedStep == ASSUME TypeOK, Boxes, Listed, Next PROVE Listed'
<1>1. CASE Others
  <2>1. arrived \in Nat /\ arrived' \in Nat /\ arrived <= arrived'
    <3>1. ~Expunge
      BY <1>1 DEF Expunge, Others, Stop, Terminated, SetupNetwork, Arrive, Drop,
         OtherRemoves, OtherReads, threadVars, vars
    <3> QED BY <3>1, MildSteps, MsgsAreFinite DEF Mild, TypeOK
  <2>2. \A i \in 1 .. Len(meant) : meant[i] \in Nat
    <3>1. \A i \in 1 .. Len(meant) : meant[i] \in Msgs
      BY DEF TypeOK
    <3> QED BY <3>1, MsgsAreFinite DEF Msgs
  <2>3. \A i \in 1 .. Len(meant) : meant[i] <= arrived => meant[i] <= arrived'
    BY <2>1, <2>2
  <2> QED BY <1>1, <2>3, OthersLeave DEF Listed
<1>2. CASE Outside
  <2>1. rx' # "fetch"
    BY <1>2, OutsideLeaves DEF InRx
  <2> QED BY <1>2, <2>1, OutsideLeaves DEF Listed
<1>3. CASE Search
  <2>1. rx' = "next" /\ UNCHANGED <<acct, arrived>> /\ acct # NoAccount
    BY <1>3 DEF Search
  <2>2. /\ Len(meant') = Len(list') /\ acct \in Accounts /\ Len(list') \in Nat
        /\ \A i \in 1 .. Len(list') :
             /\ list'[i] \in 1 .. Len(Numbering(acct))
             /\ meant'[i] = Numbering(acct)[list'[i]]
        /\ \A i, j \in 1 .. Len(list') : list'[i] = list'[j] => i = j
    BY <1>3, SearchResult
  <2>3. /\ Ordered(Numbering(acct)) /\ Numbering(acct) \in Seq(Msgs)
        /\ \A i \in 1 .. Len(Numbering(acct)) : Numbering(acct)[i] <= arrived
    BY <2>2, Numberings
  <2>4. ASSUME NEW i \in 1 .. Len(meant'), NEW j \in 1 .. Len(meant'), meant'[i] = meant'[j]
        PROVE  i = j
    <3> DEFINE v == Numbering(acct)
               k == list'[i]
               l == list'[j]
    <3>1. k \in 1 .. Len(v) /\ l \in 1 .. Len(v) /\ v[k] = v[l]
      BY <2>2, <2>4
    <3>2. v[k] \in Nat
      <4>1. v[k] \in Msgs
        BY <2>3, <3>1
      <4> QED BY <4>1, MsgsAreFinite DEF Msgs
    <3>3. ~(k < l) /\ ~(l < k)
      BY <2>3, <3>1, <3>2 DEF Ordered
    <3>4. k = l
      BY <3>1, <3>3
    <3> QED BY <2>2, <3>4
  <2>5. \A i \in 1 .. Len(meant') : meant'[i] <= arrived'
    BY <2>1, <2>2, <2>3
  <2>6. rx' \notin AtNum /\ Len(meant') = Len(list') + 0
    BY <2>1, <2>2 DEF AtNum
  <2> QED BY <2>1, <2>4, <2>5, <2>6 DEF Listed
<1>4. CASE SearchFails
  <2>1. rx' = "next" /\ list' = <<>> /\ meant' = <<>>
    BY <1>4 DEF SearchFails
  <2> QED BY <2>1 DEF Listed, AtNum
<1>5. CASE NextNumber /\ list # <<>>
  <2>1. /\ rx = "next" /\ rx' = "fetch" /\ list' = Tail(list) /\ smime' = 0
        /\ UNCHANGED <<acct, meant, arrived, faults>>
    BY <1>5 DEF NextNumber, serverVars, ghostVars, faultVars
  <2>2. Len(list) \in Nat \ {0} /\ Len(list') = Len(list) - 1
    BY <1>5, <2>1 DEF TypeOK
  <2>3. Len(meant) = Len(list) + 0
    BY <2>1 DEF Listed, InRx, AtNum
  <2>4. Len(meant') = Len(list') + 1
    BY <2>1, <2>2, <2>3
  <2> QED BY <2>1, <2>4 DEF Listed, InRx, AtNum
<1>6. CASE GoesOn
  BY <1>6, GoesOnLeaves DEF Listed
<1>7. CASE Ends
  <2>1. /\ UNCHANGED <<acct, list, arrived>> /\ meant' = Tail(meant)
        /\ rx = "delete" /\ rx' = "next" /\ faults \subseteq faults'
    BY <1>7, EndsLeaves
  <2>2. Len(meant') = Len(meant) - 1 /\ meant # <<>> /\ Len(meant) \in Nat \ {0}
        /\ \A i \in 1 .. Len(meant') : meant'[i] = meant[i + 1]
    BY <2>1, MeantType DEF AtNum
  <2>3. Len(meant) = Len(list) + 1 /\ Len(list) \in Nat
    BY <2>1 DEF Listed, InRx, AtNum, TypeOK
  <2>4. \A i \in 1 .. Len(meant') : i + 1 \in 1 .. Len(meant) /\ i \in Nat
    BY <2>2
  <2>5. \A i, j \in 1 .. Len(meant') : meant'[i] = meant'[j] => i = j
    <3> SUFFICES ASSUME NEW i \in 1 .. Len(meant'), NEW j \in 1 .. Len(meant'),
                        meant'[i] = meant'[j]
                 PROVE  i = j
      OBVIOUS
    <3>1. meant[i + 1] = meant[j + 1]
      BY <2>2
    <3>2. i + 1 = j + 1
      BY <2>1, <2>4, <3>1 DEF Listed, InRx
    <3> QED BY <2>4, <3>2
  <2>6. \A i \in 1 .. Len(meant') : meant'[i] <= arrived'
    BY <2>1, <2>2, <2>4 DEF Listed, InRx
  <2>7. Len(meant') = Len(list') + 0 /\ (acct # NoAccount \/ "switch" \in faults)
    BY <2>1, <2>2, <2>3 DEF Listed, InRx
  <2> QED BY <2>1, <2>5, <2>6, <2>7 DEF Listed, AtNum
<1> QED BY <1>1, <1>2, <1>3, <1>4, <1>5, <1>6, <1>7, KindsOfSteps
-----------------------------------------------------------------------------
(* NumbersHold.                                                             *)

(* While numbers are faithful, a command reaches the message that is meant. *)
LEMMA TargetIsMeant ==
  ASSUME TypeOK, Boxes, Listed, Faithful, rx \in AtNum,
         faults \cap {"switch", "remove"} = {}
  PROVE  Target = meant[1] /\ Head(meant) = meant[1] /\ acct \in Accounts
<1>1. meant # <<>> /\ 1 \in 1 .. Len(meant) /\ Head(meant) = meant[1]
  BY MeantType
<1>2. acct \in Accounts
  BY <1>1 DEF Listed, InRx, AtNum, TypeOK
<1>3. num \in 1 .. Len(box[acct]) /\ box[acct][num] = meant[1]
  BY <1>1 DEF Faithful, NumberOf, InRx, AtNum
<1>4. Numbering(acct) = box[acct]
  BY <1>2 DEF Faithful, Numbering
<1>5. box[acct][num] \in ToSet(box[acct])
  BY <1>2, <1>3 DEF TypeOK, ToSet
<1>6. At(acct, num) = meant[1]
  BY <1>2, <1>3, <1>4, <1>5, AtIsListed
<1>7. acct # NoAccount
  BY <1>2, RxAssumption DEF RxAssumption
<1> QED BY <1>1, <1>2, <1>6, <1>7 DEF Target

LEMMA FaithfulStep ==
  ASSUME TypeOK, Boxes, Listed, Listed', Faithful, Next
  PROVE  Faithful'
<1> SUFFICES ASSUME faults' \cap {"switch", "remove"} = {}
             PROVE  /\ ~astray'
                    /\ \A a \in Accounts : view'[a] \in {Closed, box'[a]}
                    /\ rx' \in InRx => \A i \in 1 .. Len(meant') :
                         /\ NumberOf(i)' \in 1 .. Len(box'[acct'])
                         /\ box'[acct'][NumberOf(i)'] = meant'[i]
  BY DEF Faithful
<1>1. faults \subseteq faults'
  BY KindsOfSteps, OthersLeave, OutsideLeaves, GoesOnLeaves, EndsLeaves
     DEF Search, SearchFails, NextNumber, Fault, faultVars
<1>2. faults \cap {"switch", "remove"} = {}
  BY <1>1
<1>3. /\ ~astray /\ \A a \in Accounts : view[a] \in {Closed, box[a]}
      /\ rx \in InRx => \A i \in 1 .. Len(meant) :
           /\ NumberOf(i) \in 1 .. Len(box[acct])
           /\ box[acct][NumberOf(i)] = meant[i]
  BY <1>2 DEF Faithful
<1>4. \A a \in Accounts : view'[a] \in {Closed, box'[a]}
  <2>1. CASE Expunge
    BY <1>3, <2>1, ExpungeStep
  <2>2. CASE ~Expunge
    BY <1>3, <2>2, MildSteps DEF Mild
  <2> QED BY <2>1, <2>2
<1>5. rx' \in InRx => ~Expunge
  BY DEF Expunge, InRx
<1>6. ASSUME rx' \in InRx
      PROVE  \A a \in Accounts :
               /\ Len(box[a]) \in Nat /\ Len(box'[a]) \in Nat
               /\ Len(box[a]) <= Len(box'[a])
               /\ \A n \in 1 .. Len(box[a]) : box'[a][n] = box[a][n]
  <2>1. Mild
    BY <1>5, <1>6, MildSteps
  <2> QED BY <1>3, <2>1 DEF Mild, TypeOK
<1>7. meant # <<>> /\ rx \in InRx => acct \in Accounts
  BY <1>2 DEF Listed, TypeOK
<1>8. rx \in AtNum => Target = meant[1] /\ Head(meant) = meant[1]
  BY <1>2, TargetIsMeant
<1>9. CASE Others
  <2>1. ~astray' /\ rx' = rx /\ meant' = meant /\ (rx \in InRx => acct' = acct)
        /\ \A i : NumberOf(i)' = NumberOf(i)
    BY <1>3, <1>9, OthersLeave DEF NumberOf
  <2>2. ASSUME rx' \in InRx, NEW i \in 1 .. Len(meant')
        PROVE  /\ NumberOf(i) \in 1 .. Len(box'[acct'])
               /\ box'[acct'][NumberOf(i)] = meant'[i]
    <3>1. meant # <<>> /\ acct' = acct /\ rx \in InRx /\ i \in 1 .. Len(meant)
      BY <2>1, <2>2
    <3>2. acct \in Accounts
      BY <1>7, <3>1
    <3>3. /\ Len(box[acct]) \in Nat /\ Len(box'[acct]) \in Nat
          /\ Len(box[acct]) <= Len(box'[acct])
          /\ \A n \in 1 .. Len(box[acct]) : box'[acct][n] = box[acct][n]
      BY <1>6, <2>2, <3>2
    <3>4. /\ NumberOf(i) \in 1 .. Len(box[acct])
          /\ box[acct][NumberOf(i)] = meant[i]
      BY <1>3, <3>1
    <3> QED BY <2>1, <3>1, <3>3, <3>4
  <2> QED BY <1>4, <2>1, <2>2
<1>10. CASE Outside
  BY <1>3, <1>4, <1>10, OutsideLeaves
<1>11. CASE Search
  <2>1. ~astray' /\ rx' = "next" /\ acct' = acct /\ box' = box
    BY <1>3, <1>11 DEF Search
  <2>2. acct \in Accounts
    BY <1>11, SearchResult
  <2>3. Numbering(acct) = box[acct]
    BY <1>3, <2>2 DEF Numbering
  <2>4. \A i \in 1 .. Len(meant') : NumberOf(i)' = list'[i]
    BY <2>1 DEF NumberOf, AtNum
  <2>5. \A i \in 1 .. Len(meant') : /\ list'[i] \in 1 .. Len(box[acct])
                                   /\ box[acct][list'[i]] = meant'[i]
    BY <1>11, <2>3, SearchResult
  <2> QED BY <1>4, <2>1, <2>4, <2>5
<1>12. CASE SearchFails
  <2>1. ~astray' /\ meant' = <<>>
    BY <1>3, <1>12 DEF SearchFails
  <2> QED BY <1>4, <2>1
<1>13. CASE NextNumber /\ list # <<>>
  <2>1. /\ rx = "next" /\ rx' = "fetch" /\ list' = Tail(list) /\ num' = Head(list)
        /\ UNCHANGED <<acct, meant, astray, box>>
    BY <1>13 DEF NextNumber, serverVars, ghostVars, faultVars
  <2>2. Len(meant) = Len(list) + 0 /\ list \in Seq(Nat) /\ Len(list) \in Nat
    BY <2>1 DEF Listed, InRx, AtNum, TypeOK
  <2>3. ASSUME NEW i \in 1 .. Len(meant) PROVE NumberOf(i)' = NumberOf(i)
    <3>1. NumberOf(i)' = IF i = 1 THEN Head(list) ELSE Tail(list)[i - 1]
      BY <2>1 DEF NumberOf, AtNum
    <3>2. NumberOf(i) = list[i]
      BY <2>1 DEF NumberOf, AtNum
    <3>3. i # 1 => Tail(list)[i - 1] = list[i]
      BY <2>2, <2>3
    <3>4. Head(list) = list[1]
      BY <2>2
    <3> QED BY <3>1, <3>2, <3>3, <3>4
  <2> QED BY <1>3, <1>4, <2>1, <2>3 DEF InRx
<1>14. CASE GoesOn
  <2>1. /\ UNCHANGED <<acct, list, num, meant>> /\ rx \in AtNum /\ rx' \in AtNum
        /\ rx \in InRx /\ (astray' = astray \/ Reached(Target))
    BY <1>14, GoesOnLeaves
  <2>2. ~astray'
    BY <1>3, <1>8, <2>1 DEF Reached
  <2>3. \A i : NumberOf(i)' = NumberOf(i)
    BY <2>1 DEF NumberOf
  <2>4. box' = box
    BY <1>14 DEF GoesOn, Fetch, FetchFails, Handle, StoreSeen, StoreFails, serverVars
  <2> QED BY <1>3, <1>4, <2>1, <2>2, <2>3, <2>4
<1>15. CASE Ends
  <2>1. /\ UNCHANGED <<acct, list, num>> /\ meant' = Tail(meant)
        /\ rx = "delete" /\ rx' = "next" /\ (astray' = astray \/ Reached(Target))
    BY <1>15, EndsLeaves
  <2>2. ~astray'
    BY <1>3, <1>8, <2>1 DEF Reached, AtNum
  <2>3. box' = box
    BY <1>15 DEF Ends, StoreDeleted, StoreFails
  <2>4. /\ Len(meant') = Len(meant) - 1 /\ Len(meant) \in Nat \ {0}
        /\ \A i \in 1 .. Len(meant') : meant'[i] = meant[i + 1]
    BY <2>1, MeantType DEF AtNum
  <2>5. ASSUME NEW i \in 1 .. Len(meant')
        PROVE  /\ NumberOf(i)' \in 1 .. Len(box[acct])
               /\ box[acct][NumberOf(i)'] = meant'[i]
    <3>1. i + 1 \in 1 .. Len(meant) /\ i + 1 # 1 /\ i + 1 - 1 = i
      BY <2>4
    <3>2. NumberOf(i + 1) = list[i] /\ NumberOf(i)' = list[i]
      BY <2>1, <3>1 DEF NumberOf, AtNum
    <3> QED BY <1>3, <2>1, <2>4, <3>1, <3>2 DEF InRx
  <2> QED BY <1>4, <2>1, <2>2, <2>3, <2>5
<1> QED BY <1>9, <1>10, <1>11, <1>12, <1>13, <1>14, <1>15, KindsOfSteps
-----------------------------------------------------------------------------
(* HandledOnce.                                                             *)

LEMMA OnceStep ==
  ASSUME TypeOK, TypeOK', Boxes, Listed, Once, Next
  PROVE  Once'
<1> DEFINE Apart   == \A i, j \in 1 .. Len(handled) : handled[i] = handled[j] => i = j
           AllSeen == \A i \in 1 .. Len(handled) : handled[i] \in seen
           NotYet  == \A i \in 1 .. Len(handled) : \A k \in ToCome :
                        handled[i] # meant[k]
           Fetched == rx = "handle" /\ smime # 0 => smime = meant[1] /\ smime \in seen
<1>1. /\ Once = (astray \/ (Apart /\ AllSeen /\ (rx \in InRx => NotYet) /\ Fetched))
      /\ Once' = (astray' \/ (Apart' /\ AllSeen' /\ (rx' \in InRx => NotYet') /\ Fetched'))
  BY DEF Once
<1> SUFFICES ASSUME ~astray'
             PROVE  Apart' /\ AllSeen' /\ (rx' \in InRx => NotYet') /\ Fetched'
  BY <1>1
<1>2. ~astray
  BY KindsOfSteps, OthersLeave, OutsideLeaves, GoesOnLeaves, EndsLeaves
     DEF Search, SearchFails, NextNumber, Reached, ghostVars
<1>3. Apart /\ AllSeen /\ (rx \in InRx => NotYet) /\ Fetched
  BY <1>1, <1>2
<1>4. CASE Others
  <2>1. /\ UNCHANGED <<rx, smime, meant, handled>> /\ seen \subseteq seen'
    BY <1>4, OthersLeave
  <2>2. ToCome' = ToCome
    BY <2>1 DEF ToCome
  <2> QED BY <1>3, <2>1, <2>2
<1>5. CASE Outside
  <2>1. handled' = handled /\ seen' = seen /\ rx' \notin InRx /\ rx' # "handle"
    BY <1>5, OutsideLeaves DEF InRx
  <2> QED BY <1>3, <2>1
<1>6. CASE Search
  <2>1. handled' = handled /\ seen' = seen /\ rx' = "next"
    BY <1>6 DEF Search
  <2>2. ToCome' = 1 .. Len(meant')
    BY <2>1 DEF ToCome
  <2>3. \A k \in 1 .. Len(meant') : meant'[k] \notin seen
    BY <1>6, SearchResult
  <2> QED BY <1>3, <2>1, <2>2, <2>3
<1>7. CASE SearchFails
  <2>1. handled' = handled /\ seen' = seen /\ rx' = "next" /\ meant' = <<>>
    BY <1>7 DEF SearchFails
  <2>2. ToCome' = {}
    BY <2>1 DEF ToCome
  <2> QED BY <1>3, <2>1, <2>2
<1>8. CASE NextNumber /\ list # <<>>
  <2>1. /\ handled' = handled /\ seen' = seen /\ meant' = meant
        /\ rx = "next" /\ rx' = "fetch"
    BY <1>8 DEF NextNumber, serverVars, ghostVars
  <2>2. ToCome' = ToCome
    BY <2>1 DEF ToCome
  <2> QED BY <1>3, <2>1, <2>2 DEF InRx
<1>9. CASE Fetch
  <2>1. /\ rx = "fetch" /\ rx' = "handle" /\ smime' = Target /\ Target # 0
        /\ seen' = seen \cup {Target} /\ UNCHANGED <<handled, meant>>
    BY <1>9 DEF Fetch
  <2>2. Target = meant[1]
    BY <1>9, <2>1, MeantType DEF Fetch, Reached, AtNum
  <2>3. ToCome' = ToCome
    BY <2>1 DEF ToCome
  <2> QED BY <1>3, <2>1, <2>2, <2>3 DEF InRx
<1>10. CASE \E served \in BOOLEAN : FetchFails(served)
  <2>1. /\ rx = "fetch" /\ rx' = "handle" /\ smime' = smime
        /\ seen \subseteq seen' /\ UNCHANGED <<handled, meant>>
    BY <1>10 DEF FetchFails
  <2>2. ToCome' = ToCome
    BY <2>1 DEF ToCome
  <2>3. smime' = 0
    BY <2>1 DEF Listed
  <2> QED BY <1>3, <2>1, <2>2, <2>3 DEF InRx
<1>11. CASE Handle
  <2>1. /\ rx = "handle" /\ rx' = "seen" /\ UNCHANGED <<seen, meant>>
        /\ handled' = IF smime = 0 THEN handled ELSE Append(handled, smime)
    BY <1>11 DEF Handle, serverVars
  <2>2. handled \in Seq(Msgs) /\ meant \in Seq(Msgs)
    BY DEF TypeOK
  <2>3. ToCome = 1 .. Len(meant) /\ ToCome' = 2 .. Len(meant)
    BY <2>1 DEF ToCome
  <2>4. \A k \in 2 .. Len(meant) : k \in 1 .. Len(meant) /\ k # 1
    BY <2>2
  <2>5. 1 \in 1 .. Len(meant) /\ Len(handled) \in Nat
    BY <2>1, <2>2, MeantType DEF AtNum
  <2>6. CASE smime = 0
    BY <1>3, <2>1, <2>3, <2>4, <2>6 DEF InRx
  <2>7. CASE smime # 0
    <3>1. smime = meant[1] /\ smime \in seen
      BY <1>3, <2>1, <2>7
    <3>2. /\ Len(handled') = Len(handled) + 1 /\ handled'[Len(handled) + 1] = smime
          /\ \A i \in 1 .. Len(handled) : handled'[i] = handled[i]
      BY <2>1, <2>2, <2>7
    <3>3. \A i \in 1 .. Len(handled) : \A k \in 1 .. Len(meant) : handled[i] # meant[k]
      BY <1>3, <2>1, <2>3 DEF InRx
    <3>4. \A i \in 1 .. Len(handled') : i \in 1 .. Len(handled) \/ i = Len(handled) + 1
      BY <2>5, <3>2
    <3>5. Apart'
      BY <1>3, <2>5, <3>1, <3>2, <3>3, <3>4
    <3>6. AllSeen'
      BY <1>3, <2>1, <3>1, <3>2, <3>4
    <3>7. \A k \in 2 .. Len(meant) : meant[k] # meant[1]
      BY <2>1, <2>4, <2>5 DEF Listed, InRx
    <3>8. NotYet'
      BY <2>1, <2>3, <2>4, <3>1, <3>2, <3>3, <3>4, <3>7
    <3> QED BY <2>1, <3>5, <3>6, <3>8
  <2> QED BY <2>6, <2>7
<1>12. CASE StoreSeen \/ (StoreFails /\ rx = "seen")
  <2>1. /\ rx = "seen" /\ rx' = "delete" /\ seen \subseteq seen'
        /\ UNCHANGED <<handled, meant>>
    BY <1>12 DEF StoreSeen, StoreFails
  <2>2. ToCome' = ToCome
    BY <2>1 DEF ToCome
  <2> QED BY <1>3, <2>1, <2>2 DEF InRx
<1>13. CASE Ends
  <2>1. /\ UNCHANGED <<handled, seen>> /\ meant' = Tail(meant)
        /\ rx = "delete" /\ rx' = "next"
    BY <1>13, EndsLeaves
  <2>2. /\ Len(meant') = Len(meant) - 1 /\ Len(meant) \in Nat \ {0}
        /\ \A i \in 1 .. Len(meant') : meant'[i] = meant[i + 1]
    BY <2>1, MeantType DEF AtNum
  <2>3. ToCome = 2 .. Len(meant) /\ ToCome' = 1 .. Len(meant')
    BY <2>1 DEF ToCome
  <2>4. \A k \in ToCome' : k + 1 \in ToCome /\ meant'[k] = meant[k + 1]
    BY <2>2, <2>3
  <2>5. NotYet'
    <3> SUFFICES ASSUME NEW i \in 1 .. Len(handled), NEW k \in ToCome'
                 PROVE  handled[i] # meant'[k]
      BY <2>1
    <3>1. handled[i] # meant[k + 1]
      BY <1>3, <2>1, <2>4 DEF InRx
    <3> QED BY <2>4, <3>1
  <2> QED BY <1>3, <2>1, <2>5
<1> QED BY <1>4, <1>5, <1>6, <1>7, <1>8, <1>9, <1>10, <1>11, <1>12, <1>13, KindsOfSteps
        DEF GoesOn
-----------------------------------------------------------------------------
(* DeletedWasHandled.                                                       *)

(* A message in the inbox that has a number in force has its rank.          *)
LEMMA NumberIsRank ==
  ASSUME TypeOK, Boxes, NEW a \in Accounts, NEW n \in 1 .. Len(Numbering(a))
  PROVE  Rank(a, Numbering(a)[n]) = n
<1> DEFINE v == Numbering(a)
<1>1. v \in Seq(Msgs) /\ Ordered(v)
  BY Numberings
<1>2. Rank(a, v[n]) = Cardinality({k \in ToSet(v) : k <= v[n]})
  BY DEF Rank, RankIn, Numbering
<1> HIDE DEF v
<1> QED BY <1>1, <1>2, PlaceIsRank DEF v

(* Where a command leads: to the message that is meant, astray, or to       *)
(* nothing, the message then being gone for good.                           *)
LEMMA TargetOrGone ==
  ASSUME TypeOK, Boxes, Listed, rx \in AtNum, acct \in Accounts,
         Rank(acct, meant[1]) <= num
  PROVE  /\ Target = meant[1] => ~Gone(meant[1])
         /\ Target # meant[1] => Gone(meant[1])
<1>1. acct # NoAccount
  BY RxAssumption DEF RxAssumption
<1> DEFINE h == meant[1]
           v == Numbering(acct)
<1>2. h \in Msgs /\ h # 0
  BY MeantType DEF Msgs
<1>3. v \in Seq(Msgs) /\ ToSet(box[acct]) \subseteq ToSet(v)
  BY Numberings
<1>4. Target = At(acct, num)
  BY <1>1 DEF Target
<1>5. ASSUME Target = h PROVE ~Gone(h)
  <2>1. num \in 1 .. Len(v) /\ h = v[num] /\ h \in ToSet(box[acct])
    BY <1>2, <1>4, <1>5, AtIsListed
  <2>2. Rank(acct, h) = num
    BY <2>1, NumberIsRank
  <2> QED BY <2>1, <2>2 DEF Gone, TypeOK
<1>6. ASSUME Target # h, h \in ToSet(box[acct]) PROVE Rank(acct, h) < num
  <2>1. PICK n \in 1 .. Len(v) : v[n] = h
    BY <1>3, <1>6 DEF ToSet
  <2>2. Rank(acct, h) = n
    BY <2>1, NumberIsRank
  <2>3. n # num
    BY <1>4, <1>6, <2>1, AtIsListed
  <2> QED BY <2>2, <2>3 DEF TypeOK
<1> QED BY <1>5, <1>6 DEF Gone

LEMMA KeptStep ==
  ASSUME TypeOK, TypeOK', Boxes, Listed, Kept, Next
  PROVE  Kept'
<1> DEFINE Numbered == \A i \in 1 .. Len(meant) : Rank(acct, meant[i]) <= NumberOf(i)
           Fetched  == rx = "handle" => smime = meant[1] \/ (smime = 0 /\ Gone(meant[1]))
           Dealt    == rx \in {"seen", "delete"} =>
                         meant[1] \in ToSet(handled) \/ Gone(meant[1])
           Fine     == flagged \subseteq ToSet(handled)
           Body     == Fine /\ (rx \in InRx => Numbered) /\ Fetched /\ Dealt
           Exempt   == astray \/ faults \cap {"fetch", "switch"} # {}
<1>1. Kept = (Exempt \/ Body) /\ Kept' = (Exempt' \/ Body')
  BY DEF Kept
<1> HIDE DEF Body
<1> SUFFICES ASSUME ~Exempt' PROVE Body'
  BY <1>1
<1>2. ~Exempt
  <2>1. faults \subseteq faults'
    BY KindsOfSteps, OthersLeave, OutsideLeaves, GoesOnLeaves, EndsLeaves
       DEF Search, SearchFails, NextNumber, Fault, faultVars
  <2>2. ~astray
    BY KindsOfSteps, OthersLeave, OutsideLeaves, GoesOnLeaves, EndsLeaves
       DEF Search, SearchFails, NextNumber, Reached, ghostVars
  <2> QED BY <2>1, <2>2
<1>3. Fine /\ (rx \in InRx => Numbered) /\ Fetched /\ Dealt
  BY <1>1, <1>2 DEF Body
<1>4. ASSUME rx \in InRx, NEW i \in 1 .. Len(meant)
      PROVE  meant[i] \in Msgs /\ meant[i] <= arrived /\ acct \in Accounts
  <2>1. meant \in Seq(Msgs) /\ (acct # NoAccount => acct \in Accounts)
    BY DEF TypeOK
  <2>2. meant # <<>>
    BY <1>4, <2>1
  <2> QED BY <1>2, <1>4, <2>1, <2>2 DEF Listed
<1>5. rx' \in InRx => ~Expunge
  BY DEF Expunge, InRx
<1>6. ASSUME rx' \in InRx, NEW a \in Accounts, NEW m \in Msgs, m <= arrived
      PROVE  /\ RankIn(view'[a], box'[a], m) <= RankIn(view[a], box[a], m)
             /\ RankIn(view'[a], box'[a], m) \in Nat /\ RankIn(view[a], box[a], m) \in Nat
             /\ m \notin ToSet(box[a]) => m \notin ToSet(box'[a])
  BY <1>5, <1>6, MildSteps DEF Mild, Rank
(* What is fine about a message stays so as long as its number does.        *)
<1>7. ASSUME rx \in InRx, rx' \in InRx, acct' = acct, NEW h \in Msgs, h <= arrived,
             acct \in Accounts, NEW n \in Nat
      PROVE  /\ RankIn(view[acct], box[acct], h) <= n =>
                  RankIn(view'[acct'], box'[acct'], h) <= n
             /\ (h \in ToSet(box[acct]) => RankIn(view[acct], box[acct], h) < n) =>
                  (h \in ToSet(box'[acct']) => RankIn(view'[acct'], box'[acct'], h) < n)
  BY <1>6, <1>7
<1>8. /\ num \in Nat
      /\ rx \in InRx => \A i \in 1 .. Len(meant) : NumberOf(i) \in Nat
  <2>1. num \in Nat /\ list \in Seq(Nat) /\ Len(list) \in Nat
    BY DEF TypeOK
  <2>2. ASSUME rx \in InRx, NEW i \in 1 .. Len(meant) PROVE NumberOf(i) \in Nat
    <3>1. CASE rx \in AtNum
      <4>1. Len(meant) = Len(list) + 1
        BY <2>2, <3>1 DEF Listed
      <4> QED BY <2>1, <2>2, <3>1, <4>1 DEF NumberOf
    <3>2. CASE rx \notin AtNum
      <4>1. Len(meant) = Len(list) + 0
        BY <2>2, <3>2 DEF Listed
      <4> QED BY <2>1, <2>2, <3>2, <4>1 DEF NumberOf
    <3> QED BY <3>1, <3>2
  <2> QED BY <2>1, <2>2
<1>9. ASSUME rx \in InRx, rx' \in InRx, acct' = acct, meant' = meant,
             \A i \in 1 .. Len(meant) : NumberOf(i)' = NumberOf(i)
      PROVE  Numbered'
  <2> SUFFICES ASSUME NEW i \in 1 .. Len(meant)
               PROVE  RankIn(view'[acct'], box'[acct'], meant[i]) <= NumberOf(i)
    BY <1>9 DEF Rank
  <2>1. /\ meant[i] \in Msgs /\ meant[i] <= arrived /\ acct \in Accounts
        /\ NumberOf(i) \in Nat
    BY <1>4, <1>8, <1>9
  <2>2. RankIn(view[acct], box[acct], meant[i]) <= NumberOf(i)
    BY <1>3, <1>9 DEF Rank
  <2> QED BY <1>7, <1>9, <2>1, <2>2
<1>10. ASSUME rx \in AtNum, rx \in InRx, rx' \in InRx, acct' = acct, meant' = meant,
              num' = num, Gone(meant[1])
       PROVE  Gone(meant[1])'
  <2>1. meant[1] \in Msgs /\ meant[1] <= arrived /\ acct \in Accounts
    <3>1. meant # <<>> /\ 1 \in 1 .. Len(meant)
      BY <1>10, MeantType
    <3> QED BY <1>4, <1>10, <3>1
  <2> QED BY <1>7, <1>8, <1>10, <2>1 DEF Gone, Rank
<1>11. rx \in AtNum /\ rx \in InRx =>
         /\ Target = meant[1] => ~Gone(meant[1])
         /\ Target # meant[1] => Gone(meant[1])
  <2> SUFFICES ASSUME rx \in AtNum, rx \in InRx
               PROVE  /\ Target = meant[1] => ~Gone(meant[1])
                      /\ Target # meant[1] => Gone(meant[1])
    OBVIOUS
  <2>1. meant # <<>> /\ 1 \in 1 .. Len(meant)
    BY MeantType
  <2>2. NumberOf(1) = num
    BY DEF NumberOf
  <2>3. acct \in Accounts
    BY <1>4, <2>1
  <2>4. Rank(acct, meant[1]) <= num
    BY <1>3, <2>1, <2>2
  <2> QED BY <2>3, <2>4, TargetOrGone
<1>12. CASE Others
  <2>1. /\ UNCHANGED <<rx, list, num, smime, meant, handled, flagged>>
        /\ rx \in InRx => acct' = acct
    BY <1>12, OthersLeave
  <2>2. \A i : NumberOf(i)' = NumberOf(i)
    BY <2>1 DEF NumberOf
  <2>3. rx' \in InRx => Numbered'
    BY <1>9, <2>1, <2>2
  <2>4. rx \in {"handle", "seen", "delete"} => rx \in AtNum /\ rx \in InRx
    BY DEF AtNum, InRx
  <2>5. Fetched' /\ Dealt'
    BY <1>3, <1>10, <2>1, <2>4
  <2> QED BY <1>3, <2>1, <2>3, <2>5 DEF Body
<1>13. CASE Outside
  <2>1. UNCHANGED <<handled, flagged>> /\ rx' \notin InRx
    BY <1>13, OutsideLeaves
  <2>2. rx' \notin {"handle", "seen", "delete"}
    BY <2>1 DEF InRx
  <2> QED BY <1>3, <2>1, <2>2 DEF Body
<1>14. CASE Search
  <2>1. UNCHANGED <<handled, flagged, acct, box>> /\ rx' = "next"
    BY <1>14 DEF Search
  <2>2. acct \in Accounts
    BY <1>14, SearchResult
  <2>3. Connected
    BY <1>14 DEF Search
  <2>4. ASSUME NEW i \in 1 .. Len(meant') PROVE Rank(acct, meant[i])' <= NumberOf(i)'
    <3>1. /\ list'[i] \in 1 .. Len(Numbering(acct)) /\ NumberOf(i)' = list'[i]
          /\ meant'[i] = Numbering(acct)[list'[i]]
      BY <1>14, <2>1, SearchResult DEF NumberOf, AtNum
    <3>2. RankIn(view[acct], box[acct], meant'[i]) = list'[i]
      BY <2>2, <3>1, NumberIsRank DEF Rank
    <3>3. meant'[i] \in Msgs /\ meant'[i] <= arrived
      BY <2>2, <3>1, Numberings
    <3>4. RankIn(view'[acct], box'[acct], meant'[i]) <= list'[i]
      BY <1>6, <2>1, <2>2, <3>2, <3>3 DEF InRx
    <3> QED BY <2>1, <3>1, <3>4 DEF Rank
  <2> QED BY <1>3, <2>1, <2>4 DEF Body
<1>15. CASE SearchFails
  <2>1. UNCHANGED <<handled, flagged>> /\ rx' = "next" /\ meant' = <<>>
    BY <1>15 DEF SearchFails
  <2> QED BY <1>3, <2>1 DEF Body
<1>16. CASE NextNumber /\ list # <<>>
  <2>1. /\ rx = "next" /\ rx' = "fetch" /\ list' = Tail(list) /\ num' = Head(list)
        /\ UNCHANGED <<acct, meant, handled, flagged>>
    BY <1>16 DEF NextNumber, serverVars, ghostVars, faultVars
  <2>2. Len(meant) = Len(list) + 0 /\ list \in Seq(Nat) /\ Len(list) \in Nat
    BY <2>1 DEF Listed, InRx, AtNum, TypeOK
  <2>3. ASSUME NEW i \in 1 .. Len(meant) PROVE NumberOf(i)' = NumberOf(i)
    <3>1. NumberOf(i)' = IF i = 1 THEN Head(list) ELSE Tail(list)[i - 1]
      BY <2>1 DEF NumberOf, AtNum
    <3>2. NumberOf(i) = list[i]
      BY <2>1 DEF NumberOf, AtNum
    <3>3. i # 1 => Tail(list)[i - 1] = list[i]
      BY <2>2, <2>3
    <3>4. Head(list) = list[1]
      BY <2>2
    <3> QED BY <3>1, <3>2, <3>3, <3>4
  <2>4. rx \in InRx /\ rx' \in InRx
    BY <2>1 DEF InRx
  <2>5. Numbered'
    BY <1>9, <2>1, <2>3, <2>4
  <2> QED BY <1>3, <2>1, <2>5 DEF Body
<1>17. CASE GoesOn
  <2>1. /\ UNCHANGED <<acct, list, num, meant, flagged>>
        /\ rx \in AtNum /\ rx' \in AtNum /\ rx \in InRx /\ rx' \in InRx
    BY <1>17, GoesOnLeaves
  <2>2. \A i : NumberOf(i)' = NumberOf(i)
    BY <2>1 DEF NumberOf
  <2>3. Numbered'
    BY <1>9, <2>1, <2>2
  <2>4. Gone(meant[1]) => Gone(meant[1])'
    BY <1>10, <2>1
  <2>5. Head(meant) = meant[1] /\ meant'[1] = meant[1]
    BY <2>1, MeantType
  <2>6. CASE Fetch
    <3>1. /\ smime' = Target /\ Target # 0 /\ Reached(Target) /\ rx' = "handle"
          /\ handled' = handled
      BY <2>6 DEF Fetch
    <3>2. smime' = meant'[1]
      BY <2>5, <3>1 DEF Reached
    <3> QED BY <1>3, <2>1, <2>3, <3>1, <3>2 DEF Body
  <2>7. CASE \E served \in BOOLEAN : FetchFails(served)
    <3>1. /\ rx = "fetch" /\ rx' = "handle" /\ smime' = smime /\ handled' = handled
          /\ IF Target = 0 THEN UNCHANGED faultVars ELSE Fault("fetch")
      BY <2>7 DEF FetchFails
    <3>2. Target = 0
      BY <3>1 DEF Fault
    <3>3. smime' = 0 /\ Gone(meant[1])
      <4>1. meant[1] # 0
        BY <2>1, MeantType DEF Msgs
      <4> QED BY <1>11, <2>1, <3>1, <3>2, <4>1 DEF Listed
    <3> QED BY <1>3, <2>1, <2>3, <2>4, <3>1, <3>3 DEF Body
  <2>8. CASE Handle
    <3>1. /\ rx = "handle" /\ rx' = "seen"
          /\ handled' = IF smime = 0 THEN handled ELSE Append(handled, smime)
      BY <2>8 DEF Handle
    <3>2. meant[1] # 0
      BY <2>1, MeantType DEF Msgs
    <3>3. /\ ToSet(handled) \subseteq ToSet(handled')
          /\ smime # 0 => smime \in ToSet(handled')
      <4>1. handled \in Seq(Msgs) /\ Len(handled) \in Nat
            /\ DOMAIN handled = 1 .. Len(handled)
        BY DEF TypeOK
      <4>2. CASE smime # 0
        <5>1. /\ DOMAIN handled' = 1 .. Len(handled) + 1
              /\ handled'[Len(handled) + 1] = smime
              /\ \A i \in 1 .. Len(handled) : handled'[i] = handled[i]
          BY <3>1, <4>1, <4>2
        <5>2. /\ Len(handled) + 1 \in 1 .. Len(handled) + 1
              /\ \A i \in 1 .. Len(handled) : i \in 1 .. Len(handled) + 1
          BY <4>1
        <5> QED BY <4>1, <5>1, <5>2 DEF ToSet
      <4> QED BY <3>1, <4>2
    <3>4. Dealt'
      BY <1>3, <2>4, <2>5, <3>1, <3>2, <3>3
    <3> QED BY <1>3, <2>1, <2>3, <3>1, <3>3, <3>4 DEF Body
  <2>9. CASE StoreSeen \/ (StoreFails /\ rx = "seen")
    <3>1. rx = "seen" /\ rx' = "delete" /\ handled' = handled
      BY <2>9 DEF StoreSeen, StoreFails
    <3>2. Dealt'
      BY <1>3, <2>4, <2>5, <3>1
    <3> QED BY <1>3, <2>1, <2>3, <3>1, <3>2 DEF Body
  <2> QED BY <1>17, <2>6, <2>7, <2>8, <2>9 DEF GoesOn
<1>18. CASE Ends
  <2>1. /\ UNCHANGED <<acct, list, num, handled, arrived>> /\ meant' = Tail(meant)
        /\ rx = "delete" /\ rx' = "next"
    BY <1>18, EndsLeaves
  <2>2. rx \in InRx /\ rx' \in InRx /\ rx \in AtNum
    BY <2>1 DEF InRx, AtNum
  <2>3. /\ Len(meant') = Len(meant) - 1 /\ Len(meant) \in Nat \ {0} /\ meant # <<>>
        /\ Head(meant) = meant[1]
        /\ \A i \in 1 .. Len(meant') : meant'[i] = meant[i + 1]
    BY <2>1, <2>2, MeantType
  <2>4. ASSUME NEW i \in 1 .. Len(meant')
        PROVE  RankIn(view'[acct'], box'[acct'], meant'[i]) <= NumberOf(i)'
    <3>1. i + 1 \in 1 .. Len(meant) /\ i + 1 # 1 /\ i + 1 - 1 = i
      BY <2>3
    <3>2. NumberOf(i + 1) = list[i] /\ NumberOf(i)' = list[i]
      BY <2>1, <3>1 DEF NumberOf, AtNum
    <3>3. /\ meant[i + 1] \in Msgs /\ meant[i + 1] <= arrived /\ acct \in Accounts
          /\ NumberOf(i + 1) \in Nat
          /\ RankIn(view[acct], box[acct], meant[i + 1]) <= NumberOf(i + 1)
      <4>1. Rank(acct, meant[i + 1]) <= NumberOf(i + 1)
        BY <1>3, <2>2, <3>1
      <4> QED BY <1>4, <1>8, <2>2, <3>1, <4>1 DEF Rank
    <3>4. RankIn(view'[acct'], box'[acct'], meant[i + 1]) <= NumberOf(i + 1)
      BY <1>7, <2>1, <2>2, <3>3
    <3> QED BY <2>3, <3>2, <3>4
  <2>5. Numbered'
    BY <2>4 DEF Rank
  <2>6. Fine'
    <3>1. CASE StoreFails
      BY <1>3, <2>1, <3>1 DEF StoreFails
    <3>2. CASE StoreDeleted
      <4>1. flagged' = flagged \cup ({Target} \ {0}) /\ Reached(Target)
        BY <3>2 DEF StoreDeleted, Stored
      <4>2. Target = 0 \/ Target = meant[1]
        BY <2>3, <4>1 DEF Reached
      <4>3. Target = meant[1] => meant[1] \in ToSet(handled)
        BY <1>3, <1>11, <2>1, <2>2
      <4> QED BY <1>3, <2>1, <4>1, <4>2, <4>3
    <3> QED BY <1>18, <3>1, <3>2 DEF Ends
  <2> QED BY <2>1, <2>5, <2>6 DEF Body
<1> QED BY <1>12, <1>13, <1>14, <1>15, <1>16, <1>17, <1>18, KindsOfSteps
-----------------------------------------------------------------------------
LEMMA Initially == Init => Inv
<1> SUFFICES ASSUME Init PROVE Inv
  OBVIOUS
<1>1. /\ <<>> \in Seq(Nat) /\ <<>> \in Seq(Msgs) /\ Len(<<>>) = 0
      /\ Closed \in Seq(Msgs \cup {0})
  BY EmptySeq DEF Closed
<1>2. MaxFaults \in Nat /\ NMsgs \in Nat
  BY RxAssumption DEF RxAssumption
<1>3. TypeOK
  <2>1. box \in [Accounts -> Seq(Msgs)] /\ view \in [Accounts -> Seq(Msgs \cup {0})]
    BY <1>1 DEF Init
  <2>2. list \in Seq(Nat) /\ meant \in Seq(Msgs) /\ handled \in Seq(Msgs)
    BY <1>1 DEF Init
  <2>3. arrived \in 0 .. NMsgs /\ nfaults \in 0 .. MaxFaults
    BY <1>2 DEF Init
  <2>4. /\ acct \in Accounts \cup {NoAccount} /\ rx \in RxPC /\ num \in Nat
        /\ smime \in Msgs \cup {0} /\ stop \in BOOLEAN
    BY DEF Init, RxPC
  <2>5. /\ seen \subseteq Msgs /\ deleted \subseteq Msgs /\ flagged \subseteq Msgs
        /\ astray \in BOOLEAN /\ faults \subseteq Kinds
    BY DEF Init
  <2> QED BY <2>1, <2>2, <2>3, <2>4, <2>5 DEF TypeOK
<1>4. Boxes
  <2>1. \A a \in Accounts : box[a] = <<>> /\ view[a] = Closed
    BY DEF Init
  <2> QED BY <1>1, <2>1 DEF Boxes, Ordered
<1>5. Listed /\ Once /\ Kept
  <2>1. rx \notin InRx /\ rx # "handle"
    BY DEF Init, InRx
  <2>2. Listed
    BY <2>1 DEF Listed, InRx
  <2>3. Once
    BY <1>1, <2>1 DEF Init, Once
  <2>4. Kept
    BY <2>1 DEF Init, Kept, InRx
  <2> QED BY <2>2, <2>3, <2>4
<1>6. Faithful
  BY DEF Init, Faithful, InRx
<1> QED BY <1>3, <1>4, <1>5, <1>6 DEF Inv

LEMMA NextStep == ASSUME Inv, [Next]_vars PROVE Inv'
<1>1. TypeOK /\ Boxes /\ Listed /\ Faithful /\ Once /\ Kept
  BY DEF Inv
<1>2. ASSUME Next PROVE Inv'
  <2>1. TypeOK' /\ Listed'
    BY <1>1, <1>2, TypeStep, ListedStep
  <2>2. Boxes'
    BY <1>1, <1>2, MildSteps, ExpungeStep DEF Mild
  <2>3. Faithful' /\ Once' /\ Kept'
    BY <1>1, <1>2, <2>1, FaithfulStep, OnceStep, KeptStep
  <2> QED BY <2>1, <2>2, <2>3 DEF Inv
<1>3. CASE UNCHANGED vars
  <2>1. UNCHANGED <<acct, rx, list, num, smime, stop, arrived, box, view, seen, deleted,
                    meant, handled, flagged, astray, faults, nfaults>>
    BY <1>3 DEF vars, threadVars, serverVars, ghostVars, faultVars
  <2>2. TypeOK' /\ Boxes'
    BY <1>1, <2>1 DEF TypeOK, Boxes, Ordered
  <2>3. Listed' /\ Faithful' /\ Once'
    BY <1>1, <2>1 DEF Listed, Faithful, Once, NumberOf, ToCome
  <2>4. Kept'
    BY <1>1, <2>1 DEF Kept, NumberOf, Gone, Rank
  <2> QED BY <2>2, <2>3, <2>4 DEF Inv
<1> QED BY <1>2, <1>3

(* The inductive invariant, for any accounts, messages and faults.          *)
THEOREM InvariantHolds == Spec => []Inv
<1>1. Init => Inv
  BY Initially
<1>2. Inv /\ [Next]_vars => Inv'
  BY NextStep
<1> QED BY <1>1, <1>2, PTL DEF Spec

(* Types of the thread's variables, the server's and the history.           *)
THEOREM TypeCorrect == Spec => []TypeOK
<1>1. Inv => TypeOK
  BY DEF Inv
<1> QED BY <1>1, InvariantHolds, PTL

(* The numbers of GetUnseen mean the same messages to GetMsg and StoreFlag  *)
(* unless the account is switched in the middle or another client removes   *)
(* mail.                                                                    *)
THEOREM NumbersAreFaithful == Spec => []NumbersHold
<1>1. Inv => NumbersHold
  BY DEF Inv, Faithful, NumbersHold
<1> QED BY <1>1, InvariantHolds, PTL

(* Rx flags nothing \Deleted that EmailHandler did not get, other than      *)
(* after a failed GetMsg, a switch in the middle or a number gone astray.   *)
THEOREM NothingElseLosesMail == Spec => []DeletedWasHandled
<1>1. Inv => DeletedWasHandled
  BY DEF Inv, Kept, DeletedWasHandled
<1> QED BY <1>1, InvariantHolds, PTL

(* EmailHandler gets no message twice unless a number went astray.          *)
THEOREM NothingHandledTwice == Spec => []HandledOnce
<1>1. Inv => HandledOnce
  <2> SUFFICES ASSUME Inv, ~astray PROVE IsInjective(handled)
    BY DEF HandledOnce
  <2>1. \A i, j \in 1 .. Len(handled) : handled[i] = handled[j] => i = j
    BY DEF Inv, Once
  <2>2. DOMAIN handled = 1 .. Len(handled)
    BY DEF Inv, TypeOK
  <2> QED BY <2>1, <2>2 DEF IsInjective
<1> QED BY <1>1, InvariantHolds, PTL
=============================================================================
