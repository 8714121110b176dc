------------------------------ MODULE Chat_proofs ------------------------------
(***************************************************************************)
(* Proofs about Chat, for any users and addresses and any bounds.          *)
(*                                                                         *)
(* Who is due a message has a certificate on file with its writer as long  *)
(* as the transmit thread has not looked it up: a certificate is filed     *)
(* under one address, no two users have the same, and a removal ends what  *)
(* was due.                                                                *)
(***************************************************************************)
EXTENDS Chat, TLAPS, FiniteSetTheorems, SequenceTheorems

Job == [msg : Draft, left : SUBSET Normal, vecTo : SUBSET Users]

Types ==
  /\ cert \in [Users -> [Names -> Users \cup {Nobody}]]
  /\ outbox \in [Users -> Seq(Draft)]
  /\ enc \in [Users -> {<<>>} \cup {<<j>> : j \in Job}]
  /\ written \in 0 .. MaxMsgs

(* A certificate is filed under the address that stands in it.              *)
Filed == \A u \in Users, n \in Names :
           cert[u][n] # Nobody => Addr[cert[u][n]] = n

(* v can count on message m of a writer who has certificates c on file.     *)
Due(c, m, v) == Norm[Addr[v]] \in m.to /\ c[Addr[v]] = v

(* Whom a message not sent yet is due is a member and a friend still; the   *)
(* thread has found the friend's certificate or will still look for it.     *)
WaitingIsDue ==
  \A u \in Users : \A i \in 1 .. Len(outbox[u]) : \A v \in outbox[u][i].due :
    Due(cert[u], outbox[u][i], v)
JobIsDue ==
  \A u \in Users : enc[u] # <<>> =>
    \A v \in enc[u][1].msg.due :
      /\ Due(cert[u], enc[u][1].msg, v)
      /\ (~enc[u][1].msg.signOnly /\ Norm[Addr[v]] = Addr[v]) =>
           Addr[v] \in enc[u][1].left \/ v \in enc[u][1].vecTo

(* A message is shown in the session that SessionKey names.                 *)
ShownInSession == \A u \in Users : \A s \in shown[u] : s.key = SessionKey(s.msg)

Inv == /\ Types /\ Filed /\ WaitingIsDue /\ JobIsDue /\ SealedForFriends
       /\ ShownInSession
-----------------------------------------------------------------------------
(* The constants.                                                           *)

LEMMA Addresses ==
  /\ \A u \in Users : Addr[u] \in Names /\ u # Nobody
  /\ \A n \in Names : Norm[n] \in Names
  /\ \A u, v \in Users : Addr[u] = Addr[v] => u = v
<1>1. /\ Nobody \notin Users /\ Addr \in [Users -> Names] /\ Norm \in [Names -> Names]
      /\ \A u \in Users : Owner[Addr[u]] = u
  BY ChatAssumption DEF ChatAssumption
<1> QED BY <1>1

(* A draft without w among those it is due.                                 *)
LEMMA Forgotten ==
  ASSUME NEW m \in Draft, NEW w
  PROVE  /\ [m EXCEPT !.due = m.due \ {w}] \in Draft
         /\ [m EXCEPT !.due = m.due \ {w}].due = m.due \ {w}
         /\ [m EXCEPT !.due = m.due \ {w}].to = m.to
         /\ [m EXCEPT !.due = m.due \ {w}].signOnly = m.signOnly
BY DEF Draft
-----------------------------------------------------------------------------
LEMMA Initially == Init => Inv
<1> SUFFICES ASSUME Init PROVE Inv
  OBVIOUS
<1>1. Types
  <2>1. <<>> \in Seq(Draft)
    BY EmptySeq
  <2>2. 0 \in 0 .. MaxMsgs
    BY ChatAssumption DEF ChatAssumption
  <2> QED BY <2>1, <2>2 DEF Init, Types
<1>2. Filed /\ WaitingIsDue /\ JobIsDue
  BY DEF Init, Filed, WaitingIsDue, JobIsDue
<1>3. SealedForFriends /\ ShownInSession
  BY DEF Init, SealedForFriends, ShownInSession
<1> QED BY <1>1, <1>2, <1>3 DEF Inv

(* What is written is due to the friends among its members.                 *)
LEMMA SendToStep ==
  ASSUME Inv, NEW u \in Users, NEW key \in Sessions, NEW signOnly \in BOOLEAN,
         SendTo(u, key, signOnly)
  PROVE  Inv'
<1> DEFINE m == [id |-> written', from |-> u, to |-> key,
                 signOnly |-> signOnly, due |-> Friends(u, key)]
<1>1. /\ Types /\ Filed /\ WaitingIsDue /\ JobIsDue /\ SealedForFriends
      /\ ShownInSession
  BY DEF Inv
<1>2. /\ written < MaxMsgs /\ written' = written + 1
      /\ outbox' = [outbox EXCEPT ![u] = Append(@, m)]
      /\ UNCHANGED <<cert, enc, shown, sent>>
  BY DEF SendTo
<1>3. written' \in 1 .. MaxMsgs
  BY <1>1, <1>2, ChatAssumption DEF Types, ChatAssumption
<1>4. m \in Draft /\ m.due = Friends(u, key) /\ m.to = key
  BY <1>3 DEF Draft, Friends
<1> HIDE DEF m
<1>5. /\ outbox' \in [Users -> Seq(Draft)] /\ outbox'[u] = Append(outbox[u], m)
      /\ \A w \in Users \ {u} : outbox'[w] = outbox[w]
      /\ outbox[u] \in Seq(Draft)
  BY <1>1, <1>2, <1>4 DEF Types
<1>6. Types'
  BY <1>1, <1>2, <1>3, <1>5 DEF Types
<1>7. WaitingIsDue'
  <2> SUFFICES ASSUME NEW w \in Users, NEW i \in 1 .. Len(outbox'[w]),
                      NEW v \in outbox'[w][i].due
               PROVE  Due(cert'[w], outbox'[w][i], v)
    BY DEF WaitingIsDue
  <2>1. CASE w = u /\ i = Len(outbox[u]) + 1
    <3>1. outbox'[w][i] = m
      BY <1>4, <1>5, <2>1
    <3>2. v \in Friends(u, key)
      BY <1>4, <3>1
    <3>3. Norm[Addr[v]] \in key /\ cert[u][Addr[v]] = v
      BY <3>2 DEF Friends
    <3>4. Norm[Addr[v]] \in m.to /\ cert'[w][Addr[v]] = v
      BY <1>2, <1>4, <2>1, <3>3
    <3> QED BY <3>1, <3>4 DEF Due
  <2>2. CASE ~(w = u /\ i = Len(outbox[u]) + 1)
    <3>1. i \in 1 .. Len(outbox[w]) /\ outbox'[w][i] = outbox[w][i]
      BY <1>4, <1>5, <2>2
    <3> QED BY <1>1, <1>2, <3>1 DEF WaitingIsDue, Due
  <2> QED BY <2>1, <2>2
<1>8. Filed' /\ JobIsDue' /\ SealedForFriends' /\ ShownInSession'
  BY <1>1, <1>2 DEF Filed, JobIsDue, Due, SealedForFriends, ShownInSession
<1> QED BY <1>6, <1>7, <1>8 DEF Inv

(* The thread takes a message, with all its members still to be looked up.  *)
LEMMA SignStep == ASSUME Inv, NEW u \in Users, EncryptSign(u) PROVE Inv'
<1> DEFINE m == Head(outbox[u])
           j == [msg |-> m, left |-> IF m.signOnly THEN {} ELSE m.to, vecTo |-> {}]
<1>1. /\ Types /\ Filed /\ WaitingIsDue /\ JobIsDue /\ SealedForFriends
      /\ ShownInSession
  BY DEF Inv
<1>2. /\ outbox[u] # <<>> /\ enc' = [enc EXCEPT ![u] = <<j>>]
      /\ outbox' = [outbox EXCEPT ![u] = Tail(@)]
      /\ UNCHANGED <<cert, shown, sent, written>>
  BY DEF EncryptSign
<1>3. /\ outbox[u] \in Seq(Draft) /\ Len(outbox[u]) \in Nat \ {0}
      /\ m \in Draft /\ m = outbox[u][1] /\ Tail(outbox[u]) \in Seq(Draft)
      /\ \A i \in 1 .. Len(Tail(outbox[u])) :
           /\ i + 1 \in 1 .. Len(outbox[u])
           /\ Tail(outbox[u])[i] = outbox[u][i + 1]
  BY <1>1, <1>2 DEF Types
<1>4. j \in Job /\ j.msg = m /\ (~m.signOnly => j.left = m.to)
  BY <1>3 DEF Job, Draft, Sessions
<1>5. \A v \in m.due : Due(cert[u], m, v)
  BY <1>1, <1>3 DEF WaitingIsDue
<1> HIDE DEF j, m
<1>6. /\ enc' \in [Users -> {<<>>} \cup {<<i>> : i \in Job}]
      /\ enc'[u] = <<j>> /\ \A w \in Users \ {u} : enc'[w] = enc[w]
  BY <1>1, <1>2, <1>4 DEF Types
<1>7. /\ outbox' \in [Users -> Seq(Draft)] /\ outbox'[u] = Tail(outbox[u])
      /\ \A w \in Users \ {u} : outbox'[w] = outbox[w]
  BY <1>1, <1>2, <1>3 DEF Types
<1>8. Types'
  BY <1>1, <1>2, <1>6, <1>7 DEF Types
<1>9. WaitingIsDue'
  <2> SUFFICES ASSUME NEW w \in Users, NEW i \in 1 .. Len(outbox'[w]),
                      NEW v \in outbox'[w][i].due
               PROVE  Due(cert'[w], outbox'[w][i], v)
    BY DEF WaitingIsDue
  <2>1. \E k \in 1 .. Len(outbox[w]) : outbox'[w][i] = outbox[w][k]
    BY <1>3, <1>7
  <2> QED BY <1>1, <1>2, <2>1 DEF WaitingIsDue, Due
<1>10. JobIsDue'
  <2> SUFFICES ASSUME NEW w \in Users, enc'[w] # <<>>, NEW v \in enc'[w][1].msg.due
               PROVE  /\ Due(cert'[w], enc'[w][1].msg, v)
                      /\ (~enc'[w][1].msg.signOnly /\ Norm[Addr[v]] = Addr[v]) =>
                           Addr[v] \in enc'[w][1].left \/ v \in enc'[w][1].vecTo
    BY DEF JobIsDue
  <2>1. CASE w = u
    <3>1. enc'[w][1] = j
      BY <1>6, <2>1
    <3> QED BY <1>2, <1>4, <1>5, <2>1, <3>1 DEF Due
  <2>2. CASE w # u
    BY <1>1, <1>2, <1>6, <2>2 DEF JobIsDue, Due
  <2> QED BY <2>1, <2>2
<1>11. Filed' /\ SealedForFriends' /\ ShownInSession'
  BY <1>1, <1>2 DEF Filed, SealedForFriends, ShownInSession
<1> QED BY <1>8, <1>9, <1>10, <1>11 DEF Inv

(* A certificate that is looked up is found if it is on file.               *)
LEMMA LookupStep ==
  ASSUME Inv, NEW u \in Users, NEW n \in Names, EncryptLookup(u, n)
  PROVE  Inv'
<1>1. /\ Types /\ Filed /\ WaitingIsDue /\ JobIsDue /\ SealedForFriends
      /\ ShownInSession
  BY DEF Inv
<1>2. PICK o \in Job : enc[u] = <<o>>
  BY <1>1 DEF Types, EncryptLookup
<1> DEFINE found == {cert[u][n]} \ {Nobody}
           j == [msg |-> o.msg, left |-> o.left \ {n}, vecTo |-> o.vecTo \cup found]
<1>3. /\ enc' = [enc EXCEPT ![u] =
                   <<[msg |-> o.msg, left |-> o.left \ {n},
                      vecTo |-> o.vecTo \cup found]>>]
      /\ UNCHANGED <<cert, outbox, shown, sent, written>>
  BY <1>2 DEF EncryptLookup
<1>4. enc'[u] = <<j>> /\ \A w \in Users \ {u} : enc'[w] = enc[w]
  <2>1. enc' = [enc EXCEPT ![u] = <<j>>]
    BY <1>3
  <2> HIDE DEF j
  <2> QED BY <1>1, <2>1 DEF Types
<1>5. /\ j \in Job /\ j.msg = o.msg /\ j.left = o.left \ {n}
      /\ j.vecTo = o.vecTo \cup found
  BY <1>1 DEF Types, Job
<1> HIDE DEF j
<1>6. Types'
  <2>1. enc' \in [Users -> {<<>>} \cup {<<i>> : i \in Job}]
    <3>1. DOMAIN enc' = Users /\ enc' = [w \in Users |-> enc'[w]]
      BY <1>1, <1>3 DEF Types
    <3>2. \A w \in Users : enc'[w] \in {<<>>} \cup {<<i>> : i \in Job}
      BY <1>1, <1>4, <1>5 DEF Types
    <3> QED BY <3>1, <3>2
  <2> QED BY <1>1, <1>3, <2>1 DEF Types
<1>7. JobIsDue'
  <2> SUFFICES ASSUME NEW w \in Users, enc'[w] # <<>>, NEW v \in enc'[w][1].msg.due
               PROVE  /\ Due(cert'[w], enc'[w][1].msg, v)
                      /\ (~enc'[w][1].msg.signOnly /\ Norm[Addr[v]] = Addr[v]) =>
                           Addr[v] \in enc'[w][1].left \/ v \in enc'[w][1].vecTo
    BY DEF JobIsDue
  <2>1. CASE w = u
    <3>1. enc'[w][1] = j /\ enc[w][1] = o /\ enc[w] # <<>>
      BY <1>2, <1>4, <2>1
    <3>2. v \in o.msg.due /\ v \in Users
      BY <1>5, <3>1 DEF Job, Draft
    <3>3. /\ Due(cert[u], o.msg, v)
          /\ (~o.msg.signOnly /\ Norm[Addr[v]] = Addr[v]) =>
               Addr[v] \in o.left \/ v \in o.vecTo
      BY <1>1, <2>1, <3>1, <3>2 DEF JobIsDue
    <3>4. Addr[v] = n => v \in found
      BY <3>2, <3>3, Addresses DEF Due
    <3>5. Due(cert'[w], enc'[w][1].msg, v)
      BY <1>3, <1>5, <2>1, <3>1, <3>3 DEF Due
    <3> HIDE DEF found
    <3> QED BY <1>5, <3>1, <3>3, <3>4, <3>5
  <2>2. CASE w # u
    BY <1>1, <1>3, <1>4, <2>2 DEF JobIsDue, Due
  <2> QED BY <2>1, <2>2
<1>8. Filed' /\ WaitingIsDue' /\ SealedForFriends' /\ ShownInSession'
  BY <1>1, <1>3 DEF Filed, WaitingIsDue, Due, SealedForFriends, ShownInSession
<1> QED BY <1>6, <1>7, <1>8 DEF Inv

(* What leaves is sealed for everyone the loop found.                       *)
LEMMA TransmitStep == ASSUME Inv, NEW u \in Users, Transmit(u) PROVE Inv'
<1>1. /\ Types /\ Filed /\ WaitingIsDue /\ JobIsDue /\ SealedForFriends
      /\ ShownInSession
  BY DEF Inv
<1>2. enc[u] # <<>> /\ enc[u][1].left = {}
  BY DEF Transmit
<1> DEFINE found  == enc[u][1].vecTo
           sealed == found # {}
           m == [id |-> enc[u][1].msg.id, from |-> u, to |-> enc[u][1].msg.to,
                 signOnly |-> enc[u][1].msg.signOnly, due |-> enc[u][1].msg.due,
                 sealed |-> sealed,
                 for |-> IF sealed THEN MEncrypt(u, found) ELSE {}]
<1>3. /\ sent' = sent \cup {m} /\ enc' = [enc EXCEPT ![u] = <<>>]
      /\ UNCHANGED <<cert, outbox, shown, written>>
  BY DEF Transmit
<1>4. /\ m.signOnly = enc[u][1].msg.signOnly /\ m.due = enc[u][1].msg.due
      /\ m.for = IF found # {} THEN found \cup {u} ELSE {}
  BY DEF MEncrypt
<1> HIDE DEF m
<1>5. ~m.signOnly => \A v \in m.due : v \in m.for \/ Norm[Addr[v]] # Addr[v]
  BY <1>1, <1>2, <1>4 DEF JobIsDue
<1>6. SealedForFriends'
  BY <1>1, <1>3, <1>5 DEF SealedForFriends
<1>7. /\ enc' \in [Users -> {<<>>} \cup {<<i>> : i \in Job}]
      /\ enc'[u] = <<>> /\ \A w \in Users \ {u} : enc'[w] = enc[w]
  BY <1>1, <1>3 DEF Types
<1>8. Types' /\ Filed' /\ WaitingIsDue' /\ ShownInSession'
  BY <1>1, <1>3, <1>7 DEF Types, Filed, WaitingIsDue, Due, ShownInSession
<1>9. JobIsDue'
  BY <1>1, <1>3, <1>7 DEF JobIsDue, Due
<1> QED BY <1>6, <1>8, <1>9 DEF Inv

(* Receiving changes what is shown only.                                    *)
LEMMA ReceiveStep ==
  ASSUME Inv, NEW u \in Users, OnNewMessage(u) \/ \E m \in mail[u] : EmailHandler(u, m)
  PROVE  Inv'
<1>1. /\ Types /\ Filed /\ WaitingIsDue /\ JobIsDue /\ SealedForFriends
      /\ ShownInSession
  BY DEF Inv
<1>2. UNCHANGED <<cert, outbox, enc, written, sent>>
  BY DEF OnNewMessage, EmailHandler
<1>3. ShownInSession'
  <2>1. CASE OnNewMessage(u)
    <3> DEFINE m == Head(signals[u])
               s == [key |-> SessionKey(m), msg |-> m]
    <3>1. shown' = shown \/ shown' = [shown EXCEPT ![u] = @ \cup {s}]
      BY <2>1 DEF OnNewMessage
    <3> HIDE DEF m
    <3>2. CASE shown' = shown
      BY <1>1, <3>2 DEF ShownInSession
    <3>3. CASE shown' = [shown EXCEPT ![u] = @ \cup {s}]
      <4>1. \A w \in Users : shown'[w] \subseteq shown[w] \cup {s}
        BY <3>3
      <4>2. s.key = SessionKey(s.msg)
        OBVIOUS
      <4> HIDE DEF s
      <4> QED BY <1>1, <4>1, <4>2 DEF ShownInSession
    <3> QED BY <3>1, <3>2, <3>3
  <2>2. CASE shown' = shown
    BY <1>1, <2>2 DEF ShownInSession
  <2> QED BY <2>1, <2>2 DEF EmailHandler
<1>4. Types' /\ Filed'
  BY <1>1, <1>2 DEF Types, Filed
<1>5. WaitingIsDue'
  BY <1>1, <1>2 DEF WaitingIsDue, Due
<1>6. JobIsDue'
  BY <1>1, <1>2 DEF JobIsDue, Due
<1>7. SealedForFriends'
  BY <1>1, <1>2 DEF SealedForFriends
<1> QED BY <1>3, <1>4, <1>5, <1>6, <1>7 DEF Inv

(* A certificate filed displaces nobody else's.                             *)
LEMMA MakeFriendStep ==
  ASSUME Inv, NEW u \in Users, NEW v \in Users, MakeFriend(u, v)
  PROVE  Inv'
<1>1. /\ Types /\ Filed /\ WaitingIsDue /\ JobIsDue /\ SealedForFriends
      /\ ShownInSession
  BY DEF Inv
<1>2. /\ cert' = [cert EXCEPT ![u][Addr[v]] = v]
      /\ UNCHANGED <<outbox, enc, shown, sent, written>>
  BY DEF MakeFriend, File
<1>3. /\ cert' \in [Users -> [Names -> Users \cup {Nobody}]]
      /\ \A w \in Users, n \in Names :
           cert'[w][n] = IF w = u /\ n = Addr[v] THEN v ELSE cert[w][n]
  BY <1>1, <1>2, Addresses DEF Types
<1>4. Types'
  BY <1>1, <1>2, <1>3 DEF Types
<1>5. Filed'
  BY <1>1, <1>3 DEF Filed
<1>6. ASSUME NEW w \in Users, NEW x \in Users, cert[w][Addr[x]] = x
      PROVE  cert'[w][Addr[x]] = x
  BY <1>3, <1>6, Addresses
<1>7. WaitingIsDue'
  <2> SUFFICES ASSUME NEW w \in Users, NEW i \in 1 .. Len(outbox[w]),
                      NEW x \in outbox[w][i].due
               PROVE  Due(cert'[w], outbox[w][i], x)
    BY <1>2 DEF WaitingIsDue, Due
  <2>1. x \in Users
    <3>1. outbox[w] \in Seq(Draft)
      BY <1>1 DEF Types
    <3>2. outbox[w][i] \in Draft
      BY <3>1
    <3> QED BY <3>2 DEF Draft
  <2>2. Due(cert[w], outbox[w][i], x)
    BY <1>1 DEF WaitingIsDue
  <2> QED BY <1>6, <2>1, <2>2 DEF Due
<1>8. JobIsDue'
  <2> SUFFICES ASSUME NEW w \in Users, enc[w] # <<>>, NEW x \in enc[w][1].msg.due
               PROVE  /\ Due(cert'[w], enc[w][1].msg, x)
                      /\ (~enc[w][1].msg.signOnly /\ Norm[Addr[x]] = Addr[x]) =>
                           Addr[x] \in enc[w][1].left \/ x \in enc[w][1].vecTo
    BY <1>2 DEF JobIsDue, Due
  <2>1. enc[w][1] \in Job
    BY <1>1 DEF Types
  <2>2. x \in Users
    BY <2>1 DEF Job, Draft
  <2>3. /\ Due(cert[w], enc[w][1].msg, x)
        /\ (~enc[w][1].msg.signOnly /\ Norm[Addr[x]] = Addr[x]) =>
             Addr[x] \in enc[w][1].left \/ x \in enc[w][1].vecTo
    BY <1>1 DEF JobIsDue
  <2>4. Due(cert'[w], enc[w][1].msg, x)
    BY <1>6, <2>2, <2>3 DEF Due
  <2> QED BY <2>3, <2>4
<1>9. SealedForFriends' /\ ShownInSession'
  BY <1>1, <1>2 DEF SealedForFriends, ShownInSession
<1> QED BY <1>4, <1>5, <1>7, <1>8, <1>9 DEF Inv

(* A removal takes one certificate, and nothing is due to its owner then.   *)
LEMMA RemoveContactStep ==
  ASSUME Inv, NEW u \in Users, NEW n \in Names, RemoveContact(u, n)
  PROVE  Inv'
<1> DEFINE gone == cert[u][n]
           Forget(m) == [m EXCEPT !.due = m.due \ {gone}]
<1>1. /\ Types /\ Filed /\ WaitingIsDue /\ JobIsDue /\ SealedForFriends
      /\ ShownInSession
  BY DEF Inv
<1>2. /\ gone # Nobody
      /\ outbox' = [outbox EXCEPT ![u] =
                      [i \in DOMAIN outbox[u] |-> Forget(outbox[u][i])]]
      /\ enc' = IF enc[u] = <<>> THEN enc
                  ELSE [enc EXCEPT ![u] =
                         <<[msg |-> Forget(enc[u][1].msg), left |-> enc[u][1].left,
                            vecTo |-> enc[u][1].vecTo]>>]
      /\ cert' = [cert EXCEPT ![u][n] = Nobody]
      /\ UNCHANGED <<shown, sent, written>>
  BY DEF RemoveContact, Unfile
<1>3. gone \in Users /\ Addr[gone] = n
  BY <1>1, <1>2 DEF Types, Filed
<1>4. \A m \in Draft : /\ Forget(m) \in Draft /\ Forget(m).to = m.to
                       /\ Forget(m).due = m.due \ {gone}
                       /\ Forget(m).signOnly = m.signOnly
  BY Forgotten
<1> HIDE DEF gone, Forget
<1>5. /\ cert' \in [Users -> [Names -> Users \cup {Nobody}]]
      /\ \A w \in Users, k \in Names :
           cert'[w][k] = IF w = u /\ k = n THEN Nobody ELSE cert[w][k]
  BY <1>1, <1>2 DEF Types
<1>6. ASSUME NEW w \in Users, NEW x \in Users, cert[w][Addr[x]] = x,
             w = u => x # gone
      PROVE  cert'[w][Addr[x]] = x
  BY <1>5, <1>6, Addresses DEF gone
<1>7. /\ outbox' \in [Users -> Seq(Draft)]
      /\ Len(outbox'[u]) = Len(outbox[u])
      /\ \A i \in 1 .. Len(outbox[u]) : outbox'[u][i] = Forget(outbox[u][i])
      /\ \A w \in Users \ {u} : outbox'[w] = outbox[w]
  <2> DEFINE q == [i \in DOMAIN outbox[u] |-> Forget(outbox[u][i])]
  <2>1. outbox[u] \in Seq(Draft)
    BY <1>1 DEF Types
  <2>2. /\ q \in Seq(Draft) /\ Len(q) = Len(outbox[u])
        /\ \A i \in 1 .. Len(outbox[u]) : q[i] = Forget(outbox[u][i])
    BY <1>4, <2>1
  <2>3. outbox' = [outbox EXCEPT ![u] = q]
    BY <1>2
  <2> HIDE DEF q
  <2> QED BY <1>1, <2>2, <2>3 DEF Types
<1>8. WaitingIsDue'
  <2> SUFFICES ASSUME NEW w \in Users, NEW i \in 1 .. Len(outbox'[w]),
                      NEW x \in outbox'[w][i].due
               PROVE  Due(cert'[w], outbox'[w][i], x)
    BY DEF WaitingIsDue
  <2>1. PICK m \in Draft : /\ i \in 1 .. Len(outbox[w]) /\ m = outbox[w][i]
                           /\ outbox'[w][i] = IF w = u THEN Forget(m) ELSE m
    BY <1>1, <1>7 DEF Types
  <2>2. x \in m.due /\ (w = u => x # gone) /\ x \in Users
    BY <1>4, <2>1 DEF Draft
  <2>3. Due(cert[w], m, x)
    BY <1>1, <2>1, <2>2 DEF WaitingIsDue
  <2>4. outbox'[w][i].to = m.to
    BY <1>4, <2>1
  <2> QED BY <1>6, <2>2, <2>3, <2>4 DEF Due
<1>9. /\ enc' \in [Users -> {<<>>} \cup {<<j>> : j \in Job}]
      /\ \A w \in Users : enc'[w] # <<>> =>
           \E o \in Job, m \in Draft :
             /\ enc[w] = <<o>>
             /\ m = IF w = u THEN Forget(o.msg) ELSE o.msg
             /\ enc'[w] = <<[msg |-> m, left |-> o.left, vecTo |-> o.vecTo]>>
  <2>1. \A o \in Job : /\ o.msg \in Draft /\ Forget(o.msg) \in Draft
                       /\ o = [msg |-> o.msg, left |-> o.left, vecTo |-> o.vecTo]
                       /\ [msg |-> Forget(o.msg), left |-> o.left,
                           vecTo |-> o.vecTo] \in Job
    BY <1>4 DEF Job
  <2>2. CASE enc[u] = <<>>
    <3>1. enc' = enc
      BY <1>2, <2>2
    <3>2. \A w \in Users : enc[w] # <<>> => w # u /\ \E o \in Job : enc[w] = <<o>>
      BY <1>1, <2>2 DEF Types
    <3>3. ASSUME NEW w \in Users, enc'[w] # <<>>
          PROVE  \E o \in Job, m \in Draft :
                   /\ enc[w] = <<o>> /\ m = o.msg /\ w # u
                   /\ enc'[w] = <<[msg |-> m, left |-> o.left, vecTo |-> o.vecTo]>>
      <4>1. PICK o \in Job : enc[w] = <<o>> /\ enc'[w] = <<o>> /\ w # u
        BY <3>1, <3>2, <3>3
      <4>2. o.msg \in Draft /\ o = [msg |-> o.msg, left |-> o.left, vecTo |-> o.vecTo]
        BY <2>1
      <4> QED BY <4>1, <4>2
    <3>4. enc' \in [Users -> {<<>>} \cup {<<j>> : j \in Job}]
      BY <1>1, <3>1 DEF Types
    <3> QED BY <3>3, <3>4
  <2>3. CASE enc[u] # <<>>
    <3>1. PICK o \in Job : enc[u] = <<o>>
      BY <1>1, <2>3 DEF Types
    <3> DEFINE j == [msg |-> Forget(o.msg), left |-> o.left, vecTo |-> o.vecTo]
    <3>2. enc[u][1] = o
      BY <3>1
    <3>3. enc' = [enc EXCEPT ![u] = <<j>>]
      BY <1>2, <2>3, <3>2
    <3>4. j \in Job
      BY <2>1
    <3>5. /\ enc'[u] = <<j>> /\ \A w \in Users \ {u} : enc'[w] = enc[w]
          /\ enc' \in [Users -> {<<>>} \cup {<<k>> : k \in Job}]
      <4> HIDE DEF j
      <4> QED BY <1>1, <3>3, <3>4 DEF Types
    <3>6. \A w \in Users \ {u} : enc[w] # <<>> => \E k \in Job : enc[w] = <<k>>
      BY <1>1 DEF Types
    <3>7. ASSUME NEW w \in Users \ {u}, enc'[w] # <<>>
          PROVE  \E k \in Job, m \in Draft :
                   /\ enc[w] = <<k>> /\ m = k.msg
                   /\ enc'[w] = <<[msg |-> m, left |-> k.left, vecTo |-> k.vecTo]>>
      <4>1. PICK k \in Job : enc[w] = <<k>> /\ enc'[w] = <<k>>
        BY <3>5, <3>6, <3>7
      <4>2. k.msg \in Draft /\ k = [msg |-> k.msg, left |-> k.left, vecTo |-> k.vecTo]
        BY <2>1
      <4> QED BY <4>1, <4>2
    <3> QED BY <2>1, <3>1, <3>5, <3>7
  <2> QED BY <2>2, <2>3
<1>10. JobIsDue'
  <2> SUFFICES ASSUME NEW w \in Users, enc'[w] # <<>>, NEW x \in enc'[w][1].msg.due
               PROVE  /\ Due(cert'[w], enc'[w][1].msg, x)
                      /\ (~enc'[w][1].msg.signOnly /\ Norm[Addr[x]] = Addr[x]) =>
                           Addr[x] \in enc'[w][1].left \/ x \in enc'[w][1].vecTo
    BY DEF JobIsDue
  <2>1. PICK o \in Job, m \in Draft :
          /\ enc[w] = <<o>>
          /\ m = IF w = u THEN Forget(o.msg) ELSE o.msg
          /\ enc'[w] = <<[msg |-> m, left |-> o.left, vecTo |-> o.vecTo]>>
    BY <1>9
  <2>2. /\ enc'[w][1].msg = m /\ enc'[w][1].left = o.left
        /\ enc'[w][1].vecTo = o.vecTo /\ enc[w][1] = o /\ enc[w] # <<>>
    BY <2>1
  <2>3. o.msg \in Draft
    BY DEF Job
  <2>4. /\ x \in o.msg.due /\ (w = u => x # gone) /\ x \in Users
        /\ m.to = o.msg.to /\ m.signOnly = o.msg.signOnly
    BY <1>4, <2>1, <2>2, <2>3 DEF Draft
  <2>5. /\ Due(cert[w], o.msg, x)
        /\ (~o.msg.signOnly /\ Norm[Addr[x]] = Addr[x]) =>
             Addr[x] \in o.left \/ x \in o.vecTo
    BY <1>1, <2>2, <2>4 DEF JobIsDue
  <2>6. Due(cert'[w], enc'[w][1].msg, x)
    BY <1>6, <2>2, <2>4, <2>5 DEF Due
  <2> QED BY <2>2, <2>4, <2>5, <2>6
<1>11. Types'
  BY <1>1, <1>2, <1>5, <1>7, <1>9 DEF Types
<1>12. Filed'
  BY <1>1, <1>5 DEF Filed
<1>13. SealedForFriends' /\ ShownInSession'
  BY <1>1, <1>2 DEF SealedForFriends, ShownInSession
<1> QED BY <1>8, <1>10, <1>11, <1>12, <1>13 DEF Inv
-----------------------------------------------------------------------------
LEMMA NextStep == ASSUME Inv, [Next]_vars PROVE Inv'
<1>1. ASSUME NEW u \in Users, NEW key \in Sessions, NEW signOnly \in BOOLEAN,
             SendTo(u, key, signOnly)
      PROVE  Inv'
  BY <1>1, SendToStep
<1>2. ASSUME NEW u \in Users, EncryptSign(u) PROVE Inv'
  BY <1>2, SignStep
<1>3. ASSUME NEW u \in Users, Transmit(u) PROVE Inv'
  BY <1>3, TransmitStep
<1>4. ASSUME NEW u \in Users, NEW n \in Names, EncryptLookup(u, n) PROVE Inv'
  BY <1>4, LookupStep
<1>5. ASSUME NEW u \in Users, NEW n \in Names, RemoveContact(u, n) PROVE Inv'
  BY <1>5, RemoveContactStep
<1>6. ASSUME NEW u \in Users, OnNewMessage(u) \/ \E m \in mail[u] : EmailHandler(u, m)
      PROVE  Inv'
  BY <1>6, ReceiveStep
<1>7. ASSUME NEW u \in Users, NEW v \in Users, MakeFriend(u, v) PROVE Inv'
  BY <1>7, MakeFriendStep
<1>8. CASE UNCHANGED vars
  <2>1. UNCHANGED <<cert, outbox, enc, shown, sent, written>>
    BY <1>8 DEF vars
  <2>2. Inv
    OBVIOUS
  <2>3. Types' /\ Filed' /\ SealedForFriends' /\ ShownInSession'
    BY <2>1, <2>2 DEF Inv, Types, Filed, SealedForFriends, ShownInSession
  <2>4. WaitingIsDue' /\ JobIsDue'
    BY <2>1, <2>2 DEF Inv, WaitingIsDue, JobIsDue, Due
  <2> QED BY <2>3, <2>4 DEF Inv
<1> QED BY <1>1, <1>2, <1>3, <1>4, <1>5, <1>6, <1>7, <1>8 DEF Next, Terminated

(* The inductive invariant, for any users, addresses and bounds.            *)
THEOREM InvariantHolds == Spec => []Inv
<1>1. Init => Inv
  BY Initially
<1>2. Inv /\ [Next]_vars => Inv'
  BY NextStep
<1> QED BY <1>1, <1>2, PTL DEF Spec

(* A message other than an invitation leaves sealed for every friend whose  *)
(* certificate the writer had when writing and still has when the transmit  *)
(* thread looks, if decodeReceips leaves the friend's address as it is      *)
(* (SendTo, Encrypt, contattrib, removeContact).                            *)
THEOREM FriendsAreSealedFor == Spec => []SealedForFriends
<1>1. Inv => SealedForFriends
  BY DEF Inv
<1> QED BY <1>1, InvariantHolds, PTL

(* An answer in the session in which a message is shown goes to its sender, *)
(* as far as addresses survive decodeReceips (onNewMessage's choice of the  *)
(* session).                                                                *)
THEOREM AnswersGoBack == Spec => []AnswersReachSender
<1>1. Inv => AnswersReachSender
  <2> SUFFICES ASSUME Inv, NEW u \in Users, NEW s \in shown[u]
               PROVE  \/ s.msg.from \in {Owner[n] : n \in s.key}
                      \/ Owner[Norm[Addr[s.msg.from]]] # s.msg.from
                      \/ Cardinality(s.key) > 1 /\ Norm[Addr[s.msg.from]] \notin s.msg.to
    BY DEF AnswersReachSender
  <2>1. s.key = SessionKey(s.msg)
    BY DEF Inv, ShownInSession
  <2>2. CASE Cardinality(s.msg.to) > 1
    <3>1. s.key = s.msg.to
      BY <2>1, <2>2 DEF SessionKey
    <3> QED BY <2>2, <3>1
  <2>3. CASE ~(Cardinality(s.msg.to) > 1)
    <3>1. s.key = {Norm[Addr[s.msg.from]]}
      BY <2>1, <2>3 DEF SessionKey
    <3> QED BY <3>1
  <2> QED BY <2>2, <2>3
<1> QED BY <1>1, InvariantHolds, PTL
=============================================================================
