--------------------------------- MODULE Chat ---------------------------------
(***************************************************************************)
(* Conversations between clients: SendTo, the transmit thread's choice     *)
(* between signing and sealing (BitMail::Encrypt), what the receiver makes *)
(* of it (EmailHandler, Decrypt, onNewMessage), and the certificates of    *)
(* contacts both depend on (core/src/bitmail.cpp, qt/mainwindow.cpp).      *)
(*                                                                         *)
(* A session is named by the set of its members' addresses, each put       *)
(* through decodeReceips, which lowers capitals and erases characters such *)
(* as - and +; a certificate is filed under the address that stands in it. *)
(* Norm says what becomes of an address, Owner whose mailbox a mail server *)
(* takes an address for.  The queue between the threads (TxQueue), the     *)
(* inbox (MailRx) and the profile (Profile) have modules of their own:     *)
(* here a message queued is sent, one sent arrives, everyone has a key, and*)
(* a system tray, without which the first message kills the process (see   *)
(* Shutdown).                                                              *)
(***************************************************************************)
EXTENDS Naturals, Sequences, FiniteSets

CONSTANTS Users, Nobody,
          Names,     (* addresses                                           *)
          Addr,      (* the address in each user's certificate              *)
          Norm,      (* decodeReceips of each address                       *)
          Owner,     (* the user whose mailbox each address means           *)
          MaxMsgs,   (* bound: messages sent in a behaviour                 *)
          MaxGroup   (* bound: members of a session                         *)

ASSUME ChatAssumption ==
  /\ Nobody \notin Users
  /\ Addr \in [Users -> Names] /\ Norm \in [Names -> Names]
  /\ Owner \in [Names -> Users \cup {Nobody}]
  /\ \A n \in Names : Norm[Norm[n]] = Norm[n]
  /\ \A u \in Users : Owner[Addr[u]] = u
  /\ MaxMsgs \in Nat /\ MaxGroup \in Nat

Normal   == {Norm[n] : n \in Names}
Sessions == {key \in SUBSET Normal : key # {} /\ Cardinality(key) <= MaxGroup}
Policies == {"all", "noEnvelop", "noFriend"}

VARIABLES
  cert,     (* cert[u][n]: whose certificate u has on file under n          *)
  policy,   (* what u's client refuses: nothing, what is not sealed, or     *)
            (* what no friend sealed                                        *)
  outbox,   (* what u wrote and the transmit thread has not taken           *)
  enc,      (* what the transmit thread is encrypting: none or one          *)
  mail,     (* messages on their way to u                                   *)
  signals,  (* messages posted to u's window                                *)
  shown,    (* messages in u's sessions                                     *)
  (* history *)
  written,  (* how many messages were written                               *)
  sent      (* messages handed to the mail server                           *)

vars == <<cert, policy, outbox, enc, mail, signals, shown, written, sent>>

Init ==
  /\ cert = [u \in Users |-> [n \in Names |-> Nobody]]
  /\ policy \in [Users -> Policies]
  /\ outbox = [u \in Users |-> <<>>] /\ enc = [u \in Users |-> <<>>]
  /\ mail = [u \in Users |-> {}] /\ signals = [u \in Users |-> <<>>]
  /\ shown = [u \in Users |-> {}]
  /\ written = 0 /\ sent = {}

(* The users u has made friends whose session name is in key: their         *)
(* certificates are on file under the addresses in them.                    *)
Friends(u, key) ==
  {v \in Users : Norm[Addr[v]] \in key /\ cert[u][Addr[v]] = v}
-----------------------------------------------------------------------------
(* Mutated forms of steps below, each a bug somebody could make there; they *)
(* take no part in the specification.                                       *)

(* The loop ends at the first member without a certificate.                 *)
EncryptLookupStops(u, n) ==
  /\ enc[u] # <<>> /\ n \in enc[u][1].left
  /\ LET job == enc[u][1]
     IN enc' = [enc EXCEPT ![u] =
          <<[msg |-> job.msg,
             left |-> IF cert[u][n] = Nobody THEN {} ELSE job.left \ {n},
             vecTo |-> job.vecTo \cup ({cert[u][n]} \ {Nobody})]>>]
  /\ UNCHANGED <<cert, policy, outbox, mail, signals, shown, written, sent>>

(* The session is always that of the addressees.                            *)
SessionKeyOfTo(m) == m.to
-----------------------------------------------------------------------------
(* Writing and sending.                                                     *)

(* SendTo, with signOnly for an invitation.  "due" is history: the friends  *)
(* the writer could count on, as long as their contacts are not removed.    *)
SendTo(u, key, signOnly) ==
  /\ written < MaxMsgs
  /\ written' = written + 1
  /\ outbox' = [outbox EXCEPT ![u] =
       Append(@, [id |-> written', from |-> u, to |-> key,
                  signOnly |-> signOnly, due |-> Friends(u, key)])]
  /\ UNCHANGED <<cert, policy, enc, mail, signals, shown, sent>>

(* Tx: pop, and Encrypt signs.                                              *)
EncryptSign(u) ==
  /\ enc[u] = <<>> /\ outbox[u] # <<>>
  /\ LET m == Head(outbox[u])
     IN enc' = [enc EXCEPT ![u] =
          <<[msg |-> m, left |-> IF m.signOnly THEN {} ELSE m.to,
             vecTo |-> {}]>>]
  /\ outbox' = [outbox EXCEPT ![u] = Tail(@)]
  /\ UNCHANGED <<cert, policy, mail, signals, shown, written, sent>>

(* MEncrypt: whom a message sealed with these certificates and the sender's *)
(* own is for.                                                              *)
MEncrypt(u, vecTo) == vecTo \cup {u}

(* One turn of Encrypt's loop: a locked look at the contacts.               *)
EncryptLookup(u, n) ==
  /\ enc[u] # <<>> /\ n \in enc[u][1].left
  /\ LET job == enc[u][1]
     IN enc' = [enc EXCEPT ![u] =
          <<[msg |-> job.msg, left |-> job.left \ {n},
             vecTo |-> job.vecTo \cup ({cert[u][n]} \ {Nobody})]>>]
  /\ UNCHANGED <<cert, policy, outbox, mail, signals, shown, written, sent>>

(* The rest of Encrypt and Tx: with no certificate the message goes out     *)
(* signed only; otherwise it is sealed for those found and for the sender.  *)
Transmit(u) ==
  /\ enc[u] # <<>> /\ enc[u][1].left = {}
  /\ LET found  == enc[u][1].vecTo
         sealed == found # {}
         m == [id |-> enc[u][1].msg.id, from |-> u, to |-> enc[u][1].msg.to,
               signOnly |-> enc[u][1].msg.signOnly, due |-> enc[u][1].msg.due,
               sealed |-> sealed,
               for |-> IF sealed THEN MEncrypt(u, found) ELSE {}]
     IN /\ sent' = sent \cup {m}
        /\ mail' = [v \in Users |-> IF v \in {Owner[n] : n \in m.to}
                                      THEN mail[v] \cup {m} ELSE mail[v]]
  /\ enc' = [enc EXCEPT ![u] = <<>>]
  /\ UNCHANGED <<cert, policy, outbox, signals, shown, written>>
-----------------------------------------------------------------------------
(* Receiving.                                                               *)

(* Decrypt of a message by u's key; a signature is then verified with the   *)
(* certificate it carries, and always stands.                               *)
Decrypts(u, m) == m.sealed => u \in m.for

(* EmailHandler: a message sealed for others is gone.                       *)
EmailHandler(u, m) ==
  /\ m \in mail[u]
  /\ mail' = [mail EXCEPT ![u] = @ \ {m}]
  /\ signals' = IF Decrypts(u, m) THEN [signals EXCEPT ![u] = Append(@, m)]
                                 ELSE signals
  /\ UNCHANGED <<cert, policy, outbox, enc, shown, written, sent>>

(* The part of onNewMessage that discards: an echo of what one said in a    *)
(* group, and what the block settings refuse.                               *)
Refused(u, m) ==
  \/ Cardinality(m.to) > 1 /\ m.from = u
  \/ policy[u] = "noEnvelop" /\ ~m.sealed
  \/ policy[u] = "noFriend" /\ (~m.sealed \/ cert[u][Addr[m.from]] # m.from)

(* The session onNewMessage files a message under.                          *)
SessionKey(m) == IF Cardinality(m.to) > 1 THEN m.to ELSE {Norm[Addr[m.from]]}

OnNewMessage(u) ==
  /\ signals[u] # <<>>
  /\ signals' = [signals EXCEPT ![u] = Tail(@)]
  /\ LET m == Head(signals[u])
         s == [key |-> SessionKey(m), msg |-> m]
     IN shown' = IF Refused(u, m) THEN shown
                   ELSE [shown EXCEPT ![u] = @ \cup {s}]
  /\ UNCHANGED <<cert, policy, outbox, enc, mail, written, sent>>
-----------------------------------------------------------------------------
(* Contacts.                                                                *)

(* contattrib and removeContact: the certificate on file under a name.      *)
File(u, n, v)  == cert' = [cert EXCEPT ![u][n] = v]
Unfile(u, n)   == cert' = [cert EXCEPT ![u][n] = Nobody]

(* MessageDialog: the signer of a message shown becomes a friend, filed     *)
(* under the address in the certificate as it stands.                       *)
MakeFriend(u, v) ==
  /\ \E s \in shown[u] : s.msg.from = v
  /\ cert[u][Addr[v]] # v
  /\ File(u, Addr[v], v)
  /\ UNCHANGED <<policy, outbox, enc, mail, signals, shown, written, sent>>

(* CertDialog: the contact of a session of one is removed.  Who is still to *)
(* be encrypted for is not due any more.                                    *)
RemoveContact(u, n) ==
  /\ n \in Normal /\ cert[u][n] # Nobody
  /\ LET Forget(m) == [m EXCEPT !.due = m.due \ {cert[u][n]}]
         job == enc[u][1]
     IN /\ outbox' = [outbox EXCEPT ![u] =
                        [i \in DOMAIN outbox[u] |-> Forget(outbox[u][i])]]
        /\ enc' = IF enc[u] = <<>> THEN enc
                    ELSE [enc EXCEPT ![u] =
                           <<[msg |-> Forget(job.msg), left |-> job.left,
                              vecTo |-> job.vecTo]>>]
  /\ Unfile(u, n)
  /\ UNCHANGED <<policy, mail, signals, shown, written, sent>>
-----------------------------------------------------------------------------
(* Everything the bounds allow was sent and has arrived.                    *)
Quiet == /\ written = MaxMsgs
         /\ \A u \in Users : /\ outbox[u] = <<>> /\ enc[u] = <<>>
                             /\ mail[u] = {} /\ signals[u] = <<>>

Terminated == Quiet /\ UNCHANGED vars

Next ==
  \/ \E u \in Users :
       \/ \E key \in Sessions, signOnly \in BOOLEAN : SendTo(u, key, signOnly)
       \/ EncryptSign(u) \/ Transmit(u) \/ OnNewMessage(u)
       \/ \E n \in Names : EncryptLookup(u, n) \/ RemoveContact(u, n)
       \/ \E m \in mail[u] : EmailHandler(u, m)
       \/ \E v \in Users : MakeFriend(u, v)
  \/ Terminated

Spec == Init /\ [][Next]_vars
-----------------------------------------------------------------------------
(* Properties.                                                              *)

Message == [id : 1 .. MaxMsgs, from : Users, to : Sessions, signOnly : BOOLEAN,
            due : SUBSET Users, sealed : BOOLEAN, for : SUBSET Users]
Draft   == [id : 1 .. MaxMsgs, from : Users, to : Sessions, signOnly : BOOLEAN,
            due : SUBSET Users]

TypeOK ==
  /\ cert \in [Users -> [Names -> Users \cup {Nobody}]]
  /\ policy \in [Users -> Policies]
  /\ \A u \in Users :
       /\ \A i \in DOMAIN outbox[u] : outbox[u][i] \in Draft
       /\ \A i \in DOMAIN enc[u] : enc[u][i] \in
            [msg : Draft, left : SUBSET Normal, vecTo : SUBSET Users]
       /\ mail[u] \subseteq Message
       /\ \A i \in DOMAIN signals[u] : signals[u][i] \in Message
       /\ shown[u] \subseteq [key : Sessions, msg : Message]
  /\ written \in 0 .. MaxMsgs /\ sent \subseteq Message

(* A message, other than an invitation, is sealed for every member of its   *)
(* session whom the writer had made a friend when writing it and did not    *)
(* remove before the transmit thread got to it -- if decodeReceips leaves   *)
(* the friend's address as it is; else the certificate is never found.      *)
SealedForFriends ==
  \A m \in sent : ~m.signOnly =>
    \A v \in m.due : v \in m.for \/ Norm[Addr[v]] # Addr[v]

(* An answer in the session a message is shown in reaches its sender, if    *)
(* the sender's address still means the sender once normalised, and, in a   *)
(* group, the sender counted itself among the members.                      *)
AnswersReachSender ==
  \A u \in Users : \A s \in shown[u] :
    LET v == s.msg.from
    IN \/ v \in {Owner[n] : n \in s.key}
       \/ Owner[Norm[Addr[v]]] # v
       \/ Cardinality(s.key) > 1 /\ Norm[Addr[v]] \notin s.msg.to

(* README.md of the repository promises "secure talking with trusted        *)
(* friends": without the exception of SealedForFriends.                     *)
TrustedFriendsSealed ==
  \A m \in sent : ~m.signOnly => m.due \subseteq m.for

(* What Encrypt says of itself: a group message is encrypted before it is   *)
(* sent out.                                                                *)
GroupMsgEncrypted ==
  \A m \in sent : Cardinality(m.to) > 1 /\ ~m.signOnly => m.sealed
=============================================================================
