---------------------------- MODULE Sessions_proofs ----------------------------
(***************************************************************************)
(* Proofs about Sessions, for any addresses and any bounds.                *)
(*                                                                         *)
(* The properties of the window need each other: the messages shown are    *)
(* the current session's because a leaf that is taken away is current no   *)
(* more, and what was received keeps its leaf because the leaf can be      *)
(* rebuilt from a contact.  The invariant adds the contact to the leaf     *)
(* that ReceivedIsListed asks for, and what each dialog was opened for.    *)
(***************************************************************************)
EXTENDS Sessions, TLAPS, FiniteSetTheorems, SequenceTheorems

Message == [id : Nat, from : Names, to : Keys]

Types ==
  /\ contacts \subseteq Contacts
  /\ friends \subseteq Contacts \cup {{}} /\ groups \subseteq Contacts \cup {{}}
  /\ current \in friends \cup groups \cup {Nothing}
  /\ msgQ \in [Keys -> Seq(Message)] /\ view \in Seq(Message)
  /\ count \in [msgs : Nat, helpers : Nat]
  /\ helpers \subseteq [id : Nat, key : Keys]

(* What a dialog was opened for.                                            *)
Dialogs ==
  /\ dialog[1] \in {Nothing, "files", "cert", "group", "message"}
  /\ dialog[1] = "files"   => dialog[2] = CurrentKey
  /\ dialog[1] = "cert"    => dialog[2] \in Keys \ (Groups \cup {{}})
  /\ dialog[1] = "group"   => dialog[2] \in Groups
  /\ dialog[1] = "message" => dialog[2] \in Message

(* Friends hang below one node, groups below the other.                     *)
Nodes == /\ \A c \in friends : SessionKey(c) \notin Groups
         /\ \A c \in groups : SessionKey(c) \in Groups

(* A session in which somebody else was heard has a leaf, and a contact to  *)
(* make the leaf from, until the user removes it.                           *)
Heard(k) == \E i \in DOMAIN msgQ[k] : msgQ[k][i].from # Self
Listed(k) == /\ HasLeaf(friends \cup groups, k)
             /\ HasLeaf(contacts, k)
HeardIsListed == \A k \in Keys : Heard(k) => k # {} /\ (k \in removed \/ Listed(k))

SentTypes == sent \subseteq [id : Nat, key : Keys, meant : Keys]

Inv == /\ Types /\ Dialogs /\ Nodes /\ ViewIsCurrent /\ TreeMatchesContacts
       /\ HeardIsListed /\ SentTypes /\ SentWhereMeant
-----------------------------------------------------------------------------
(* Names of sessions.                                                       *)

LEMMA KeyFacts ==
  ASSUME NEW k \in Keys
  PROVE  /\ k \in SUBSET Names /\ k # Nothing /\ SessionKey(k) = k
         /\ k \in Groups <=> ~(Cardinality(k) <= 1)
         /\ k \notin Groups /\ k # {} => k \in Single
<1>1. /\ Norm \in [Names -> Names] /\ \A n \in Names : Norm[Norm[n]] = Norm[n]
      /\ IsFiniteSet(Names) /\ \A s \in SUBSET Names : s # Nothing
  BY SessionsAssumption DEF SessionsAssumption
<1>2. k \in SUBSET {Norm[n] : n \in Names}
  BY DEF Keys
<1>3. k \in SUBSET Names
  BY <1>1, <1>2
<1>4. \A n \in k : Norm[n] = n
  BY <1>1, <1>2
<1>5. SessionKey(k) = k
  BY <1>4 DEF SessionKey
<1>6. Cardinality(k) \in Nat
  BY <1>1, <1>3, FS_Subset, FS_CardinalityType
<1>7. k \in Groups <=> ~(Cardinality(k) <= 1)
  BY <1>6 DEF Groups
<1>8. k \notin Groups /\ k # {} => k \in Single
  <2>1. k # {} => Cardinality(k) # 0
    BY <1>1, <1>3, FS_Subset, FS_EmptySet
  <2> QED BY <1>6, <1>7, <2>1 DEF Single
<1> QED BY <1>1, <1>3, <1>5, <1>7, <1>8

LEMMA NameFacts ==
  ASSUME NEW n \in Names
  PROVE  /\ {n} \in Contacts /\ SessionKey({n}) = {Norm[n]}
         /\ {Norm[n]} \in Keys /\ {Norm[n]} \notin Groups
<1>1. Cardinality({Norm[n]}) = 1
  BY FS_Singleton
<1>2. {Norm[n]} \in Keys
  BY <1>1, SessionsAssumption DEF Keys, SessionsAssumption
<1>3. {Norm[n]} \notin Groups
  BY <1>1 DEF Groups
<1>4. SessionKey({n}) = {Norm[n]}
  BY DEF SessionKey
<1> QED BY <1>2, <1>3, <1>4 DEF Contacts

LEMMA ContactFacts ==
  /\ {} \in Keys /\ {} \notin Groups
  /\ \A c \in Contacts \cup {{}} : SessionKey(c) \in Keys /\ c # Nothing
  /\ {} \notin Contacts /\ \A c \in Contacts : SessionKey(c) # {}
<1>1. {} \in Keys /\ {} \notin Groups
  BY FS_EmptySet, SessionsAssumption DEF Keys, Groups, SessionsAssumption
<1>2. ASSUME NEW c \in Contacts
      PROVE  SessionKey(c) \in Keys \ {{}} /\ c # {} /\ c # Nothing
  <2>1. CASE c \in Keys \ {{}}
    BY <2>1, KeyFacts
  <2>2. CASE \E n \in Names : c = {n}
    <3>1. PICK n \in Names : c = {n}
      BY <2>2
    <3>2. c \in SUBSET Names
      BY <3>1
    <3> QED BY <3>1, <3>2, NameFacts, SessionsAssumption DEF SessionsAssumption
  <2> QED BY <2>1, <2>2 DEF Contacts
<1>3. SessionKey({}) \in Keys /\ {} # Nothing
  BY <1>1, KeyFacts
<1> QED BY <1>1, <1>2, <1>3

LEMMA GroupFacts ==
  ASSUME NEW k \in Groups
  PROVE  k \in Keys /\ k # {} /\ k \notin Single
<1>1. k \in Keys /\ Cardinality(k) > 1
  BY DEF Groups
<1>2. k # {}
  BY ContactFacts
<1>3. Cardinality(k) # 1
  BY <1>1
<1> QED BY <1>1, <1>2, <1>3 DEF Single

(* populateFriendTree and populateGroupTree divide the contacts.            *)
LEMMA LeavesOf ==
  ASSUME NEW book \in SUBSET Contacts
  PROVE  /\ FriendLeaves(book) = {c \in book : SessionKey(c) \notin Groups}
         /\ GroupLeaves(book)  = {c \in book : SessionKey(c) \in Groups}
<1>1. \A c \in book : SessionKey(c) \in Keys
  BY ContactFacts
<1>2. \A c \in book : SessionKey(c) \in Groups <=> ~(Cardinality(SessionKey(c)) <= 1)
  BY <1>1, KeyFacts
<1>3. \A c \in book : SessionKey(c) \in Groups <=> Cardinality(SessionKey(c)) > 1
  BY <1>1 DEF Groups
<1> QED BY <1>2, <1>3 DEF FriendLeaves, GroupLeaves

LEMMA CurrentKeyType == ASSUME Types PROVE CurrentKey \in Keys
BY ContactFacts DEF Types, CurrentKey
-----------------------------------------------------------------------------
(* A message more.                                                          *)

LEMMA OneMore ==
  ASSUME NEW c \in [msgs : Nat, helpers : Nat]
  PROVE  /\ [c EXCEPT !.msgs = @ + 1] \in [msgs : Nat, helpers : Nat]
         /\ [c EXCEPT !.helpers = @ + 1] \in [msgs : Nat, helpers : Nat]
<1>1. [c EXCEPT !.msgs = @ + 1] = [msgs |-> c.msgs + 1, helpers |-> c.helpers]
  OBVIOUS
<1>2. [c EXCEPT !.helpers = @ + 1] = [msgs |-> c.msgs, helpers |-> c.helpers + 1]
  OBVIOUS
<1>3. c.msgs + 1 \in Nat /\ c.helpers + 1 \in Nat
  OBVIOUS
<1> QED BY <1>1, <1>2, <1>3

LEMMA Enqueued ==
  ASSUME Inv, NEW k \in Keys, NEW from \in Names, NEW to \in Keys,
         Enqueue(k, from, to), current' = current
  PROVE  /\ msgQ' \in [Keys -> Seq(Message)] /\ view' \in Seq(Message)
         /\ count' \in [msgs : Nat, helpers : Nat]
         /\ ViewIsCurrent'
         /\ \A key \in Keys \ {k} : msgQ'[key] = msgQ[key]
         /\ \A i \in DOMAIN msgQ[k] : i \in DOMAIN msgQ'[k]
                                      /\ msgQ'[k][i] = msgQ[k][i]
         /\ \A i \in DOMAIN msgQ'[k] : i \notin DOMAIN msgQ[k]
                                       => msgQ'[k][i].from = from
         /\ \E i \in DOMAIN msgQ'[k] : msgQ'[k][i].id = count.msgs + 1
<1> DEFINE m == [id |-> count.msgs + 1, from |-> from, to |-> to]
<1>1. /\ msgQ \in [Keys -> Seq(Message)] /\ view \in Seq(Message)
      /\ count \in [msgs : Nat, helpers : Nat] /\ ViewIsCurrent
      /\ CurrentKey \in Keys
  BY CurrentKeyType DEF Inv, Types
<1>2. /\ count' = [count EXCEPT !.msgs = @ + 1]
      /\ msgQ' = [msgQ EXCEPT ![k] = Append(@, m)]
      /\ view' = IF k # {} /\ k = CurrentKey THEN msgQ'[k] ELSE view
  BY DEF Enqueue, Refresh
<1>3. m \in Message /\ m.from = from /\ m.id = count.msgs + 1
  BY <1>1 DEF Message
<1> HIDE DEF m
<1>4. /\ msgQ' \in [Keys -> Seq(Message)] /\ msgQ'[k] = Append(msgQ[k], m)
      /\ \A key \in Keys \ {k} : msgQ'[key] = msgQ[key]
  BY <1>1, <1>2, <1>3
<1>5. /\ msgQ[k] \in Seq(Message) /\ Len(msgQ[k]) \in Nat
      /\ DOMAIN msgQ[k] = 1 .. Len(msgQ[k])
      /\ DOMAIN msgQ'[k] = 1 .. Len(msgQ[k]) + 1
      /\ \A i \in 1 .. Len(msgQ[k]) : msgQ'[k][i] = msgQ[k][i]
      /\ msgQ'[k][Len(msgQ[k]) + 1] = m
  BY <1>1, <1>3, <1>4
<1>6. CurrentKey' = CurrentKey
  BY DEF CurrentKey
<1>7. ViewIsCurrent'
  BY <1>1, <1>2, <1>4, <1>6 DEF ViewIsCurrent
<1>8. view' \in Seq(Message) /\ count' \in [msgs : Nat, helpers : Nat]
  <2>1. msgQ'[k] \in Seq(Message)
    BY <1>4
  <2>2. view' \in Seq(Message)
    BY <1>1, <1>2, <2>1
  <2>3. count' \in [msgs : Nat, helpers : Nat]
    BY <1>1, <1>2, OneMore
  <2> QED BY <2>2, <2>3
<1>9. \A i \in DOMAIN msgQ'[k] : i \notin DOMAIN msgQ[k] => msgQ'[k][i].from = from
  BY <1>3, <1>5
<1>10. \E i \in DOMAIN msgQ'[k] : msgQ'[k][i].id = count.msgs + 1
  BY <1>3, <1>5
<1>11. \A i \in DOMAIN msgQ[k] : i \in DOMAIN msgQ'[k]
                                  /\ msgQ'[k][i] = msgQ[k][i]
  BY <1>5
<1> HIDE DEF Types
<1> QED BY <1>4, <1>7, <1>8, <1>9, <1>10, <1>11, Zenon

(* What stays of Inv's parts about messages when one is added.              *)
LEMMA EnqueuedSent ==
  ASSUME Inv, NEW k \in Keys, NEW from \in Names, NEW to \in Keys,
         Enqueue(k, from, to), current' = current, sent' = sent
  PROVE  SentTypes' /\ SentWhereMeant'
<1>1. SentTypes /\ SentWhereMeant
  BY DEF Inv
<1>2. /\ \A key \in Keys \ {k} : msgQ'[key] = msgQ[key]
      /\ \A i \in DOMAIN msgQ[k] : i \in DOMAIN msgQ'[k]
                                   /\ msgQ'[k][i] = msgQ[k][i]
  BY Enqueued
<1>3. ASSUME NEW m \in sent
      PROVE  m.key = m.meant
             /\ \E i \in DOMAIN msgQ'[m.key] : msgQ'[m.key][i].id = m.id
  <2>1. m.key \in Keys /\ m.key = m.meant
    BY <1>1 DEF SentTypes, SentWhereMeant
  <2>2. PICK i \in DOMAIN msgQ[m.key] : msgQ[m.key][i].id = m.id
    BY <1>1 DEF SentWhereMeant
  <2>3. i \in DOMAIN msgQ'[m.key] /\ msgQ'[m.key][i] = msgQ[m.key][i]
    BY <1>2, <2>1, <2>2
  <2> QED BY <2>1, <2>2, <2>3
<1> QED BY <1>1, <1>3 DEF SentTypes, SentWhereMeant

(* SendTo, to the session that was meant.                                   *)
LEMMA Sending ==
  ASSUME Inv, NEW k \in Keys, SendTo(k, k), current' = current
  PROVE  /\ msgQ' \in [Keys -> Seq(Message)] /\ view' \in Seq(Message)
         /\ count' \in [msgs : Nat, helpers : Nat]
         /\ ViewIsCurrent' /\ SentTypes' /\ SentWhereMeant'
         /\ \A key \in Keys : Heard(key)' => Heard(key)
<1>1. CASE k = {}
  <2>1. UNCHANGED <<msgQ, view, count, sent>>
    BY <1>1 DEF SendTo
  <2> QED BY <2>1 DEF Inv, Types, ViewIsCurrent, CurrentKey, SentTypes,
                      SentWhereMeant, Heard
<1>2. CASE k # {}
  <2> DEFINE s == [id |-> count.msgs + 1, key |-> k, meant |-> k]
  <2>1. Enqueue(k, Self, k) /\ sent' = sent \cup {s}
    BY <1>2 DEF SendTo
  <2>2. Self \in Names
    BY SessionsAssumption DEF SessionsAssumption
  <2>3. /\ msgQ' \in [Keys -> Seq(Message)] /\ view' \in Seq(Message)
        /\ count' \in [msgs : Nat, helpers : Nat]
        /\ ViewIsCurrent'
        /\ \A key \in Keys \ {k} : msgQ'[key] = msgQ[key]
        /\ \A i \in DOMAIN msgQ[k] : i \in DOMAIN msgQ'[k]
                                     /\ msgQ'[k][i] = msgQ[k][i]
        /\ \A i \in DOMAIN msgQ'[k] : i \notin DOMAIN msgQ[k]
                                      => msgQ'[k][i].from = Self
        /\ \E i \in DOMAIN msgQ'[k] : msgQ'[k][i].id = count.msgs + 1
    BY <2>1, <2>2, Enqueued
  <2>4. s \in [id : Nat, key : Keys, meant : Keys]
    BY DEF Inv, Types
  <2>5. SentTypes'
    BY <2>1, <2>4 DEF Inv, SentTypes
  <2>6. SentWhereMeant'
    <3> SUFFICES ASSUME NEW m \in sent'
                 PROVE  m.key = m.meant
                        /\ \E i \in DOMAIN msgQ'[m.key] : msgQ'[m.key][i].id = m.id
      BY DEF SentWhereMeant
    <3>1. CASE m = s
      BY <2>3, <3>1
    <3>2. CASE m \in sent
      <4>1. m.key \in Keys /\ m.key = m.meant
        BY <3>2 DEF Inv, SentTypes, SentWhereMeant
      <4>2. PICK i \in DOMAIN msgQ[m.key] : msgQ[m.key][i].id = m.id
        BY <3>2 DEF Inv, SentWhereMeant
      <4>3. i \in DOMAIN msgQ'[m.key] /\ msgQ'[m.key][i] = msgQ[m.key][i]
        BY <2>3, <4>1, <4>2
      <4> QED BY <4>1, <4>2, <4>3
    <3> QED BY <2>1, <3>1, <3>2
  <2>7. ASSUME NEW key \in Keys, Heard(key)' PROVE Heard(key)
    <3>1. PICK i \in DOMAIN msgQ'[key] : msgQ'[key][i].from # Self
      BY <2>7 DEF Heard
    <3>2. i \in DOMAIN msgQ[key] /\ msgQ'[key][i] = msgQ[key][i]
      BY <2>3, <3>1
    <3> QED BY <3>1, <3>2 DEF Heard
  <2> QED BY <2>3, <2>5, <2>6, <2>7
<1> QED BY <1>1, <1>2
-----------------------------------------------------------------------------
(* A leaf more.                                                             *)

(* AddLeaf and AddContact of one session: nothing listed is lost, and the   *)
(* session itself is listed.                                                *)
LEMMA Added ==
  ASSUME Inv, NEW k \in Keys, AddLeaf(k), AddContact(k), shrunk' = shrunk
  PROVE  /\ contacts' \subseteq Contacts
         /\ friends' \subseteq Contacts \cup {{}}
         /\ groups' \subseteq Contacts \cup {{}}
         /\ current' \in friends' \cup groups' \cup {Nothing}
         /\ current' = current /\ Nodes' /\ TreeMatchesContacts'
         /\ \A key \in Keys : Listed(key) => Listed(key)'
         /\ k # {} => Listed(k)'
<1>1. /\ contacts \subseteq Contacts /\ friends \subseteq Contacts \cup {{}}
      /\ groups \subseteq Contacts \cup {{}} /\ Nodes /\ TreeMatchesContacts
      /\ current \in friends \cup groups \cup {Nothing}
  BY DEF Inv, Types
<1>2. SessionKey(k) = k /\ (k # {} => k \in Contacts)
  BY KeyFacts DEF Contacts
<1>3. /\ friends' = IF k \in Groups \/ HasLeaf(friends, k) THEN friends
                      ELSE friends \cup {k}
      /\ groups' = IF k \notin Groups \/ HasLeaf(groups, k) THEN groups
                     ELSE groups \cup {k}
      /\ current' = current
      /\ contacts' = IF k = {} THEN contacts ELSE contacts \cup {k}
  BY DEF AddLeaf, AddContact
<1>4. /\ friends \subseteq friends' /\ friends' \subseteq friends \cup {k}
      /\ groups \subseteq groups' /\ groups' \subseteq groups \cup {k}
      /\ contacts \subseteq contacts'
      /\ contacts' = contacts \cup ({k} \ {{}})
  BY <1>3
<1>5. /\ contacts' \subseteq Contacts /\ friends' \subseteq Contacts \cup {{}}
      /\ groups' \subseteq Contacts \cup {{}}
      /\ current' \in friends' \cup groups' \cup {Nothing}
  BY <1>1, <1>2, <1>3, <1>4
<1>6. Nodes'
  BY <1>1, <1>2, <1>3 DEF Nodes
<1>7. HasLeaf(friends' \cup groups', k)
  BY <1>2, <1>3 DEF HasLeaf
<1>8. \A key : HasLeaf(friends \cup groups, key) => HasLeaf(friends' \cup groups', key)
  BY <1>4 DEF HasLeaf
<1>9. TreeMatchesContacts'
  <2>1. (friends' \cup groups') \ {{}} \subseteq contacts'
    BY <1>1, <1>4 DEF TreeMatchesContacts
  <2>2. \A c \in contacts' : HasLeaf(friends' \cup groups', SessionKey(c))
                             \/ SessionKey(c) \in shrunk'
    BY <1>1, <1>2, <1>4, <1>7, <1>8 DEF TreeMatchesContacts
  <2> QED BY <2>1, <2>2 DEF TreeMatchesContacts
<1>10. \A key \in Keys : Listed(key) => Listed(key)'
  BY <1>4, <1>8 DEF Listed, HasLeaf
<1>11. k # {} => Listed(k)'
  BY <1>2, <1>4, <1>7 DEF Listed, HasLeaf
<1> QED BY <1>3, <1>5, <1>6, <1>9, <1>10, <1>11
-----------------------------------------------------------------------------
(* A node built anew.                                                       *)

LEMMA Left ==
  ASSUME Types, ViewIsCurrent, NEW node \in SUBSET (friends \cup groups),
         Leave(node), msgQ' = msgQ
  PROVE  /\ view' \in Seq(Message) /\ ViewIsCurrent'
         /\ current' = IF current \in node THEN Nothing ELSE current
<1>1. CASE current \in node
  <2>1. /\ current' = Nothing
        /\ view' \in {view} \cup {msgQ[SessionKey(c)] : c \in node}
    BY <1>1 DEF Leave
  <2>2. \A c \in node : SessionKey(c) \in Keys
    BY ContactFacts DEF Types
  <2>3. view' \in Seq(Message)
    BY <2>1, <2>2 DEF Types
  <2>4. ViewIsCurrent'
    BY <2>1 DEF ViewIsCurrent, CurrentKey
  <2> QED BY <1>1, <2>1, <2>3, <2>4
<1>2. CASE current \notin node
  <2>1. UNCHANGED <<current, view>>
    BY <1>2 DEF Leave
  <2> QED BY <1>2, <2>1 DEF Types, ViewIsCurrent, CurrentKey
<1> QED BY <1>1, <1>2

(* populateFriendTree after a change of contacts that are no groups.        *)
LEMMA FriendsBuilt ==
  ASSUME Inv, PopulateFriends, contacts' \in SUBSET Contacts,
         \A c : SessionKey(c) \in Groups => (c \in contacts' <=> c \in contacts),
         UNCHANGED <<msgQ, shrunk>>
  PROVE  /\ friends' \subseteq Contacts \cup {{}}
         /\ groups' \subseteq Contacts \cup {{}}
         /\ current' \in friends' \cup groups' \cup {Nothing}
         /\ view' \in Seq(Message) /\ ViewIsCurrent'
         /\ Nodes' /\ TreeMatchesContacts'
         /\ \A key \in Keys : Listed(key) /\ HasLeaf(contacts', key) => Listed(key)'
         /\ \A key \in Keys \ Groups : HasLeaf(contacts', key) => Listed(key)'
<1>1. /\ contacts \subseteq Contacts /\ friends \subseteq Contacts \cup {{}}
      /\ groups \subseteq Contacts \cup {{}} /\ Nodes /\ TreeMatchesContacts
      /\ current \in friends \cup groups \cup {Nothing}
      /\ Types /\ ViewIsCurrent
  BY DEF Inv, Types
<1>2. /\ friends' = {c \in contacts' : SessionKey(c) \notin Groups}
      /\ groups' = groups /\ Leave(friends)
  BY LeavesOf DEF PopulateFriends
<1>3. /\ view' \in Seq(Message) /\ ViewIsCurrent'
      /\ current' = IF current \in friends THEN Nothing ELSE current
  BY <1>1, <1>2, Left
<1>4. /\ friends' \subseteq Contacts \cup {{}} /\ groups' \subseteq Contacts \cup {{}}
      /\ current' \in friends' \cup groups' \cup {Nothing}
  BY <1>1, <1>2, <1>3
<1>5. Nodes'
  BY <1>1, <1>2 DEF Nodes
<1>6. \A key : HasLeaf(friends \cup groups, key) /\ key \in Groups
                 => HasLeaf(friends' \cup groups', key)
  BY <1>1, <1>2 DEF HasLeaf, Nodes
<1>7. \A key : HasLeaf(contacts', key) /\ key \notin Groups
                 => HasLeaf(friends' \cup groups', key)
  BY <1>2 DEF HasLeaf
<1>8. TreeMatchesContacts'
  <2>1. (friends' \cup groups') \ {{}} \subseteq contacts'
    BY <1>1, <1>2 DEF TreeMatchesContacts, Nodes
  <2>2. ASSUME NEW c \in contacts'
        PROVE  HasLeaf(friends' \cup groups', SessionKey(c))
               \/ SessionKey(c) \in shrunk'
    <3>1. CASE SessionKey(c) \in Groups
      BY <1>1, <1>6, <3>1 DEF TreeMatchesContacts
    <3>2. CASE SessionKey(c) \notin Groups
      BY <1>2, <3>2 DEF HasLeaf
    <3> QED BY <3>1, <3>2
  <2> QED BY <2>1, <2>2 DEF TreeMatchesContacts
<1>9. \A key \in Keys : Listed(key) /\ HasLeaf(contacts', key) => Listed(key)'
  BY <1>6, <1>7 DEF Listed, HasLeaf
<1>10. \A key \in Keys \ Groups : HasLeaf(contacts', key) => Listed(key)'
  BY <1>7 DEF Listed, HasLeaf
<1> QED BY <1>3, <1>4, <1>5, <1>8, <1>9, <1>10

(* populateGroupTree after a change of contacts that are groups; another    *)
(* contact may have come that a group was cut down to.                      *)
LEMMA GroupsBuilt ==
  ASSUME Inv, PopulateGroups, contacts' \in SUBSET Contacts,
         \A c : SessionKey(c) \notin Groups =>
           /\ c \in contacts => c \in contacts'
           /\ c \in contacts' => c \in contacts \/ SessionKey(c) \in shrunk',
         msgQ' = msgQ, shrunk \subseteq shrunk'
  PROVE  /\ friends' \subseteq Contacts \cup {{}}
         /\ groups' \subseteq Contacts \cup {{}}
         /\ current' \in friends' \cup groups' \cup {Nothing}
         /\ view' \in Seq(Message) /\ ViewIsCurrent'
         /\ Nodes' /\ TreeMatchesContacts'
         /\ \A key \in Keys : Listed(key) /\ HasLeaf(contacts', key) => Listed(key)'
         /\ \A key \in Groups : HasLeaf(contacts', key) => Listed(key)'
<1>1. /\ contacts \subseteq Contacts /\ friends \subseteq Contacts \cup {{}}
      /\ groups \subseteq Contacts \cup {{}} /\ Nodes /\ TreeMatchesContacts
      /\ current \in friends \cup groups \cup {Nothing}
      /\ Types /\ ViewIsCurrent
  BY DEF Inv, Types
<1>2. /\ groups' = {c \in contacts' : SessionKey(c) \in Groups}
      /\ friends' = friends /\ Leave(groups)
  BY LeavesOf DEF PopulateGroups
<1>3. /\ view' \in Seq(Message) /\ ViewIsCurrent'
      /\ current' = IF current \in groups THEN Nothing ELSE current
  BY <1>1, <1>2, Left
<1>4. /\ friends' \subseteq Contacts \cup {{}} /\ groups' \subseteq Contacts \cup {{}}
      /\ current' \in friends' \cup groups' \cup {Nothing}
  BY <1>1, <1>2, <1>3
<1>5. Nodes'
  BY <1>1, <1>2 DEF Nodes
<1>6. \A key : HasLeaf(friends \cup groups, key) /\ key \notin Groups
                 => HasLeaf(friends' \cup groups', key)
  BY <1>1, <1>2 DEF HasLeaf, Nodes
<1>7. \A key : HasLeaf(contacts', key) /\ key \in Groups
                 => HasLeaf(friends' \cup groups', key)
  BY <1>2 DEF HasLeaf
<1>8. TreeMatchesContacts'
  <2>1. (friends' \cup groups') \ {{}} \subseteq contacts'
    BY <1>1, <1>2 DEF TreeMatchesContacts, Nodes
  <2>2. ASSUME NEW c \in contacts'
        PROVE  HasLeaf(friends' \cup groups', SessionKey(c))
               \/ SessionKey(c) \in shrunk'
    <3>1. CASE SessionKey(c) \notin Groups
      BY <1>1, <1>6, <3>1 DEF TreeMatchesContacts
    <3>2. CASE SessionKey(c) \in Groups
      BY <1>2, <3>2 DEF HasLeaf
    <3> QED BY <3>1, <3>2
  <2> QED BY <2>1, <2>2 DEF TreeMatchesContacts
<1>9. \A key \in Keys : Listed(key) /\ HasLeaf(contacts', key) => Listed(key)'
  BY <1>6, <1>7 DEF Listed, HasLeaf
<1>10. \A key \in Groups : HasLeaf(contacts', key) => Listed(key)'
  BY <1>7 DEF Listed, HasLeaf
<1> QED BY <1>3, <1>4, <1>5, <1>8, <1>9, <1>10
-----------------------------------------------------------------------------
(* The steps.                                                               *)

LEMMA Initially == Init => Inv
<1> SUFFICES ASSUME Init PROVE Inv
  OBVIOUS
<1>1. /\ contacts \in SUBSET Contacts
      /\ friends = {c \in contacts : SessionKey(c) \notin Groups}
      /\ groups = {c \in contacts : SessionKey(c) \in Groups}
  BY LeavesOf DEF Init
<1>2. <<>> \in Seq(Message)
  BY EmptySeq
<1>3. Types
  BY <1>1, <1>2 DEF Init, Types
<1>4. Dialogs /\ ViewIsCurrent
  BY SessionsAssumption
  DEF Init, Dialogs, ViewIsCurrent, CurrentKey, SessionsAssumption
<1>5. Nodes /\ TreeMatchesContacts
  BY <1>1 DEF Nodes, TreeMatchesContacts, HasLeaf
<1>6. HeardIsListed /\ SentTypes /\ SentWhereMeant
  BY DEF Init, HeardIsListed, Heard, SentTypes, SentWhereMeant
<1> QED BY <1>3, <1>4, <1>5, <1>6 DEF Inv

(* A message arrives, in whatever dialog the user is.                       *)
LEMMA NewMessageStep ==
  ASSUME Inv, NEW from \in Names, NEW to \in Keys \ {{}}, OnNewMessage(from, to)
  PROVE  Inv'
<1> DEFINE k == IF Cardinality(to) > 1 THEN to ELSE SessionKey({from})
<1>1. k \in Keys \ {{}}
  BY NameFacts
<1>2. /\ AddLeaf(k) /\ Enqueue(k, from, to) /\ AddContact(k)
      /\ removed' = removed \ {k}
      /\ UNCHANGED <<dialog, helpers, sent, shrunk>>
  BY DEF OnNewMessage
<1> HIDE DEF k
<1>3. /\ contacts' \subseteq Contacts
      /\ friends' \subseteq Contacts \cup {{}} /\ groups' \subseteq Contacts \cup {{}}
      /\ current' \in friends' \cup groups' \cup {Nothing}
      /\ current' = current /\ Nodes' /\ TreeMatchesContacts'
      /\ \A key \in Keys : Listed(key) => Listed(key)'
      /\ Listed(k)'
  BY <1>1, <1>2, Added
<1>4. /\ msgQ' \in [Keys -> Seq(Message)] /\ view' \in Seq(Message)
      /\ count' \in [msgs : Nat, helpers : Nat] /\ ViewIsCurrent'
      /\ \A key \in Keys \ {k} : msgQ'[key] = msgQ[key]
  BY <1>1, <1>2, <1>3, Enqueued
<1>5. SentTypes' /\ SentWhereMeant'
  BY <1>1, <1>2, <1>3, EnqueuedSent
<1>6. Types'
  BY <1>2, <1>3, <1>4 DEF Inv, Types
<1>7. Dialogs'
  BY <1>2, <1>3 DEF Inv, Dialogs, CurrentKey
<1>8. HeardIsListed'
  <2> SUFFICES ASSUME NEW key \in Keys, Heard(key)'
               PROVE  key # {} /\ (key \in removed' \/ Listed(key)')
    BY DEF HeardIsListed
  <2>1. CASE key = k
    BY <1>1, <1>3, <2>1
  <2>2. CASE key # k
    <3>1. Heard(key)
      BY <1>4, <2>2 DEF Heard
    <3> QED BY <1>2, <1>3, <2>2, <3>1 DEF Inv, HeardIsListed
  <2> QED BY <2>1, <2>2
<1> QED BY <1>3, <1>4, <1>5, <1>6, <1>7, <1>8 DEF Inv

(* Something is sent to a session that is in the window already.            *)
LEMMA SendStep ==
  ASSUME Inv, NEW k \in Keys, SendTo(k, k), helpers' \subseteq helpers,
         dialog' = dialog \/ dialog' = <<Nothing, {}>>,
         UNCHANGED <<contacts, tree, removed, shrunk>>
  PROVE  Inv'
<1>1. UNCHANGED <<contacts, friends, groups, current, removed, shrunk>>
  BY DEF tree
<1>2. /\ msgQ' \in [Keys -> Seq(Message)] /\ view' \in Seq(Message)
      /\ count' \in [msgs : Nat, helpers : Nat]
      /\ ViewIsCurrent' /\ SentTypes' /\ SentWhereMeant'
      /\ \A key \in Keys : Heard(key)' => Heard(key)
  BY <1>1, Sending
<1>3. Types'
  BY <1>1, <1>2 DEF Inv, Types
<1>4. Dialogs'
  BY <1>1, SessionsAssumption DEF Inv, Dialogs, CurrentKey, SessionsAssumption
<1>5. Nodes' /\ TreeMatchesContacts'
  BY <1>1 DEF Inv, Nodes, TreeMatchesContacts, HasLeaf
<1>6. HeardIsListed'
  BY <1>1, <1>2 DEF Inv, HeardIsListed, Listed, HasLeaf
<1> QED BY <1>2, <1>3, <1>4, <1>5, <1>6 DEF Inv

LEMMA SendingSteps ==
  ASSUME Inv, Send \/ PickFile \/ \E h \in helpers : OnProcThDone(h)
  PROVE  Inv'
<1>1. CurrentKey \in Keys
  BY CurrentKeyType DEF Inv
<1>2. CASE Send
  BY <1>1, <1>2, SendStep DEF Send
<1>3. CASE PickFile
  <2>1. dialog[2] = CurrentKey
    BY <1>3 DEF PickFile, Inv, Dialogs
  <2> QED BY <1>1, <1>3, <2>1, SendStep DEF PickFile
<1>4. ASSUME NEW h \in helpers, OnProcThDone(h) PROVE Inv'
  <2>1. h.key \in Keys
    BY DEF Inv, Types
  <2>2. /\ SendTo(h.key, h.key) /\ helpers' \subseteq helpers
        /\ UNCHANGED <<contacts, tree, dialog, removed, shrunk>>
    BY <1>4 DEF OnProcThDone, SessKey
  <2> QED BY <2>1, <2>2, SendStep
<1> QED BY <1>2, <1>3, <1>4

LEMMA InviteStep == ASSUME Inv, NEW k \in Keys, Invite(k) PROVE Inv'
<1>1. /\ SendTo(k, k) /\ AddLeaf(k) /\ AddContact(k) /\ removed' = removed \ {k}
      /\ UNCHANGED <<dialog, helpers, shrunk>>
  BY DEF Invite
<1>2. /\ contacts' \subseteq Contacts
      /\ friends' \subseteq Contacts \cup {{}} /\ groups' \subseteq Contacts \cup {{}}
      /\ current' \in friends' \cup groups' \cup {Nothing}
      /\ current' = current /\ Nodes' /\ TreeMatchesContacts'
      /\ \A key \in Keys : Listed(key) => Listed(key)'
      /\ k # {} => Listed(k)'
  BY <1>1, Added
<1>3. /\ msgQ' \in [Keys -> Seq(Message)] /\ view' \in Seq(Message)
      /\ count' \in [msgs : Nat, helpers : Nat]
      /\ ViewIsCurrent' /\ SentTypes' /\ SentWhereMeant'
      /\ \A key \in Keys : Heard(key)' => Heard(key)
  BY <1>1, <1>2, Sending
<1>4. Types' /\ Dialogs'
  BY <1>1, <1>2, <1>3 DEF Inv, Types, Dialogs, CurrentKey
<1>5. HeardIsListed'
  BY <1>1, <1>2, <1>3 DEF Inv, HeardIsListed
<1> QED BY <1>2, <1>3, <1>4, <1>5 DEF Inv

(* Steps that touch neither contacts nor messages nor leaves.               *)
LEMMA WindowStep ==
  ASSUME Inv, \/ StartHelper \/ SelectNode \/ OpenFiles \/ OpenContact
              \/ CloseDialog \/ \E h \in helpers : HelperFails(h)
              \/ \E c \in friends \cup groups : Select(c)
              \/ \E i \in DOMAIN view : OpenMessage(i)
  PROVE  Inv'
<1> USE DEF tree, history
<1>1. /\ Types /\ Dialogs /\ ViewIsCurrent /\ CurrentKey \in Keys
      /\ Nodes /\ TreeMatchesContacts /\ HeardIsListed
      /\ SentTypes /\ SentWhereMeant
  BY CurrentKeyType DEF Inv
<1>2. UNCHANGED <<contacts, friends, groups, msgQ, sent, removed, shrunk>>
  BY DEF StartHelper, SelectNode, OpenFiles, OpenContact, CloseDialog,
         HelperFails, Select, OpenMessage
<1>3. /\ Nodes' /\ TreeMatchesContacts' /\ HeardIsListed'
      /\ SentTypes' /\ SentWhereMeant'
  BY <1>1, <1>2 DEF Nodes, TreeMatchesContacts, HeardIsListed, Heard, Listed,
                    HasLeaf, SentTypes, SentWhereMeant
<1>4. ASSUME StartHelper PROVE Types' /\ Dialogs' /\ ViewIsCurrent'
  <2> DEFINE h == [id |-> count.helpers + 1, key |-> CurrentKey]
  <2>1. h \in [id : Nat, key : Keys]
    BY <1>1 DEF Types
  <2>2. count' \in [msgs : Nat, helpers : Nat]
    BY <1>1, <1>4, OneMore DEF StartHelper, Types
  <2>3. helpers' \subseteq [id : Nat, key : Keys]
    BY <1>1, <1>4, <2>1 DEF StartHelper, Types
  <2>4. UNCHANGED <<current, view, dialog>>
    BY <1>4 DEF StartHelper
  <2> QED BY <1>1, <1>2, <2>2, <2>3, <2>4
          DEF Types, Dialogs, ViewIsCurrent, CurrentKey
<1>5. ASSUME NEW h \in helpers, HelperFails(h)
      PROVE  Types' /\ Dialogs' /\ ViewIsCurrent'
  BY <1>1, <1>2, <1>5 DEF HelperFails, Types, Dialogs, ViewIsCurrent, CurrentKey
<1>6. ASSUME NEW c \in friends \cup groups, Select(c)
      PROVE  Types' /\ Dialogs' /\ ViewIsCurrent'
  <2>1. /\ current' = c /\ view' = msgQ[SessionKey(c)]
        /\ UNCHANGED <<dialog, helpers, count>> /\ dialog[1] = Nothing
    BY <1>6 DEF Select, Idle
  <2>2. SessionKey(c) \in Keys /\ c # Nothing
    BY <1>1, ContactFacts DEF Types
  <2>3. Types'
    BY <1>1, <1>2, <2>1, <2>2 DEF Types
  <2>4. Dialogs'
    BY <1>1, <2>1, SessionsAssumption DEF Dialogs, SessionsAssumption
  <2>5. ViewIsCurrent'
    BY <1>2, <2>1, <2>2 DEF ViewIsCurrent, CurrentKey
  <2> QED BY <2>3, <2>4, <2>5
<1>7. ASSUME SelectNode PROVE Types' /\ Dialogs' /\ ViewIsCurrent'
  <2>1. /\ current' = Nothing /\ UNCHANGED <<dialog, view, helpers, count>>
        /\ dialog[1] = Nothing
    BY <1>7 DEF SelectNode, Idle
  <2> QED BY <1>1, <1>2, <2>1, SessionsAssumption
          DEF Types, Dialogs, ViewIsCurrent, CurrentKey, SessionsAssumption
<1>8. ASSUME \/ OpenFiles \/ OpenContact \/ CloseDialog
             \/ \E i \in DOMAIN view : OpenMessage(i)
      PROVE  Types' /\ Dialogs' /\ ViewIsCurrent'
  <2>1. UNCHANGED <<current, view, helpers, count>>
    BY <1>8 DEF OpenFiles, OpenContact, CloseDialog, OpenMessage
  <2>2. Types' /\ ViewIsCurrent' /\ CurrentKey' = CurrentKey
    BY <1>1, <1>2, <2>1 DEF Types, ViewIsCurrent, CurrentKey
  <2>3. CASE OpenFiles
    BY <2>2, <2>3 DEF OpenFiles, Dialogs
  <2>4. CASE OpenContact
    BY <1>1, <2>2, <2>4 DEF OpenContact, Dialogs
  <2>5. CASE CloseDialog
    BY <2>2, <2>5, SessionsAssumption DEF CloseDialog, Dialogs, SessionsAssumption
  <2>6. ASSUME NEW i \in DOMAIN view, OpenMessage(i) PROVE Dialogs'
    <3>1. view[i] \in Message
      BY <1>1 DEF Types
    <3> QED BY <2>6, <3>1 DEF OpenMessage, Dialogs
  <2> QED BY <1>8, <2>2, <2>3, <2>4, <2>5, <2>6
<1>9. Types' /\ Dialogs' /\ ViewIsCurrent'
  BY <1>4, <1>5, <1>6, <1>7, <1>8
<1> QED BY <1>3, <1>9 DEF Inv

(* CertDialog and "make friend": the contact d comes or goes, or an empty   *)
(* comment leaves it, and the friends' node is built anew.                  *)
LEMMA FriendsStep ==
  ASSUME Inv, NEW d \in Contacts, SessionKey(d) \notin Groups,
         PopulateFriends, UNCHANGED <<msgQ, dialog, helpers, count, sent, shrunk>>,
         dialog[1] \in {"cert", "message"},
         \/ /\ contacts' = contacts \cup {d}
            /\ removed' = removed \ {SessionKey(d)}
         \/ /\ contacts' = contacts \ {d} /\ SessionKey(d) = d
            /\ removed' = removed \cup {d}
         \/ UNCHANGED <<contacts, removed>>
  PROVE  Inv'
<1>1. contacts' \in SUBSET Contacts
  BY DEF Inv, Types
<1>2. \A c : SessionKey(c) \in Groups => (c \in contacts' <=> c \in contacts)
  OBVIOUS
<1>3. /\ friends' \subseteq Contacts \cup {{}} /\ groups' \subseteq Contacts \cup {{}}
      /\ current' \in friends' \cup groups' \cup {Nothing}
      /\ view' \in Seq(Message) /\ ViewIsCurrent'
      /\ Nodes' /\ TreeMatchesContacts'
      /\ \A key \in Keys : Listed(key) /\ HasLeaf(contacts', key) => Listed(key)'
      /\ \A key \in Keys \ Groups : HasLeaf(contacts', key) => Listed(key)'
  BY <1>1, <1>2, FriendsBuilt
<1>4. Types'
  BY <1>1, <1>3 DEF Inv, Types
<1>5. Dialogs'
  BY DEF Inv, Dialogs
<1>6. HeardIsListed'
  <2> SUFFICES ASSUME NEW key \in Keys, Heard(key)'
               PROVE  key # {} /\ (key \in removed' \/ Listed(key)')
    BY DEF HeardIsListed
  <2>1. key # {} /\ (key \in removed \/ Listed(key))
    BY DEF Inv, HeardIsListed, Heard
  <2>2. CASE contacts' = contacts \cup {d} /\ removed' = removed \ {SessionKey(d)}
    <3>1. Listed(key) => HasLeaf(contacts', key)
      BY <2>2 DEF Listed, HasLeaf
    <3>2. key = SessionKey(d) => HasLeaf(contacts', key) /\ key \notin Groups
      BY <2>2 DEF HasLeaf
    <3> QED BY <1>3, <2>1, <2>2, <3>1, <3>2
  <2>3. CASE /\ contacts' = contacts \ {d} /\ SessionKey(d) = d
             /\ removed' = removed \cup {d}
    <3>1. Listed(key) /\ key # d => HasLeaf(contacts', key)
      BY <2>3 DEF Listed, HasLeaf
    <3> QED BY <1>3, <2>1, <2>3, <3>1
  <2>4. CASE UNCHANGED <<contacts, removed>>
    <3>1. Listed(key) => HasLeaf(contacts', key)
      BY <2>4 DEF Listed, HasLeaf
    <3> QED BY <1>3, <2>1, <2>4, <3>1
  <2> QED BY <2>2, <2>3, <2>4
<1>7. SentTypes' /\ SentWhereMeant'
  BY DEF Inv, SentTypes, SentWhereMeant
<1> QED BY <1>3, <1>4, <1>5, <1>6, <1>7 DEF Inv

(* groupDialog and "join group": the same for groups; when the members      *)
(* changed the dialog is closed, and a single one left may be filed.        *)
LEMMA GroupsStep ==
  ASSUME Inv, NEW d \in Keys, PopulateGroups,
         UNCHANGED <<msgQ, helpers, count, sent>>,
         \/ dialog' = dialog /\ dialog[1] \in {"group", "message"}
         \/ dialog' = <<Nothing, {}>>,
         \/ /\ contacts' = contacts \cup ({d} \ {{}})
            /\ removed' = IF d \in Groups THEN removed \ {d} ELSE removed
            /\ shrunk' = IF d \in Single THEN shrunk \cup {d} ELSE shrunk
         \/ /\ contacts' = contacts \ {d} /\ d \in Groups
            /\ removed' = removed \cup {d} /\ shrunk' = shrunk
         \/ UNCHANGED <<contacts, removed, shrunk>>
  PROVE  Inv'
<1>0. SessionKey(d) = d /\ d \in Contacts \cup {{}}
      /\ (d \notin Groups /\ d # {} => d \in Single) /\ {} \notin Groups
  BY KeyFacts, ContactFacts DEF Contacts
<1>1. contacts' \in SUBSET Contacts
  BY <1>0 DEF Inv, Types
<1>2. /\ shrunk \subseteq shrunk'
      /\ \A c : SessionKey(c) \notin Groups =>
           /\ c \in contacts => c \in contacts'
           /\ c \in contacts' => c \in contacts \/ SessionKey(c) \in shrunk'
  BY <1>0
<1>3. /\ friends' \subseteq Contacts \cup {{}} /\ groups' \subseteq Contacts \cup {{}}
      /\ current' \in friends' \cup groups' \cup {Nothing}
      /\ view' \in Seq(Message) /\ ViewIsCurrent'
      /\ Nodes' /\ TreeMatchesContacts'
      /\ \A key \in Keys : Listed(key) /\ HasLeaf(contacts', key) => Listed(key)'
      /\ \A key \in Groups : HasLeaf(contacts', key) => Listed(key)'
  BY <1>1, <1>2, GroupsBuilt
<1>4. Types'
  BY <1>1, <1>3 DEF Inv, Types
<1>5. Dialogs'
  <2>1. CASE dialog' = dialog /\ dialog[1] \in {"group", "message"}
    BY <2>1 DEF Inv, Dialogs
  <2>2. CASE dialog' = <<Nothing, {}>>
    BY <2>2, SessionsAssumption DEF Dialogs, SessionsAssumption
  <2> QED BY <2>1, <2>2
<1>6. HeardIsListed'
  <2> SUFFICES ASSUME NEW key \in Keys, Heard(key)'
               PROVE  key # {} /\ (key \in removed' \/ Listed(key)')
    BY DEF HeardIsListed
  <2>1. key # {} /\ (key \in removed \/ Listed(key))
    BY DEF Inv, HeardIsListed, Heard
  <2>2. CASE contacts' = contacts \cup ({d} \ {{}})
             /\ removed' = IF d \in Groups THEN removed \ {d} ELSE removed
    <3>1. Listed(key) => HasLeaf(contacts', key)
      BY <2>2 DEF Listed, HasLeaf
    <3>2. key = d /\ d \in Groups => HasLeaf(contacts', key)
      BY <1>0, <2>1, <2>2 DEF HasLeaf
    <3> QED BY <1>3, <2>1, <2>2, <3>1, <3>2
  <2>3. CASE contacts' = contacts \ {d} /\ removed' = removed \cup {d}
    <3>1. Listed(key) /\ key # d => HasLeaf(contacts', key)
      BY <1>0, <2>3 DEF Listed, HasLeaf
    <3> QED BY <1>3, <2>1, <2>3, <3>1
  <2>4. CASE UNCHANGED <<contacts, removed, shrunk>>
    <3>1. Listed(key) => HasLeaf(contacts', key)
      BY <2>4 DEF Listed, HasLeaf
    <3> QED BY <1>3, <2>1, <2>4, <3>1
  <2> QED BY <2>2, <2>3, <2>4
<1>7. SentTypes' /\ SentWhereMeant'
  BY DEF Inv, SentTypes, SentWhereMeant
<1> QED BY <1>3, <1>4, <1>5, <1>6, <1>7 DEF Inv

LEMMA DialogSteps ==
  ASSUME Inv, \/ SetComment \/ RemoveFriend \/ SetGroupName \/ RemoveGroup
              \/ MakeFriend \/ JoinGroup \/ \E k \in Keys : ChangeMembers(k)
  PROVE  Inv'
<1>1. CASE SetComment \/ RemoveFriend
  <2>1. dialog[2] \in Keys \ (Groups \cup {{}}) /\ dialog[1] = "cert"
    BY <1>1 DEF Inv, Dialogs, SetComment, RemoveFriend
  <2>2. dialog[2] \in Contacts /\ SessionKey(dialog[2]) = dialog[2]
    BY <2>1, KeyFacts DEF Contacts
  <2> QED BY <1>1, <2>1, <2>2, FriendsStep
          DEF SetComment, RemoveFriend, FileUnlessEmpty
<1>2. CASE MakeFriend
  <2>1. dialog[1] = "message" /\ dialog[2].from \in Names
    BY <1>2 DEF Inv, Dialogs, MakeFriend, Message
  <2>2. {dialog[2].from} \in Contacts /\ SessionKey({dialog[2].from}) \notin Groups
    BY <2>1, NameFacts
  <2> QED BY <1>2, <2>1, <2>2, FriendsStep DEF MakeFriend
<1>3. CASE SetGroupName \/ RemoveGroup
  <2>1. dialog[2] \in Groups /\ dialog[1] = "group" /\ dialog[2] \in Keys
    BY <1>3 DEF Inv, Dialogs, SetGroupName, RemoveGroup, Groups
  <2>2. dialog[2] # {} /\ dialog[2] \notin Single
    BY <2>1, GroupFacts
  <2>3. UNCHANGED <<msgQ, dialog, helpers, count, sent, shrunk>> /\ PopulateGroups
    BY <1>3 DEF SetGroupName, RemoveGroup
  <2>4. \/ contacts' = contacts \cup {dialog[2]} /\ removed' = removed \ {dialog[2]}
        \/ contacts' = contacts \ {dialog[2]} /\ removed' = removed \cup {dialog[2]}
        \/ UNCHANGED <<contacts, removed>>
    BY <1>3 DEF SetGroupName, RemoveGroup, FileUnlessEmpty
  <2>5. {dialog[2]} \ {{}} = {dialog[2]}
    BY <2>2
  <2> QED BY <2>1, <2>2, <2>3, <2>4, <2>5, GroupsStep
<1>4. CASE JoinGroup
  <2> DEFINE d == dialog[2].to
  <2>1. /\ d \in Groups /\ dialog[1] = "message" /\ PopulateGroups
        /\ contacts' = contacts \cup {d} /\ removed' = removed \ {d}
        /\ UNCHANGED <<msgQ, dialog, helpers, count, sent, shrunk>>
    BY <1>4 DEF JoinGroup
  <2> HIDE DEF d
  <2>2. d \in Keys /\ d # {} /\ d \notin Single
    BY <2>1, GroupFacts
  <2>3. {d} \ {{}} = {d}
    BY <2>2
  <2> QED BY <2>1, <2>2, <2>3, GroupsStep
<1>5. ASSUME NEW k \in Keys, ChangeMembers(k) PROVE Inv'
  <2>1. contacts' = contacts \cup ({k} \ {{}})
    BY <1>5 DEF ChangeMembers, AddContact
  <2> QED BY <1>5, <2>1, GroupsStep DEF ChangeMembers
<1> QED BY <1>1, <1>2, <1>3, <1>4, <1>5

(* The inductive invariant.                                                 *)
THEOREM InvariantHolds == Spec => []Inv
<1>1. Inv /\ [Next]_vars => Inv'
  <2> SUFFICES ASSUME Inv, [Next]_vars PROVE Inv'
    OBVIOUS
  <2>1. CASE UNCHANGED vars
    <3> USE <2>1 DEF vars, tree, history, Inv
    <3>1. Types' /\ Dialogs' /\ ViewIsCurrent'
      BY DEF Types, Dialogs, ViewIsCurrent, CurrentKey
    <3>2. Nodes' /\ TreeMatchesContacts' /\ HeardIsListed'
      BY DEF Nodes, TreeMatchesContacts, HeardIsListed, Heard, Listed, HasLeaf
    <3>3. SentTypes' /\ SentWhereMeant'
      BY DEF SentTypes, SentWhereMeant
    <3> QED BY <3>1, <3>2, <3>3
  <2>2. CASE Next
    BY <2>2, NewMessageStep, SendingSteps, InviteStep, WindowStep, DialogSteps
    DEF Next
  <2> QED BY <2>1, <2>2
<1> QED BY <1>1, Initially, PTL DEF Spec

(* The window shows the messages of the session that is current.            *)
THEOREM ViewFollowsSession == Spec => []ViewIsCurrent
<1>1. Inv => ViewIsCurrent
  BY DEF Inv
<1> QED BY <1>1, InvariantHolds, PTL

(* A session in which somebody was heard has a leaf until it is removed.    *)
THEOREM ReceivedCanBeFound == Spec => []ReceivedIsListed
<1>1. Inv => ReceivedIsListed
  BY DEF Inv, HeardIsListed, Heard, Listed, ReceivedIsListed
<1> QED BY <1>1, InvariantHolds, PTL

(* Leaves and contacts agree.                                               *)
THEOREM TreeIsRight == Spec => []TreeMatchesContacts
<1>1. Inv => TreeMatchesContacts
  BY DEF Inv
<1> QED BY <1>1, InvariantHolds, PTL

(* Recordings and files go to the session they were made for.               *)
THEOREM SentWhereItWasMeant == Spec => []SentWhereMeant
<1>1. Inv => SentWhereMeant
  BY DEF Inv
<1> QED BY <1>1, InvariantHolds, PTL
=============================================================================
