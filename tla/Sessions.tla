------------------------------- MODULE Sessions -------------------------------
(***************************************************************************)
(* The main window between two events: the contacts, the tree that lists   *)
(* them as friends and groups, the session whose messages are shown, the   *)
(* queue of messages of every session, and the helper programs that record *)
(* for a session (qt/mainwindow.cpp, procth.cpp, the dialogs).             *)
(*                                                                         *)
(* A handler runs to its end, but a dialog has an event loop of its own:   *)
(* messages arrive and helpers end while it is open.  A session is named   *)
(* by the set of its members as decodeReceips leaves them, {} when it      *)
(* leaves none; Norm is decodeReceips of one address (see Chat).  There is *)
(* a system tray; without one the first message kills the process (see     *)
(* Shutdown).                                                              *)
(***************************************************************************)
EXTENDS Naturals, Sequences, FiniteSets

CONSTANTS
  Names,       (* addresses                                                 *)
  Norm,        (* decodeReceips of each address                             *)
  Self,        (* the user's own address                                    *)
  Nothing,     (* no item of the tree, or one that is no leaf; no dialog    *)
  MaxGroup,    (* bound: members of a session                               *)
  MaxMsgs,     (* bound: messages of a behaviour                            *)
  MaxHelpers   (* bound: helpers started in a behaviour                     *)

ASSUME SessionsAssumption ==
  /\ Norm \in [Names -> Names] /\ \A n \in Names : Norm[Norm[n]] = Norm[n]
  /\ IsFiniteSet(Names) /\ Self \in Names
  /\ \A s \in SUBSET Names : s # Nothing
  /\ Nothing \notin {"files", "cert", "group", "message"}
  /\ MaxGroup \in Nat \ {0} /\ MaxMsgs \in Nat /\ MaxHelpers \in Nat

(* serializeReceips, of one address or several.                             *)
SessionKey(raw) == {Norm[n] : n \in raw}

Keys   == {key \in SUBSET {Norm[n] : n \in Names} : Cardinality(key) <= MaxGroup}
Single == {key \in Keys : Cardinality(key) = 1}
Groups == {key \in Keys : Cardinality(key) > 1}

(* A contact is filed under the text it was added by: a session's name, or  *)
(* an address as it stands in a certificate.                                *)
Contacts == (Keys \ {{}}) \cup {{n} : n \in Names}

VARIABLES
  contacts,   (* contacts_                                                  *)
  friends,    (* nodeFriends: for each leaf the contact it was made for     *)
  groups,     (* nodeGroups                                                 *)
  current,    (* btree's current item, as the contact of a leaf             *)
  msgQ,       (* m_peermsgQ                                                 *)
  view,       (* msgView: the messages it shows                             *)
  dialog,     (* the dialog that is open, for which session                 *)
  helpers,    (* running ProcThs, each with its SessKey                     *)
  count,      (* messages and helpers so far                                *)
  (* history *)
  sent,       (* messages emitted by readyToSend, with the session meant    *)
  removed,    (* sessions the user removed and nothing brought back         *)
  shrunk      (* sessions of one a group was cut down to                    *)

tree    == <<friends, groups, current>>
history == <<sent, removed, shrunk>>
vars == <<contacts, tree, msgQ, view, dialog, helpers, count, history>>

(* populateFriendTree and populateGroupTree: the leaves for the contacts.   *)
FriendLeaves(book) == {c \in book : Cardinality(SessionKey(c)) <= 1}
GroupLeaves(book)  == {c \in book : Cardinality(SessionKey(c)) > 1}

Init ==
  /\ contacts \in SUBSET {c \in Contacts : Cardinality(c) = 1}
  /\ friends = FriendLeaves(contacts) /\ groups = GroupLeaves(contacts)
  /\ current = Nothing /\ view = <<>>
  /\ msgQ = [k \in Keys |-> <<>>]
  /\ dialog = <<Nothing, {}>> /\ helpers = {}
  /\ count = [msgs |-> 0, helpers |-> 0]
  /\ sent = {} /\ removed = {} /\ shrunk = {}

(* currentSessionKey: the session of the leaf that is current.              *)
CurrentKey == IF current = Nothing THEN {} ELSE SessionKey(current)

(* hasLeaf, of either node.                                                 *)
HasLeaf(node, k) == \E c \in node : SessionKey(c) = k
Idle == dialog[1] = Nothing
-----------------------------------------------------------------------------
(* Mutated forms of steps below, each a bug somebody could make there; they *)
(* take no part in the specification.                                       *)

(* The session that is current when the helper ends.                        *)
SessKeyNow(h) == CurrentKey

(* onNewMessage does not file the session as a contact.                     *)
AddContactNone(k) == UNCHANGED contacts

(* A leaf is added for strangers only.                                      *)
AddLeafStranger(k) ==
  /\ friends' = IF k \in Groups \/ k \in contacts THEN friends
                  ELSE friends \cup {k}
  /\ groups' = IF k \notin Groups \/ k \in contacts THEN groups
                 ELSE groups \cup {k}
  /\ UNCHANGED current

(* enqueueMsg without the look at the current session.                      *)
RefreshNone(k, q) == UNCHANGED view
-----------------------------------------------------------------------------
(* What the handlers call.                                                  *)

(* populateLeaf, if hasLeaf finds none.                                     *)
AddLeaf(k) ==
  /\ friends' = IF k \in Groups \/ HasLeaf(friends, k) THEN friends
                  ELSE friends \cup {k}
  /\ groups' = IF k \notin Groups \/ HasLeaf(groups, k) THEN groups
                 ELSE groups \cup {k}
  /\ UNCHANGED current

(* addContact; an empty name is refused.                                    *)
AddContact(k) == contacts' = IF k = {} THEN contacts ELSE contacts \cup {k}

(* populateMessages, if the session is the current one.                     *)
Refresh(k, q) == view' = IF k # {} /\ k = CurrentKey THEN q ELSE view

(* enqueueMsg, of the message with the next number.                         *)
Enqueue(k, from, to) ==
  /\ count' = [count EXCEPT !.msgs = @ + 1]
  /\ msgQ' = [msgQ EXCEPT ![k] =
                Append(@, [id |-> count.msgs + 1, from |-> from, to |-> to])]
  /\ Refresh(k, msgQ'[k])

(* SendTo, for what the user wanted to send to "meant".                     *)
SendTo(k, meant) ==
  IF k = {} THEN UNCHANGED <<msgQ, view, count, sent>>
  ELSE /\ count.msgs < MaxMsgs
       /\ sent' = sent \cup {[id |-> count.msgs + 1, key |-> k, meant |-> meant]}
       /\ Enqueue(k, Self, k)

(* populateFriendTree or populateGroupTree: a current leaf of that node is  *)
(* taken away; until all are, another may become current and be shown.      *)
Leave(node) ==
  IF current \in node
    THEN /\ current' = Nothing
         /\ view' \in {view} \cup {msgQ[SessionKey(c)] : c \in node}
    ELSE UNCHANGED <<current, view>>
PopulateFriends ==
  friends' = FriendLeaves(contacts') /\ UNCHANGED groups /\ Leave(friends)
PopulateGroups ==
  groups' = GroupLeaves(contacts') /\ UNCHANGED friends /\ Leave(groups)

(* The member of ProcTh with the session it was started for.                *)
SessKey(h) == h.key
-----------------------------------------------------------------------------
(* The network and the helpers.                                             *)

(* onNewMessage, past what Chat's Refused discards.                         *)
OnNewMessage(from, to) ==
  LET k == IF Cardinality(to) > 1 THEN to ELSE SessionKey({from})
  IN /\ count.msgs < MaxMsgs
     /\ AddLeaf(k) /\ Enqueue(k, from, to) /\ AddContact(k)
     /\ removed' = removed \ {k}
  /\ UNCHANGED <<dialog, helpers, sent, shrunk>>

(* onAudioAct, onSnapAct, onPhotoAct, onVideoAct.                           *)
StartHelper ==
  /\ Idle /\ current # Nothing /\ count.helpers < MaxHelpers
  /\ count' = [count EXCEPT !.helpers = @ + 1]
  /\ helpers' = helpers \cup {[id |-> count.helpers + 1, key |-> CurrentKey]}
  /\ UNCHANGED <<contacts, tree, msgQ, view, dialog, history>>

(* onProcThDone, if the helper left a file.                                 *)
OnProcThDone(h) ==
  /\ h \in helpers /\ helpers' = helpers \ {h}
  /\ SendTo(SessKey(h), h.key)
  /\ UNCHANGED <<contacts, tree, dialog, removed, shrunk>>

(* It left none, or did not start.                                          *)
HelperFails(h) ==
  /\ h \in helpers /\ helpers' = helpers \ {h}
  /\ UNCHANGED <<contacts, tree, msgQ, view, dialog, count, history>>
-----------------------------------------------------------------------------
(* The user, in the window.                                                 *)

(* onTreeCurrentBuddy, of a leaf; of one of the nodes.                      *)
Select(c) ==
  /\ Idle /\ c \in friends \cup groups /\ c # current
  /\ current' = c /\ view' = msgQ[SessionKey(c)]
  /\ UNCHANGED <<contacts, friends, groups, msgQ, dialog, helpers, count>>
  /\ UNCHANGED history
SelectNode ==
  /\ Idle /\ current # Nothing /\ current' = Nothing
  /\ UNCHANGED <<contacts, friends, groups, msgQ, view, dialog, helpers, count>>
  /\ UNCHANGED history

(* onBtnSendClicked, onBtnSendQrClicked, onTextEditDropped.                 *)
Send ==
  /\ Idle /\ CurrentKey # {} /\ SendTo(CurrentKey, CurrentKey)
  /\ UNCHANGED <<contacts, tree, dialog, helpers, removed, shrunk>>

(* onFileAct and onEmojiAct: the file is chosen in a dialog.                *)
OpenFiles ==
  /\ Idle /\ current # Nothing /\ dialog' = <<"files", CurrentKey>>
  /\ UNCHANGED <<contacts, tree, msgQ, view, helpers, count, history>>
PickFile ==
  /\ dialog[1] = "files" /\ dialog' = <<Nothing, {}>>
  /\ SendTo(CurrentKey, dialog[2])
  /\ UNCHANGED <<contacts, tree, helpers, removed, shrunk>>

(* onBtnInviteClicked, with an address, or without one in what was typed.   *)
Invite(k) ==
  /\ Idle /\ SendTo(k, k) /\ AddLeaf(k) /\ AddContact(k)
  /\ removed' = removed \ {k}
  /\ UNCHANGED <<dialog, helpers, shrunk>>

(* onTreeBuddyDoubleClicked and onMessageDoubleClicked.                     *)
OpenContact ==
  /\ Idle /\ CurrentKey # {}
  /\ dialog' = <<IF CurrentKey \in Groups THEN "group" ELSE "cert",
               CurrentKey>>
  /\ UNCHANGED <<contacts, tree, msgQ, view, helpers, count, history>>
OpenMessage(i) ==
  /\ Idle /\ i \in DOMAIN view /\ dialog' = <<"message", view[i]>>
  /\ UNCHANGED <<contacts, tree, msgQ, view, helpers, count, history>>
CloseDialog ==
  /\ ~Idle /\ dialog' = <<Nothing, {}>>
  /\ UNCHANGED <<contacts, tree, msgQ, view, helpers, count, history>>
-----------------------------------------------------------------------------
(* The user, in a dialog.                                                   *)

(* contattrib files the contact; an empty comment or name never gets there. *)
FileUnlessEmpty ==
  \/ /\ contacts' = contacts \cup {dialog[2]}
     /\ removed' = removed \ {dialog[2]}
  \/ UNCHANGED <<contacts, removed>>

(* CertDialog: on_btnSetComment_clicked and on_btnLogo_clicked file the     *)
(* contact, on_btnRemove_clicked removes it.  The friends are listed anew   *)
(* whether the contact was filed or not.                                    *)
SetComment ==
  /\ dialog[1] = "cert" /\ FileUnlessEmpty /\ PopulateFriends
  /\ UNCHANGED <<msgQ, dialog, helpers, count, sent, shrunk>>
RemoveFriend ==
  /\ dialog[1] = "cert" /\ contacts' = contacts \ {dialog[2]}
  /\ PopulateFriends /\ removed' = removed \cup {dialog[2]}
  /\ UNCHANGED <<msgQ, dialog, helpers, count, sent, shrunk>>

(* groupDialog: the same, with the group's name; and other members.         *)
SetGroupName ==
  /\ dialog[1] = "group" /\ FileUnlessEmpty /\ PopulateGroups
  /\ UNCHANGED <<msgQ, dialog, helpers, count, sent, shrunk>>
RemoveGroup ==
  /\ dialog[1] = "group" /\ contacts' = contacts \ {dialog[2]}
  /\ PopulateGroups /\ removed' = removed \cup {dialog[2]}
  /\ UNCHANGED <<msgQ, dialog, helpers, count, sent, shrunk>>
ChangeMembers(k) ==
  /\ dialog[1] = "group" /\ k # dialog[2] /\ dialog' = <<Nothing, {}>>
  /\ AddContact(k) /\ PopulateGroups
  /\ removed' = IF k \in Groups THEN removed \ {k} ELSE removed
  /\ shrunk' = IF k \in Single THEN shrunk \cup {k} ELSE shrunk
  /\ UNCHANGED <<msgQ, helpers, count, sent>>

(* MessageDialog: on_btnMakeFriend_clicked files the sender under the       *)
(* address in the certificate, on_btnJoinGroup_clicked the addressees.      *)
MakeFriend ==
  /\ dialog[1] = "message" /\ contacts' = contacts \cup {{dialog[2].from}}
  /\ PopulateFriends
  /\ removed' = removed \ {SessionKey({dialog[2].from})}
  /\ UNCHANGED <<msgQ, dialog, helpers, count, sent, shrunk>>
JoinGroup ==
  /\ dialog[1] = "message" /\ dialog[2].to \in Groups
  /\ contacts' = contacts \cup {dialog[2].to}
  /\ PopulateGroups /\ removed' = removed \ {dialog[2].to}
  /\ UNCHANGED <<msgQ, dialog, helpers, count, sent, shrunk>>

Next ==
  \/ \E from \in Names, to \in Keys \ {{}} : OnNewMessage(from, to)
  \/ \E h \in helpers : OnProcThDone(h) \/ HelperFails(h)
  \/ \E c \in friends \cup groups : Select(c)
  \/ \E k \in Keys : Invite(k) \/ ChangeMembers(k)
  \/ \E i \in DOMAIN view : OpenMessage(i)
  \/ StartHelper \/ SelectNode \/ Send \/ OpenFiles \/ PickFile
  \/ OpenContact \/ CloseDialog
  \/ SetComment \/ RemoveFriend \/ SetGroupName \/ RemoveGroup
  \/ MakeFriend \/ JoinGroup

Spec == Init /\ [][Next]_vars
-----------------------------------------------------------------------------
(* Properties.                                                              *)

(* While a session is current, the window shows its messages, all of them:  *)
(* whoever adds one, and whatever leaves are rebuilt, in a dialog or not.   *)
ViewIsCurrent == CurrentKey # {} => view = msgQ[CurrentKey]

(* What was received can be found: its session has a leaf, until the user   *)
(* removes it; rebuilding the tree from the contacts does not lose it.      *)
ReceivedIsListed ==
  \A k \in Keys : \A i \in DOMAIN msgQ[k] :
    msgQ[k][i].from # Self =>
      HasLeaf(friends \cup groups, k) \/ k \in removed

(* The tree and the contacts agree: every leaf was made for a contact that  *)
(* there still is, but the one of an invitation without address, so that    *)
(* two leaves share a session only if it is filed under two spellings; and  *)
(* the session of every contact has a leaf, but a group cut down to one.    *)
TreeMatchesContacts ==
  /\ (friends \cup groups) \ {{}} \subseteq contacts
  /\ \A c \in contacts : HasLeaf(friends \cup groups, SessionKey(c))
                         \/ SessionKey(c) \in shrunk

(* What the user records or chooses for a session is sent to that session,  *)
(* however long the helper or the dialog takes and whatever happens in      *)
(* between, and stands in its queue.                                        *)
SentWhereMeant ==
  \A m \in sent : m.key = m.meant /\ \E i \in DOMAIN msgQ[m.key] :
                                        msgQ[m.key][i].id = m.id
=============================================================================
