-------------------------------- MODULE MailRx --------------------------------
(***************************************************************************)
(* The incoming half of the client: RxThread::run polling an IMAP inbox    *)
(* with CMailClient::Rx, which lists the unseen messages by their sequence *)
(* numbers, and for each number downloads the message, hands it to         *)
(* BitMail::EmailHandler and flags it \Seen and \Deleted.                  *)
(*                                                                         *)
(* A sequence number means a position in the inbox as it was when the      *)
(* connection selected it.  libcurl keeps the connection of each account   *)
(* for the next command and silently opens another when it was lost.  The  *)
(* server, the user's other mail clients and the network are external;     *)
(* they are modelled from the commands the code sends.  The settings are   *)
(* complete for one account or empty, so that one test of them stands for  *)
(* the three getters run() calls.                                          *)
(***************************************************************************)
EXTENDS Naturals, Sequences, FiniteSets, SequencesExt

CONSTANTS Accounts,    (* the accounts the settings can name                *)
          NoAccount,   (* empty settings                                    *)
          NMsgs,       (* bound: messages that arrive in a behaviour        *)
          MaxFaults    (* bound: adverse events in a behaviour              *)

ASSUME RxAssumption ==
  /\ NoAccount \notin Accounts
  /\ NMsgs \in Nat /\ MaxFaults \in Nat

Msgs == 1 .. NMsgs

VARIABLES
  acct,      (* the account of the settings                                 *)
  rx,        (* where the receive thread is                                 *)
  list,      (* numbers SEARCH returned and the loop has not reached        *)
  num,       (* the number the loop is at                                   *)
  smime,     (* the download: a message, or 0 for the empty string          *)
  stop,      (* RxThread::m_fStopFlag                                       *)
  (* external *)
  arrived,   (* messages that have arrived so far, numbered in order        *)
  box,       (* the messages of each account's inbox, oldest first          *)
  view,      (* the inbox as the open connection to an account numbers it   *)
  seen, deleted,  (* the messages with these flags                          *)
  (* history *)
  meant,     (* the messages SEARCH found behind <<num>> \o list            *)
  handled,   (* downloads handed to EmailHandler, in order                  *)
  flagged,   (* messages this client flagged \Deleted                       *)
  astray,    (* a command reached another message than the one listed       *)
  faults,    (* the kinds of adverse events so far                          *)
  nfaults    (* how many there were                                         *)

threadVars == <<rx, list, num, smime, stop>>
serverVars == <<arrived, box, view, seen, deleted>>
ghostVars  == <<meant, handled, flagged, astray>>
faultVars  == <<faults, nfaults>>
vars == <<acct, threadVars, serverVars, ghostVars, faultVars>>

Kinds  == {"search", "fetch", "store", "expunge", "drop", "remove", "read",
           "switch"}
Closed == <<0>>   (* no connection: not an inbox, whose messages are > 0    *)
InRx   == {"fetch", "handle", "seen", "delete", "next"}

Init ==
  /\ acct \in Accounts \cup {NoAccount}
  /\ rx = "head" /\ list = <<>> /\ num = 0 /\ smime = 0 /\ stop = FALSE
  /\ arrived = 0 /\ seen = {} /\ deleted = {}
  /\ box = [a \in Accounts |-> <<>>]
  /\ view = [a \in Accounts |-> Closed]
  /\ meant = <<>> /\ handled = <<>> /\ flagged = {} /\ astray = FALSE
  /\ faults = {} /\ nfaults = 0

(* An adverse event is counted against the bound.                           *)
Fault(kind) ==
  /\ nfaults < MaxFaults /\ nfaults' = nfaults + 1
  /\ faults' = faults \cup {kind}
-----------------------------------------------------------------------------
(* The server's side of a command sent with the settings of this moment.    *)

(* The numbering in force: the open connection's, or that of a new one.     *)
Numbering(a) == IF view[a] = Closed THEN box[a] ELSE view[a]

(* The message behind a number, 0 when there is none (any more).            *)
At(a, n) ==
  LET v == Numbering(a)
  IN IF n \in DOMAIN v /\ v[n] \in ToSet(box[a]) THEN v[n] ELSE 0

(* The members of S in ascending order, the order of arrival; there is one  *)
(* such sequence.                                                           *)
Ascending(S) ==
  {s \in [1 .. Cardinality(S) -> S] : \A i, j \in DOMAIN s : i < j => s[i] < s[j]}

(* What SEARCH answers: the numbers of the messages without a flag.         *)
Without(flag) ==
  {n \in DOMAIN Numbering(acct) : At(acct, n) \notin flag \cup {0}}

(* A command that succeeds leaves its connection open; after one that fails *)
(* libcurl may close it.                                                    *)
Connected == view' = [view EXCEPT ![acct] = Numbering(acct)]
MayClose  == \/ view' = view
             \/ acct # NoAccount /\ view' = [view EXCEPT ![acct] = Closed]

(* The message behind num, where the settings of this moment lead.          *)
Target == IF acct = NoAccount THEN 0 ELSE At(acct, num)

(* Bookkeeping of a command that reached message m.                         *)
Reached(m) == astray' = (astray \/ (m # 0 /\ m # Head(meant)))
-----------------------------------------------------------------------------
(* Mutated forms of steps below, each a bug somebody could make there; they *)
(* take no part in the specification.                                       *)

(* The test for an empty download left out of EmailHandler.                 *)
HandleEmpty ==
  /\ rx = "handle"
  /\ handled' = Append(handled, smime)
  /\ rx' = "seen"
  /\ UNCHANGED <<acct, list, num, smime, stop, serverVars, meant, flagged,
                 astray, faultVars>>

(* EXPUNGE after every message.                                             *)
StoreDeletedExpunges ==
  /\ rx = "delete" /\ acct # NoAccount
  /\ deleted' = deleted \cup ({Target} \ {0})
  /\ flagged' = flagged \cup ({Target} \ {0})
  /\ \E b \in Ascending(ToSet(box[acct]) \ deleted') :
       /\ box' = [box EXCEPT ![acct] = b]
       /\ view' = [view EXCEPT ![acct] = b]
  /\ Reached(Target)
  /\ meant' = Tail(meant)
  /\ rx' = "next"
  /\ UNCHANGED <<acct, list, num, smime, stop, arrived, seen, handled,
                 faultVars>>

(* The download is not appended to smime.                                   *)
FetchLosesDownload ==
  /\ rx = "fetch" /\ Target # 0
  /\ seen' = seen \cup {Target}
  /\ Reached(Target)
  /\ Connected
  /\ rx' = "handle"
  /\ UNCHANGED <<acct, list, num, smime, stop, arrived, box, deleted, meant,
                 handled, flagged, faultVars>>

(* SEARCH ALL.                                                              *)
SearchAll ==
  /\ rx = "search" /\ acct # NoAccount
  /\ Connected
  /\ list' \in Ascending(Without({}))
  /\ meant' = [i \in DOMAIN list' |-> At(acct, list'[i])]
  /\ rx' = "next"
  /\ UNCHANGED <<acct, num, smime, stop, arrived, box, seen, deleted, handled,
                 flagged, astray, faultVars>>

(* Off by one: the last number of the list is left out.                     *)
NextNumberButLast ==
  /\ rx = "next"
  /\ IF Len(list) <= 1
       THEN rx' = "head" /\ UNCHANGED <<list, num>>
       ELSE rx' = "fetch" /\ num' = Head(list) /\ list' = Tail(list)
  /\ smime' = 0
  /\ UNCHANGED <<acct, stop, serverVars, ghostVars, faultVars>>

(* A failed search ends the thread.                                         *)
SearchFailsForGood ==
  /\ rx = "search"
  /\ IF acct = NoAccount THEN UNCHANGED faultVars ELSE Fault("search")
  /\ MayClose
  /\ rx' = "done"
  /\ UNCHANGED <<acct, list, num, smime, stop, arrived, box, seen, deleted,
                 ghostVars>>

(* The flag is not tested again.                                            *)
LoopForever ==
  /\ rx = "head"
  /\ rx' = "wait"
  /\ UNCHANGED <<acct, list, num, smime, stop, serverVars, ghostVars, faultVars>>
-----------------------------------------------------------------------------
(* The receive thread.                                                      *)

LoopHead ==
  /\ rx = "head"
  /\ rx' = IF stop THEN "expunge" ELSE "wait"
  /\ UNCHANGED <<acct, list, num, smime, stop, serverVars, ghostVars, faultVars>>

(* The wait for a poll event always times out (nobody posts one); then the  *)
(* settings are tested.                                                     *)
Poll ==
  /\ rx = "wait"
  /\ rx' = IF acct = NoAccount THEN "head" ELSE "search"
  /\ UNCHANGED <<acct, list, num, smime, stop, serverVars, ghostVars, faultVars>>

(* GetUnseen, answered: SEARCH UNSEEN.                                      *)
Search ==
  /\ rx = "search" /\ acct # NoAccount
  /\ Connected
  /\ list' \in Ascending(Without(seen))
  /\ meant' = [i \in DOMAIN list' |-> At(acct, list'[i])]
  /\ rx' = "next"
  /\ UNCHANGED <<acct, num, smime, stop, arrived, box, seen, deleted, handled,
                 flagged, astray, faultVars>>

(* GetUnseen failed: its result is not used and the list stays empty.       *)
SearchFails ==
  /\ rx = "search"
  /\ IF acct = NoAccount THEN UNCHANGED faultVars ELSE Fault("search")
  /\ MayClose
  /\ list' = <<>> /\ meant' = <<>>
  /\ rx' = "next"
  /\ UNCHANGED <<acct, num, smime, stop, arrived, box, seen, deleted, handled,
                 flagged, astray>>

(* The head of Rx's loop, and "Fetch Ok" when the list is used up.          *)
NextNumber ==
  /\ rx = "next"
  /\ IF list = <<>>
       THEN rx' = "head" /\ UNCHANGED <<list, num>>
       ELSE rx' = "fetch" /\ num' = Head(list) /\ list' = Tail(list)
  /\ smime' = 0
  /\ UNCHANGED <<acct, stop, serverVars, ghostVars, faultVars>>

(* GetMsg, answered: FETCH num BODY[] also sets \Seen.                      *)
Fetch ==
  /\ rx = "fetch" /\ Target # 0
  /\ smime' = Target
  /\ seen' = seen \cup {Target}
  /\ Reached(Target)
  /\ Connected
  /\ rx' = "handle"
  /\ UNCHANGED <<acct, list, num, stop, arrived, box, deleted, meant, handled,
                 flagged, faultVars>>

(* GetMsg failed, perhaps after the server had set \Seen: the result is not *)
(* used and smime stays empty.  That there is no such message, or no        *)
(* account, is no fault of its own.                                         *)
FetchFails(served) ==
  /\ rx = "fetch" /\ (served => Target # 0)
  /\ IF Target = 0 THEN UNCHANGED faultVars ELSE Fault("fetch")
  /\ seen' = IF served THEN seen \cup {Target} ELSE seen
  /\ Reached(Target)
  /\ MayClose
  /\ rx' = "handle"
  /\ UNCHANGED <<acct, list, num, smime, stop, arrived, box, deleted, meant,
                 handled, flagged>>

(* EmailHandler: an empty download cannot be decrypted; the failure is only *)
(* reported, the loop goes on as after a success.                           *)
Handle ==
  /\ rx = "handle"
  /\ handled' = IF smime = 0 THEN handled ELSE Append(handled, smime)
  /\ rx' = "seen"
  /\ UNCHANGED <<acct, list, num, smime, stop, serverVars, meant, flagged,
                 astray, faultVars>>

(* StoreFlag(num, flag) with effect: whether the answer arrives is not used.*)
Stored == {Target} \ {0}

StoreSeen ==
  /\ rx = "seen" /\ acct # NoAccount
  /\ seen' = seen \cup Stored
  /\ Reached(Target)
  /\ Connected
  /\ rx' = "delete"
  /\ UNCHANGED <<acct, list, num, smime, stop, arrived, box, deleted, meant,
                 handled, flagged, faultVars>>

StoreDeleted ==
  /\ rx = "delete" /\ acct # NoAccount
  /\ deleted' = deleted \cup Stored
  /\ flagged' = flagged \cup Stored
  /\ Reached(Target)
  /\ Connected
  /\ meant' = Tail(meant)
  /\ rx' = "next"
  /\ UNCHANGED <<acct, list, num, smime, stop, arrived, box, seen, handled,
                 faultVars>>

(* StoreFlag without effect; the progress callback hears "Seen : [num]" or  *)
(* "Delete : [num]" all the same.                                           *)
StoreFails ==
  /\ rx \in {"seen", "delete"}
  /\ IF Target = 0 THEN UNCHANGED faultVars ELSE Fault("store")
  /\ MayClose
  /\ rx' = IF rx = "seen" THEN "delete" ELSE "next"
  /\ meant' = IF rx = "seen" THEN meant ELSE Tail(meant)
  /\ UNCHANGED <<acct, list, num, smime, stop, arrived, box, seen, deleted,
                 handled, flagged, astray>>

(* After the loop: EXPUNGE, on the account of the settings.                 *)
Expunge ==
  /\ rx = "expunge" /\ acct # NoAccount
  /\ \E b \in Ascending(ToSet(box[acct]) \ deleted) :
       /\ box' = [box EXCEPT ![acct] = b]
       /\ view' = [view EXCEPT ![acct] = b]
  /\ rx' = "done"
  /\ UNCHANGED <<acct, list, num, smime, stop, arrived, seen, deleted,
                 ghostVars, faultVars>>

ExpungeFails ==
  /\ rx = "expunge"
  /\ IF acct = NoAccount THEN UNCHANGED faultVars ELSE Fault("expunge")
  /\ rx' = "done"
  /\ UNCHANGED <<acct, list, num, smime, stop, serverVars, ghostVars>>
-----------------------------------------------------------------------------
(* The GUI thread.                                                          *)

SetupNetwork(a) ==
  /\ ~stop /\ a # acct
  /\ acct' = a
  /\ IF rx \in InRx THEN Fault("switch") ELSE UNCHANGED faultVars
  /\ UNCHANGED <<threadVars, serverVars, ghostVars>>

Stop ==
  /\ ~stop /\ stop' = TRUE
  /\ UNCHANGED <<acct, rx, list, num, smime, serverVars, ghostVars, faultVars>>
-----------------------------------------------------------------------------
(* The server, the network and the user's other mail clients.               *)

(* An open connection learns of a new message with its next answer.         *)
Arrive(a) ==
  /\ arrived < NMsgs
  /\ arrived' = arrived + 1
  /\ box' = [box EXCEPT ![a] = Append(@, arrived')]
  /\ view' = IF view[a] = Closed THEN view
                                 ELSE [view EXCEPT ![a] = Append(@, arrived')]
  /\ UNCHANGED <<acct, threadVars, seen, deleted, ghostVars, faultVars>>

Drop(a) ==
  /\ view[a] # Closed /\ Fault("drop")
  /\ view' = [view EXCEPT ![a] = Closed]
  /\ UNCHANGED <<acct, threadVars, arrived, box, seen, deleted, ghostVars>>

(* Another client expunges a message.  A server does not renumber while a   *)
(* connection is searching, fetching or storing, so open views stay.        *)
OtherRemoves(a, m) ==
  /\ m \in ToSet(box[a]) /\ Fault("remove")
  /\ \E b \in Ascending(ToSet(box[a]) \ {m}) : box' = [box EXCEPT ![a] = b]
  /\ UNCHANGED <<acct, threadVars, arrived, view, seen, deleted, ghostVars>>

(* Another client reads a message.                                          *)
OtherReads(m) ==
  /\ m <= arrived /\ m \notin seen /\ Fault("read")
  /\ seen' = seen \cup {m}
  /\ UNCHANGED <<acct, threadVars, arrived, box, view, deleted, ghostVars>>
-----------------------------------------------------------------------------
Terminated == rx = "done" /\ UNCHANGED vars

RxNext == \/ LoopHead \/ Poll \/ Search \/ SearchFails \/ NextNumber
          \/ Fetch \/ (\E served \in BOOLEAN : FetchFails(served)) \/ Handle
          \/ StoreSeen \/ StoreDeleted \/ StoreFails
          \/ Expunge \/ ExpungeFails

EnvNext == \/ Stop
           \/ \E a \in Accounts \cup {NoAccount} : SetupNetwork(a)
           \/ \E a \in Accounts : Arrive(a) \/ Drop(a)
           \/ \E a \in Accounts, m \in Msgs : OtherRemoves(a, m)
           \/ \E m \in Msgs : OtherReads(m)

Next == RxNext \/ EnvNext \/ Terminated

Spec == Init /\ [][Next]_vars

(* The receive thread is scheduled and its transfers end, well or badly.    *)
FairSpec == Spec /\ WF_vars(RxNext)
-----------------------------------------------------------------------------
(* Properties.                                                              *)

RxPC == {"head", "wait", "search", "next", "fetch", "handle", "seen",
         "delete", "expunge", "done"}

TypeOK ==
  /\ acct \in Accounts \cup {NoAccount}
  /\ rx \in RxPC /\ list \in Seq(Nat) /\ num \in Nat
  /\ smime \in Msgs \cup {0} /\ stop \in BOOLEAN
  /\ arrived \in 0 .. NMsgs
  /\ box \in [Accounts -> Seq(Msgs)] /\ view \in [Accounts -> Seq(Msgs \cup {0})]
  /\ seen \subseteq Msgs /\ deleted \subseteq Msgs
  /\ meant \in Seq(Msgs) /\ handled \in Seq(Msgs) /\ flagged \subseteq Msgs
  /\ astray \in BOOLEAN /\ faults \subseteq Kinds /\ nfaults \in 0 .. MaxFaults

(* A sequence number of SEARCH keeps meaning the message it was listed for, *)
(* across FETCH and both STOREs, unless the user switched the account in    *)
(* the middle of Rx or another client removed a message meanwhile.          *)
NumbersHold == astray => faults \cap {"switch", "remove"} # {}

(* A message this client deletes was handed to EmailHandler, unless its     *)
(* download failed, the account was switched during Rx, or a number went    *)
(* astray: nothing else loses mail.  Errors of SEARCH and STORE, lost       *)
(* connections and mail arriving in between do not.                         *)
DeletedWasHandled ==
  flagged \subseteq ToSet(handled) \/ astray \/ faults \cap {"fetch", "switch"} # {}

(* No message is handed to EmailHandler twice, whatever fails, unless a     *)
(* number went astray: a message is \Seen from its first download on.       *)
HandledOnce == IsInjective(handled) \/ astray

(* With nothing going wrong, every message that arrives in the inbox the    *)
(* settings stay at is handed over and flagged for deletion.                *)
Undisturbed == faults = {} /\ ~stop

EveryMessageHandled ==
  \A a \in Accounts :
    (<>[](acct = a) /\ []Undisturbed) =>
      \A m \in Msgs : (m \in ToSet(box[a]))
                        ~> (m \in ToSet(handled) /\ m \in flagged)

(* Failures delay mail but do not block it: once the settings stay at an    *)
(* account, each of its messages is eventually \Seen or gone, however the   *)
(* searches and downloads before that failed.                               *)
EveryMessageLeavesUnseen ==
  \A a \in Accounts :
    <>[](acct = a /\ ~stop) =>
      \A m \in Msgs : (m \in ToSet(box[a])) ~> (m \in seen \/ m \notin ToSet(box[a]))

(* A thread that was told to stop leaves its loop, expunges and ends.       *)
StopEndsThread == stop ~> (rx = "done")
=============================================================================
