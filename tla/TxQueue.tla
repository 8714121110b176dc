------------------------------- MODULE TxQueue -------------------------------
(***************************************************************************)
(* The outgoing half of the Qt client: the GUI thread hands messages to    *)
(* the transmit thread through a bounded queue guarded by two semaphores   *)
(* (qt/msgqueue.h, qt/txthread.cpp, MainWindow::SendTo), while the user    *)
(* may rewrite the network settings the thread tests (CMailClient::config) *)
(* and may close the application (MainWindow::quit).                       *)
(*                                                                         *)
(* A message is the number of its submission.  Every semaphore operation,  *)
(* every critical section of the queue's mutex and every locked read of    *)
(* the settings is a step of its own.                                      *)
(***************************************************************************)
EXTENDS Naturals, Sequences

CONSTANTS Capacity,   (* permits m_writable starts with (1000 in the code)  *)
          MaxMsgs     (* bound: messages the user submits in a behaviour    *)

ASSUME TxAssumption == Capacity \in Nat \ {0} /\ MaxMsgs \in Nat

VARIABLES
  queue,      (* MsgQueue::m_q                                              *)
  readable,   (* permits of MsgQueue::m_readable                            *)
  writable,   (* permits of MsgQueue::m_writable                            *)
  gui,        (* where the GUI thread is inside SendTo                      *)
  tx,         (* where the transmit thread is inside run()                  *)
  cur,        (* the message run() last popped; 0 before the first          *)
  config,     (* the settings that are not empty                            *)
  stop,       (* TxThread::m_fStopFlag                                      *)
  alive,      (* MainWindow::m_txth is not NULL                             *)
  next,       (* number of the next message the user submits                *)
  (* history *)
  accepted,   (* messages push() enqueued, in order                         *)
  dropped,    (* messages refused with "Tx Queue Overflow"                  *)
  unheard,    (* messages emitted when no transmit thread was connected     *)
  popped,     (* messages pop() returned, in order                          *)
  sent,       (* messages CMailClient::Tx reported as sent                  *)
  leaked,     (* read permits given up by the continue of the config test   *)
  late        (* messages popped after stop() was called                    *)

sharedVars  == <<queue, readable, writable>>
settingVars == <<config, stop, alive>>
vars == <<queue, readable, writable, gui, tx, cur, config, stop, alive, next,
          accepted, dropped, unheard, popped, sent, leaked, late>>

Fields == {"txUrl", "login", "password"}

(* The three getters run() calls before it pops, in evaluation order.       *)
AfterCheck == [txUrl |-> "login", login |-> "password", password |-> "pop"]

GuiPC == {"idle", "writable", "push", "release"}
TxPC  == {"head", "wait", "pop", "free", "transmit", "done"} \cup Fields

Init ==
  /\ queue = <<>> /\ readable = 0 /\ writable = Capacity
  /\ gui = "idle" /\ tx = "head" /\ cur = 0
  /\ config \in SUBSET Fields /\ stop = FALSE /\ alive = TRUE
  /\ next = 1
  /\ accepted = <<>> /\ dropped = {} /\ unheard = {}
  /\ popped = <<>> /\ sent = {} /\ leaked = 0 /\ late = 0
-----------------------------------------------------------------------------
(* Mutated forms of steps below, each a bug somebody could make there; they *)
(* take no part in the specification.                                       *)

(* writable() whose result is not looked at.                                *)
AcquireWritableUnchecked ==
  /\ gui = "writable"
  /\ writable' = IF writable > 0 THEN writable - 1 ELSE 0
  /\ gui' = "push"
  /\ UNCHANGED <<queue, readable, tx, cur, settingVars, next, accepted,
                 dropped, unheard, popped, sent, leaked, late>>

(* Overflow reported, the message pushed all the same.                      *)
OverflowPushes ==
  /\ gui = "writable" /\ writable = 0
  /\ dropped' = dropped \cup {next - 1}
  /\ gui' = "push"
  /\ UNCHANGED <<sharedVars, tx, cur, settingVars, next, accepted, unheard,
                 popped, sent, leaked, late>>

(* Off by one: the last place of the queue is never used.                   *)
OverflowEarly ==
  /\ gui = "writable" /\ writable <= 1
  /\ dropped' = dropped \cup {next - 1}
  /\ gui' = "idle"
  /\ UNCHANGED <<sharedVars, tx, cur, settingVars, next, accepted, unheard,
                 popped, sent, leaked, late>>

(* prepend() for enqueue().                                                 *)
EnqueueFront ==
  /\ gui = "push"
  /\ queue' = <<next - 1>> \o queue
  /\ accepted' = Append(accepted, next - 1)
  /\ gui' = "release"
  /\ UNCHANGED <<readable, writable, tx, cur, settingVars, next, dropped,
                 unheard, popped, sent, leaked, late>>

(* push() without the release.                                              *)
ReleaseReadableMissing ==
  /\ gui = "release"
  /\ gui' = "idle"
  /\ UNCHANGED <<sharedVars, tx, cur, settingVars, next, accepted, dropped,
                 unheard, popped, sent, leaked, late>>

(* The flag is not tested again.                                            *)
LoopForever ==
  /\ tx = "head"
  /\ tx' = "wait"
  /\ UNCHANGED <<sharedVars, gui, cur, settingVars, next, accepted, dropped,
                 unheard, popped, sent, leaked, late>>

(* The continue after readable() left out.                                  *)
ReadTimeoutFallsThrough ==
  /\ tx = "wait" /\ readable = 0
  /\ tx' = "txUrl"
  /\ UNCHANGED <<sharedVars, gui, cur, settingVars, next, accepted, dropped,
                 unheard, popped, sent, leaked, late>>

(* readable() tried again and again: the flag is not seen meanwhile.        *)
ReadRetries == tx = "wait" /\ readable = 0 /\ UNCHANGED vars

(* pop() without the release.                                               *)
ReleaseWritableMissing ==
  /\ tx = "free"
  /\ tx' = "transmit"
  /\ UNCHANGED <<sharedVars, gui, cur, settingVars, next, accepted, dropped,
                 unheard, popped, sent, leaked, late>>
-----------------------------------------------------------------------------
(* The GUI thread.                                                          *)

(* SendTo emits readyToSend; the slot runs at once, in the GUI thread, as   *)
(* long as the TxThread object it is connected to exists.                   *)
SendTo ==
  /\ gui = "idle" /\ next <= MaxMsgs /\ alive
  /\ next' = next + 1
  /\ gui' = "writable"
  /\ UNCHANGED <<sharedVars, tx, cur, settingVars, accepted, dropped, unheard,
                 popped, sent, leaked, late>>

(* The object is deleted and its connection with it: the signal goes to     *)
(* nobody, and SendTo goes on to record the message in the chat.            *)
SendToNobody ==
  /\ gui = "idle" /\ next <= MaxMsgs /\ ~alive
  /\ next' = next + 1
  /\ unheard' = unheard \cup {next}
  /\ UNCHANGED <<sharedVars, gui, tx, cur, settingVars, accepted, dropped,
                 popped, sent, leaked, late>>

(* writable(25) got a permit.                                               *)
AcquireWritable ==
  /\ gui = "writable" /\ writable > 0
  /\ writable' = writable - 1
  /\ gui' = "push"
  /\ UNCHANGED <<queue, readable, tx, cur, settingVars, next, accepted,
                 dropped, unheard, popped, sent, leaked, late>>

(* writable(25) timed out: the message is only mentioned in the log.        *)
Overflow ==
  /\ gui = "writable" /\ writable = 0
  /\ dropped' = dropped \cup {next - 1}
  /\ gui' = "idle"
  /\ UNCHANGED <<sharedVars, tx, cur, settingVars, next, accepted, unheard,
                 popped, sent, leaked, late>>

(* push(): the critical section, then the release of a read permit.         *)
Enqueue ==
  /\ gui = "push"
  /\ queue' = Append(queue, next - 1)
  /\ accepted' = Append(accepted, next - 1)
  /\ gui' = "release"
  /\ UNCHANGED <<readable, writable, tx, cur, settingVars, next, dropped,
                 unheard, popped, sent, leaked, late>>

ReleaseReadable ==
  /\ gui = "release"
  /\ readable' = readable + 1
  /\ gui' = "idle"
  /\ UNCHANGED <<queue, writable, tx, cur, settingVars, next, accepted,
                 dropped, unheard, popped, sent, leaked, late>>

(* The option dialog, accepted: all settings change under one lock.  The    *)
(* dialog that shutdown shows is modal, so this ends with quit().           *)
SetupNetwork(fields) ==
  /\ gui = "idle" /\ ~stop
  /\ config' = fields
  /\ UNCHANGED <<sharedVars, gui, tx, cur, stop, alive, next, accepted,
                 dropped, unheard, popped, sent, leaked, late>>

ShutdownNetwork ==
  /\ gui = "idle" /\ ~stop
  /\ stop' = TRUE
  /\ UNCHANGED <<sharedVars, gui, tx, cur, config, alive, next, accepted,
                 dropped, unheard, popped, sent, leaked, late>>

(* The queued done() signal: wait for the thread, delete it, forget it.     *)
OnTxDone ==
  /\ gui = "idle" /\ tx = "done" /\ alive
  /\ alive' = FALSE
  /\ UNCHANGED <<sharedVars, gui, tx, cur, config, stop, next, accepted,
                 dropped, unheard, popped, sent, leaked, late>>
-----------------------------------------------------------------------------
(* The transmit thread.                                                     *)

LoopHead ==
  /\ tx = "head"
  /\ tx' = IF stop THEN "done" ELSE "wait"
  /\ UNCHANGED <<sharedVars, gui, cur, settingVars, next, accepted, dropped,
                 unheard, popped, sent, leaked, late>>

(* readable(6000) got a permit, or ran out of time without one.             *)
AcquireReadable ==
  /\ tx = "wait" /\ readable > 0
  /\ readable' = readable - 1
  /\ tx' = "txUrl"
  /\ UNCHANGED <<queue, writable, gui, cur, settingVars, next, accepted,
                 dropped, unheard, popped, sent, leaked, late>>

ReadTimeout ==
  /\ tx = "wait" /\ readable = 0
  /\ tx' = "head"
  /\ UNCHANGED <<sharedVars, gui, cur, settingVars, next, accepted, dropped,
                 unheard, popped, sent, leaked, late>>

(* One getter of the configuration test, each under its own lock; an empty  *)
(* setting takes the loop back to its head without the permit it consumed.  *)
CheckField ==
  /\ tx \in Fields
  /\ IF tx \in config
       THEN tx' = AfterCheck[tx] /\ UNCHANGED leaked
       ELSE tx' = "head" /\ leaked' = leaked + 1
  /\ UNCHANGED <<sharedVars, gui, cur, settingVars, next, accepted, dropped,
                 unheard, popped, sent, late>>

(* pop(): the critical section, then the release of a write permit.         *)
Dequeue ==
  /\ tx = "pop" /\ queue # <<>>
  /\ cur' = Head(queue)
  /\ queue' = Tail(queue)
  /\ popped' = Append(popped, Head(queue))
  /\ late' = IF stop THEN late + 1 ELSE late
  /\ tx' = "free"
  /\ UNCHANGED <<readable, writable, gui, settingVars, next, accepted,
                 dropped, unheard, sent, leaked>>

ReleaseWritable ==
  /\ tx = "free"
  /\ writable' = writable + 1
  /\ tx' = "transmit"
  /\ UNCHANGED <<queue, readable, gui, cur, settingVars, next, accepted,
                 dropped, unheard, popped, sent, leaked, late>>

(* BitMail::Tx with the settings of this moment; its result is not used, so *)
(* a transfer that fails ends the message as one that succeeds does.        *)
Transmit(ok) ==
  /\ tx = "transmit"
  /\ ok => "txUrl" \in config
  /\ sent' = IF ok THEN sent \cup {cur} ELSE sent
  /\ tx' = "head"
  /\ UNCHANGED <<sharedVars, gui, cur, settingVars, next, accepted, dropped,
                 unheard, popped, leaked, late>>
-----------------------------------------------------------------------------
(* Everything the bounds allow has been submitted and the thread is gone.   *)
Terminated ==
  /\ gui = "idle" /\ ~alive /\ next > MaxMsgs
  /\ UNCHANGED vars

GuiNext == \/ SendTo \/ SendToNobody \/ AcquireWritable \/ Overflow
           \/ Enqueue \/ ReleaseReadable \/ ShutdownNetwork \/ OnTxDone
           \/ \E fields \in SUBSET Fields : SetupNetwork(fields)

TxNext  == \/ LoopHead \/ AcquireReadable \/ ReadTimeout \/ CheckField
           \/ Dequeue \/ ReleaseWritable
           \/ \E ok \in BOOLEAN : Transmit(ok)

Next == GuiNext \/ TxNext \/ Terminated

Spec == Init /\ [][Next]_vars

(* A started handler runs to its end, the event loop delivers done(), and   *)
(* the transmit thread is scheduled and its transfers return.  The user     *)
(* owes nothing.                                                            *)
SlotNext == AcquireWritable \/ Overflow \/ Enqueue \/ ReleaseReadable
Fairness == WF_vars(SlotNext) /\ WF_vars(OnTxDone) /\ WF_vars(TxNext)

FairSpec == Spec /\ Fairness
-----------------------------------------------------------------------------
(* Properties.                                                              *)

Msgs == 1 .. MaxMsgs
Elements(s) == {s[i] : i \in 1 .. Len(s)}
One(b) == IF b THEN 1 ELSE 0

TypeOK ==
  /\ queue \in Seq(Nat) /\ readable \in Nat /\ writable \in Nat
  /\ gui \in GuiPC /\ tx \in TxPC /\ cur \in Nat
  /\ config \in SUBSET Fields /\ stop \in BOOLEAN /\ alive \in BOOLEAN
  /\ next \in Nat /\ next > 0
  /\ accepted \in Seq(Nat) /\ dropped \in SUBSET Nat
  /\ unheard \in SUBSET Nat
  /\ popped \in Seq(Nat) /\ sent \in SUBSET Nat
  /\ leaked \in Nat /\ late \in Nat

(* The transmit thread owns a read permit it has not yet turned into a pop. *)
PermitInHand == tx \in Fields \cup {"pop"}

(* Every queued message has one read permit: in the semaphore, in the hands *)
(* of the thread that tests the settings, not yet released by push(), or    *)
(* given up for good by the continue of run().                              *)
ReadPermits == Len(queue) = readable + One(PermitInHand)
                              + One(gui = "release") + leaked

(* Every place of the queue is free, filled, claimed by a writable() whose  *)
(* push() has not happened, or emptied by a pop() that has not released it. *)
WritePermits == Capacity = writable + Len(queue) + One(gui = "push")
                              + One(tx = "free")

(* run() never calls QQueue::dequeue on an empty queue, whatever the GUI    *)
(* thread does between readable() and pop(), the settings included.         *)
DequeueSafe == tx = "pop" => queue # <<>>

(* What pop() returned, followed by what is queued, is what push() was      *)
(* given: nothing is lost, repeated or overtaken inside the queue.          *)
InOrder == accepted = popped \o queue

(* Each message SendTo recorded in the chat went one way only: enqueued,    *)
(* dropped on overflow, emitted to nobody, or still with the slot; and only *)
(* a message that was popped is ever reported as sent.                      *)
Accounted ==
  LET withSlot == IF gui \in {"writable", "push"} THEN {next - 1} ELSE {}
      parts == <<Elements(accepted), dropped, unheard, withSlot>>
  IN /\ UNION Elements(parts) = 1 .. next - 1
     /\ \A i, j \in 1 .. 4 : i # j => parts[i] \cap parts[j] = {}
     /\ sent \subseteq Elements(popped)

(* Once stop() was called the thread takes at most one more message, the    *)
(* one it was about to pop, and then only finishes that one; the rest of    *)
(* the queue is abandoned.                                                  *)
OneAfterStop ==
  late > 0 => late = 1 /\ stop /\ tx \in {"free", "transmit", "head", "done"}

(* Overflow is reported only when the queue is full, or is one short of it  *)
(* because a pop() is about to release the place: stranded messages count.  *)
DropOnlyWhenFull ==
  [][dropped' # dropped => Len(queue) + One(tx = "free") = Capacity]_vars

(* A thread that was told to stop ends: no wait in run() outlasts it.       *)
StopEndsThread == stop ~> (tx = "done")

(* With complete settings throughout, no accepted message waits for ever.   *)
AcceptedIsAttempted ==
  [](config = Fields /\ ~stop) =>
    \A m \in Msgs : (m \in Elements(accepted)) ~> (m \in Elements(popped))

(* Once the settings are complete and the user has stopped submitting, as   *)
(* many messages stay in the queue for ever as permits were given up while  *)
(* the settings were not complete.                                          *)
StrandedByLeaks ==
  <>[](config = Fields /\ ~stop) => <>[](Len(queue) = leaked)
-----------------------------------------------------------------------------
(* What a sender may rely on: a bounded first-in first-out channel that may *)
(* refuse a message only when it is (almost) full or closed.                *)
Channel == INSTANCE TxChannel WITH
             fifo <- queue, out <- popped, open <- alive,
             offered <- IF gui \in {"writable", "push"} THEN next - 2
                                                        ELSE next - 1

ChannelSpec == Channel!Spec
=============================================================================
