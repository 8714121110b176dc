------------------------------- MODULE Shutdown -------------------------------
(***************************************************************************)
(* How the Qt client ends: MainWindow::quit, from the menu or from         *)
(* closeEvent, tells both network threads to stop and waits in a dialog    *)
(* until their queued done() signals have been handled; main() then saves  *)
(* the profile and frees the BitMail instance the threads work with        *)
(* (qt/mainwindow.cpp, qt/rxthread.cpp, qt/txthread.cpp, qt/main.cpp).     *)
(*                                                                         *)
(* A thread is seen by whether it is inside a call on the instance.  Qt's  *)
(* event loop is external: posted signals are handled in order, quit()     *)
(* only asks the loops to end and returns.                                 *)
(***************************************************************************)
EXTENDS Naturals, Sequences

CONSTANT MaxMail   (* bound: messages received in a behaviour               *)

ASSUME ShutdownAssumption == MaxMail \in Nat

Threads == {"rx", "tx"}

VARIABLES
  gui,        (* where the main thread is, or how the process died: "abort" *)
              (* for a QThread deleted while it runs, "crash" for a NULL    *)
              (* pointer dereferenced                                       *)
  tray,       (* there is a system tray: without one trayIcon stays NULL    *)
  caller,     (* what called quit()                                         *)
  stop,       (* the threads' m_fStopFlag                                   *)
  pc,         (* where each thread is in run()                              *)
  alive,      (* m_rxth, m_txth are not NULL                                *)
  events,     (* signals posted to the main window: a mail, or done()       *)
  (* history *)
  emitted, shown,  (* gotMessage signals emitted, and handled               *)
  dismissed,  (* the user closed the shutdown dialog                        *)
  saved       (* SaveProfile was called after the event loop                *)

vars == <<gui, tray, caller, stop, pc, alive, events, emitted, shown,
          dismissed, saved>>

(* Inside a call on the BitMail instance.                                   *)
Using(t) == pc[t] \in {"use", "expunge"}

Init ==
  /\ gui = "loop" /\ tray \in BOOLEAN /\ caller = "none" /\ stop = FALSE
  /\ pc = [t \in Threads |-> "head"] /\ alive = [t \in Threads |-> TRUE]
  /\ events = <<>> /\ emitted = 0 /\ shown = 0
  /\ dismissed = FALSE /\ saved = FALSE

Goto(t, label) == pc' = [pc EXCEPT ![t] = label]
-----------------------------------------------------------------------------
(* Mutated forms of steps below, each a bug somebody could make there; they *)
(* take no part in the specification.                                       *)

(* The slot closes the dialog without looking at the other thread.          *)
OnDoneOfEither(t) ==
  /\ gui \in {"loop", "dialog", "after"} /\ events # <<>> /\ Head(events) = t
  /\ events' = Tail(events)
  /\ IF pc[t] = "finished"
       THEN /\ alive' = [alive EXCEPT ![t] = FALSE]
            /\ gui' = IF gui = "dialog" THEN "after" ELSE gui
       ELSE gui' = "abort" /\ UNCHANGED alive
  /\ UNCHANGED <<tray, caller, stop, pc, emitted, shown, dismissed, saved>>

(* Only onRxDone closes the dialog.                                         *)
OnDoneOfRxCloses(t) ==
  /\ gui \in {"loop", "dialog", "after"} /\ events # <<>> /\ Head(events) = t
  /\ events' = Tail(events)
  /\ IF pc[t] = "finished"
       THEN /\ alive' = [alive EXCEPT ![t] = FALSE]
            /\ gui' = IF gui = "dialog" /\ t = "rx" /\ ~alive["tx"]
                        THEN "after" ELSE gui
       ELSE gui' = "abort" /\ UNCHANGED alive
  /\ UNCHANGED <<tray, caller, stop, pc, emitted, shown, dismissed, saved>>

(* gotMessage connected twice.                                              *)
ReceiveTwice ==
  /\ pc["rx"] = "use" /\ emitted < MaxMail
  /\ emitted' = emitted + 1
  /\ events' = events \o <<"mail", "mail">>
  /\ UNCHANGED <<gui, tray, caller, stop, pc, alive, shown, dismissed, saved>>
-----------------------------------------------------------------------------
(* The network threads; they run until the process ends.                    *)

Loop(t) ==
  /\ pc[t] = "head"
  /\ Goto(t, IF ~stop THEN "wait" ELSE IF t = "rx" THEN "expunge" ELSE "emit")
  /\ UNCHANGED <<gui, tray, caller, stop, alive, events, emitted, shown,
                 dismissed, saved>>

(* The wait for work ends: run() asks the instance for its settings and     *)
(* perhaps transfers; TxThread goes back if there is no message.            *)
Wake(t) ==
  /\ pc[t] = "wait"
  /\ \/ Goto(t, "use")
     \/ t = "tx" /\ Goto(t, "head")
  /\ UNCHANGED <<gui, tray, caller, stop, alive, events, emitted, shown,
                 dismissed, saved>>

(* EmailHandler reports a message: gotMessage is posted.                    *)
Receive ==
  /\ pc["rx"] = "use" /\ emitted < MaxMail
  /\ emitted' = emitted + 1
  /\ events' = Append(events, "mail")
  /\ UNCHANGED <<gui, tray, caller, stop, pc, alive, shown, dismissed, saved>>

Return(t) ==
  /\ Using(t)
  /\ Goto(t, IF pc[t] = "use" THEN "head" ELSE "emit")
  /\ UNCHANGED <<gui, tray, caller, stop, alive, events, emitted, shown,
                 dismissed, saved>>

EmitDone(t) ==
  /\ pc[t] = "emit"
  /\ events' = Append(events, t)
  /\ Goto(t, "leaving")
  /\ UNCHANGED <<gui, tray, caller, stop, alive, emitted, shown, dismissed,
                 saved>>

Finish(t) ==
  /\ pc[t] = "leaving"
  /\ Goto(t, "finished")
  /\ UNCHANGED <<gui, tray, caller, stop, alive, events, emitted, shown,
                 dismissed, saved>>
-----------------------------------------------------------------------------
(* The main thread.                                                         *)

(* quit(): shutdownNetwork, then the dialog's own event loop.  closeEvent   *)
(* calls it only without a tray, and hides the window with one.             *)
Quit(c) ==
  /\ gui = "loop" /\ (c = "closeEvent" => ~tray)
  /\ caller' = c
  /\ stop' = TRUE
  /\ gui' = IF \E t \in Threads : alive[t] THEN "dialog" ELSE "after"
  /\ UNCHANGED <<tray, pc, alive, events, emitted, shown, dismissed, saved>>

(* A loop that was asked to end may still handle what is posted.            *)
Delivering == gui \in {"loop", "dialog", "after"} /\ events # <<>>

(* The first call, showTrayMessage, dereferences trayIcon whatever it is:   *)
(* without a tray the first mail ends the process.                          *)
OnNewMessage ==
  /\ Delivering /\ Head(events) = "mail"
  /\ events' = Tail(events)
  /\ \/ tray /\ shown' = shown + 1 /\ UNCHANGED gui
     \/ ~tray /\ gui' = "crash" /\ UNCHANGED shown
  /\ UNCHANGED <<tray, caller, stop, pc, alive, emitted, dismissed, saved>>

(* onRxDone, onTxDone: wait(1000), delete, and close the dialog when both   *)
(* threads are gone.  A QThread deleted while it runs aborts the process.   *)
OnDone(t) ==
  /\ Delivering /\ Head(events) = t
  /\ events' = Tail(events)
  /\ IF pc[t] = "finished"
       THEN /\ alive' = [alive EXCEPT ![t] = FALSE]
            /\ gui' = IF gui = "dialog" /\ \A u \in Threads : ~alive'[u]
                        THEN "after" ELSE gui
       ELSE gui' = "abort" /\ UNCHANGED alive
  /\ UNCHANGED <<tray, caller, stop, pc, emitted, shown, dismissed, saved>>

(* The dialog is an ordinary one: Escape or its close button ends it.       *)
Dismiss ==
  /\ gui = "dialog" /\ gui' = "after"
  /\ dismissed' = TRUE
  /\ UNCHANGED <<tray, caller, stop, pc, alive, events, emitted, shown, saved>>

(* QCoreApplication::quit() has returned, and quit() with it.               *)
ReturnFromQuit ==
  /\ gui = "after"
  /\ gui' = IF caller = "closeEvent" THEN "accept" ELSE "save"
  /\ UNCHANGED <<tray, caller, stop, pc, alive, events, emitted, shown,
                 dismissed, saved>>

(* closeEvent goes on with event->accept(), although its comment says that  *)
(* this line is not reached.                                                *)
CloseEventAccept ==
  /\ gui = "accept" /\ gui' = "save"
  /\ UNCHANGED <<tray, caller, stop, pc, alive, events, emitted, shown,
                 dismissed, saved>>

(* app.exec() has returned.                                                 *)
SaveProfile ==
  /\ gui = "save" /\ gui' = "saved"
  /\ saved' = TRUE
  /\ UNCHANGED <<tray, caller, stop, pc, alive, events, emitted, shown,
                 dismissed>>

FreeInst ==
  /\ gui = "saved" /\ gui' = "freed"
  /\ UNCHANGED <<tray, caller, stop, pc, alive, events, emitted, shown,
                 dismissed, saved>>

Exit ==
  /\ gui = "freed" /\ gui' = "exit"
  /\ UNCHANGED <<tray, caller, stop, pc, alive, events, emitted, shown,
                 dismissed, saved>>
-----------------------------------------------------------------------------
Ended == gui \in {"exit", "abort", "crash"}

Terminated == Ended /\ UNCHANGED vars

ThreadNext(t) ==
  /\ ~Ended
  /\ \/ Loop(t) \/ Wake(t) \/ Return(t) \/ EmitDone(t) \/ Finish(t)
     \/ t = "rx" /\ Receive

UserNext == Dismiss \/ \E c \in {"menu", "closeEvent"} : Quit(c)

MainNext == \/ OnNewMessage \/ \E t \in Threads : OnDone(t)
            \/ ReturnFromQuit \/ CloseEventAccept
            \/ SaveProfile \/ FreeInst \/ Exit

Next == \/ \E t \in Threads : ThreadNext(t)
        \/ UserNext \/ MainNext \/ Terminated

Spec == Init /\ [][Next]_vars

(* Both threads and the main thread are scheduled, transfers return, and    *)
(* the user need not do anything.                                           *)
FairSpec == Spec /\ WF_vars(MainNext) /\ \A t \in Threads : WF_vars(ThreadNext(t))
-----------------------------------------------------------------------------
(* Properties.                                                              *)

TypeOK ==
  /\ gui \in {"loop", "dialog", "after", "accept", "save", "saved", "freed",
              "exit", "abort", "crash"}
  /\ tray \in BOOLEAN /\ caller \in {"none", "menu", "closeEvent"}
  /\ stop \in BOOLEAN /\ alive \in [Threads -> BOOLEAN]
  /\ pc \in [Threads -> {"head", "wait", "use", "expunge", "emit", "leaving",
                         "finished"}]
  /\ events \in Seq(Threads \cup {"mail"})
  /\ emitted \in 0 .. MaxMail /\ shown \in 0 .. MaxMail
  /\ dismissed \in BOOLEAN /\ saved \in BOOLEAN

(* Neither thread is inside a call on the BitMail instance, nor can still   *)
(* make one, when main() has freed it, unless the user closed the dialog.   *)
FreedUnused ==
  gui = "freed" => dismissed \/ \A t \in Threads : pc[t] = "finished"

(* Every message EmailHandler reported, which the server then loses to the  *)
(* final EXPUNGE, has reached the window when the profile is saved and      *)
(* until the process exits, unless the user closed the dialog.  Where there *)
(* is no tray a process that gets here was reported no message at all: the  *)
(* first one would have ended it (QuitSaves).                               *)
MailShown ==
  gui \in {"saved", "freed", "exit"} =>
    \/ dismissed
    \/ shown = emitted /\ (~tray => emitted = 0)

(* The two done() slots between them always end the dialog: who asked to    *)
(* quit gets the profile saved, unless a thread took a second to end or,    *)
(* where there is no tray, a message reported before the end was handled    *)
(* and killed the process, itself never shown.                              *)
QuitSaves ==
  stop ~> \/ saved \/ gui = "abort"
          \/ ~tray /\ gui = "crash" /\ shown < emitted
=============================================================================
