------------------------------ MODULE TxChannel ------------------------------
(***************************************************************************)
(* What MsgQueue and the transmit thread promise to SendTo, without        *)
(* semaphores, threads or settings: messages are offered in the order of   *)
(* their numbers, each is kept or refused, and those kept leave in order.  *)
(***************************************************************************)
EXTENDS Naturals, Sequences

CONSTANT Capacity

VARIABLES fifo,     (* messages kept and not yet taken                      *)
          out,      (* messages taken for transmission                      *)
          offered,  (* number of the last message kept or refused           *)
          open      (* somebody takes messages                              *)

vars == <<fifo, out, offered, open>>

Init == fifo = <<>> /\ out = <<>> /\ offered = 0 /\ open = TRUE

Keep ==
  /\ Len(fifo) < Capacity
  /\ offered' = offered + 1
  /\ fifo' = Append(fifo, offered')
  /\ UNCHANGED <<out, open>>

(* A refusal needs a full channel; the place of the message that is being   *)
(* taken may not be free yet.                                               *)
Refuse ==
  /\ ~open \/ Len(fifo) + 1 >= Capacity
  /\ offered' = offered + 1
  /\ UNCHANGED <<fifo, out, open>>

Take ==
  /\ open /\ fifo # <<>>
  /\ out' = Append(out, Head(fifo))
  /\ fifo' = Tail(fifo)
  /\ UNCHANGED <<offered, open>>

Close ==
  /\ open /\ open' = FALSE
  /\ UNCHANGED <<fifo, out, offered>>

Next == Keep \/ Refuse \/ Take \/ Close

Spec == Init /\ [][Next]_vars
=============================================================================
