------------------------------ MODULE MCSessions ------------------------------
(* Sessions for TLC: the user, and a friend whose address has a capital     *)
(* letter, which decodeReceips lowers.                                      *)
EXTENDS Sessions

CONSTANTS me, Bc, b

MCNames == {me, Bc, b}
MCNorm  == [n \in MCNames |-> IF n = Bc THEN b ELSE n]
=============================================================================
