-------------------------------- MODULE MCChat --------------------------------
(* Three users: one whose address decodeReceips leaves alone, one with a    *)
(* capital letter, one with a hyphen.  Without the hyphen the third address *)
(* is nobody's; in small letters the second is still its owner's.           *)
EXTENDS Chat

CONSTANTS alice, bob, carol, a, Bc, b, cc, c

MCUsers == {alice, bob, carol}
MCNames == {a, Bc, b, cc, c}
MCAddr  == [u \in MCUsers |-> CASE u = alice -> a [] u = bob -> Bc [] u = carol -> cc]
MCNorm  == [n \in MCNames |-> CASE n = Bc -> b [] n = cc -> c [] OTHER -> n]
MCOwner == [n \in MCNames |-> CASE n = a -> alice [] n \in {b, Bc} -> bob
                                [] n = cc -> carol [] n = c -> Nobody]
=============================================================================
