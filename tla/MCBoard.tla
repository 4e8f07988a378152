------------------------------- MODULE MCBoard -------------------------------
(* Three cards, a chain: a, the youngest, blocks c, which blocks b, the    *)
(* oldest.  Two commands that may overlap, from every board that the       *)
(* commands can have left.                                                 *)
EXTENDS Board, TLC

CONSTANTS u1, u2

MCCards == {"a", "b", "c"}
MCBlockers == ("a" :> {}) @@ ("b" :> {"c"}) @@ ("c" :> {"a"})
MCCreated == [c \in MCCards |-> IF c = "b" THEN 1 ELSE IF c = "c" THEN 2 ELSE 3]
MCUsers == {u1, u2}
UserSymmetry == Permutations(MCUsers)
=============================================================================
