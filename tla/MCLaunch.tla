------------------------------ MODULE MCLaunch ------------------------------
(* Instances as decide_name mints them: a dispatched card, a reviewer, and *)
(* no name at all.                                                         *)
EXTENDS Launch, TLC

CONSTANTS p1, p2, q1, cid1, cid2, port1, port2

Implementor == [kind |-> "card",     card |-> "c", hex8 |-> TRUE,  salt |-> 1]
Reviewer    == [kind |-> "review",   card |-> "c", hex8 |-> TRUE,  salt |-> 1]
Unnamed     == [kind |-> "unnamed",  card |-> "none", hex8 |-> FALSE, salt |-> 1]

MCNames == {Reviewer, Unnamed}
MCImplementor == {Implementor}
MCStarters == {p1, p2}
MCOneStarter == {p1}
MCStoppers == {q1}
MCCids == {cid1, cid2}
MCPorts == {port1, port2}
MCCards == {"c"}
MCSymmetry == Permutations(MCStarters) \cup Permutations(MCCids) \cup Permutations(MCPorts)
=============================================================================
