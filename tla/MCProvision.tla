----------------------------- MODULE MCProvision -----------------------------
(* What the hazards need, one scene each: launches in a row and over one   *)
(* another, in both modes, with faults; a host that changes between the    *)
(* gate, the launch and a screenshot; and instances that come and go.      *)
EXTENDS Provision

CONSTANTS l1, l2
MCLaunches == {l1, l2}

\* Two nodes that look the same but for what classify reads.
MCNodes == {[bootVga |-> FALSE, vram |-> "large", open |-> TRUE],
            [bootVga |-> TRUE, vram |-> "large", open |-> FALSE]}

Base == [launches |-> {}, modes |-> {"agent"}, ladder |-> <<>>, looks |-> {},
         faults |-> 0, changes |-> FALSE, numbers |-> FALSE, runtimeVar |-> "set"]

MCScenes ==
  {[Base EXCEPT !.launches = MCLaunches, !.modes = Modes, !.looks = {"attach"}, !.faults = 1],
   [Base EXCEPT !.launches = MCLaunches, !.looks = {"status"}, !.faults = 1],
   [Base EXCEPT !.launches = {l1}, !.modes = Modes, !.looks = {"status", "attach"}, !.faults = 2],
   [Base EXCEPT !.launches = {l1}, !.looks = {"status"}, !.runtimeVar = "empty"],
   [Base EXCEPT !.launches = {l1}, !.looks = {"screenshot"}, !.changes = TRUE,
                !.ladder = <<"integrated", "discrete">>],
   [Base EXCEPT !.launches = {l1}, !.changes = TRUE, !.ladder = <<"discrete", "software">>],
   [Base EXCEPT !.numbers = TRUE]}
=============================================================================
