--------------------------- MODULE MCGuestServer ---------------------------
(* The guest server with two concurrent effect tasks besides control.      *)
EXTENDS GuestServer, TLC

CONSTANTS t1, t2

MCTurnIds == {1, 2}
MCStatuses == {"working", "done"}
MCTasks == {t1, t2}

\* Tasks differ only in name; used by the runs without temporal properties.
TaskSymmetry == Permutations(MCTasks)
=============================================================================
