--------------------------- MODULE MCTurnSession ---------------------------
(* The turn-state machine on two turn ids: a turn and one that supersedes  *)
(* it, each of which a late resend may open a second time.                 *)
EXTENDS TurnSession

MCTurnIds == {1, 2}
MCStatuses == {"working", "done"}
=============================================================================
