--------------------------- MODULE MCTurnProtocol ---------------------------
(* Two prompts in a row to one guest.                                      *)
EXTENDS TurnProtocol

MCTurnIds == {1, 2}
MCStatuses == {"working", "done"}
MCBoth == BOOLEAN
=============================================================================
