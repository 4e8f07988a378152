----------------------------- MODULE MCWorkState -----------------------------
(* A heartbeat file that is polled every two seconds and counts as late    *)
(* from its first beat; and the turn heartbeat, polled every second, which *)
(* is late after a second.                                                 *)
EXTENDS WorkState

MCBoth == {"$turn", "build"}
MCTurnBeat == "$turn"
MCLabel == [h \in Senders |-> h]
MCInterval == [h \in Senders |-> IF h = TurnBeat THEN 1 ELSE 2]
MCTimeout == [h \in Senders |-> IF h = TurnBeat THEN 1 ELSE 0]
=============================================================================
