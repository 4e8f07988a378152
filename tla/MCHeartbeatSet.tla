---------------------------- MODULE MCHeartbeatSet ----------------------------
(* Two heartbeat files, each with two definitions that parse.              *)
EXTENDS HeartbeatSet

MCPaths == {"build", "tests"}
MCBodies == {"a", "b"}
=============================================================================
