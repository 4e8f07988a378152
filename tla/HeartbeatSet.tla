----------------------------- MODULE HeartbeatSet -----------------------------
(***************************************************************************)
(* Which heartbeat files have a task: run_heartbeat_set and                *)
(* load_heartbeats of rust/katsuobushi-sandbox-guest/src, and eval_scan,   *)
(* which compares a scan of the heartbeat directories with the last one.   *)
(* The agent edits the files at any time, between the listing of a         *)
(* directory and the reading of its files included.                        *)
(***************************************************************************)
EXTENDS Naturals, FiniteSets

CONSTANTS
  Paths,     \* the heartbeat files of one directory
  Bodies,    \* what a file that parses may define
  MaxEdits   \* bound of the model: edits, and failures of the directory

ASSUME HeartbeatSetAssumption ==
  /\ MaxEdits \in Nat
  /\ Bodies \cap {"absent", "broken", "none"} = {}

VARIABLES
  files,    \* per path, its contents
  listable, \* whether read_dir succeeds
  scan,     \* the rescan in progress, and the paths it has listed
  loaded,   \* HeartbeatSetState::loaded
  broken,   \* HeartbeatSetState::broken
  handles,  \* per path, the body its task runs, "none" without a task
  said,     \* per path, errors reported since it last had a task (history)
  bad,      \* per path, whether the last scan found an error there (history)
  edits     \* edits made so far

setVars == <<files, listable, scan, loaded, broken, handles, said, bad, edits>>

-----------------------------------------------------------------------------
Contents == Bodies \cup {"absent", "broken"}
Dir == "dir"                          \* the directory, as the file of an error
Reported == Paths \cup {Dir}

SetInit ==
  /\ files \in [Paths -> Contents] /\ listable = TRUE
  /\ scan = [pc |-> "sleep", listed |-> {}]
  /\ loaded = {} /\ broken = {}
  /\ handles = [p \in Paths |-> "none"]
  /\ said = [p \in Reported |-> 0]
  /\ bad = [p \in Reported |-> FALSE]
  /\ edits = 0

-----------------------------------------------------------------------------
Edits(p, c) ==
  /\ edits < MaxEdits /\ files[p] # c
  /\ files' = [files EXCEPT ![p] = c]
  /\ edits' = edits + 1
  /\ UNCHANGED <<listable, scan, loaded, broken, handles, said, bad>>

DirectoryFlips ==
  /\ edits < MaxEdits
  /\ listable' = ~listable
  /\ edits' = edits + 1
  /\ UNCHANGED <<files, scan, loaded, broken, handles, said, bad>>

\* load_heartbeats, first half: the paths there are.
Lists ==
  /\ scan.pc = "sleep" /\ listable
  /\ scan' = [pc |-> "listed", listed |-> {p \in Paths : files[p] # "absent"}]
  /\ UNCHANGED <<files, listable, loaded, broken, handles, said, bad, edits>>

\* Mutant: what is gone stays loaded.
KeptOfNothing(valid) == loaded

\* eval_scan: what is loaded and no longer valid is stopped.
Kept(valid) == loaded \cap valid

\* Mutant: starting a file does not clear its error.
StillBrokenForever(started) == broken

StillBroken(started) == broken \ started

\* eval_scan of the paths that parsed and those that gave an error, and the
\* aborts and spawns that follow it.
Applies(valid, errors) ==
  LET started == valid \ Kept(valid)
      fresh == errors \ StillBroken(started) IN
  /\ loaded' = Kept(valid) \cup started
  /\ broken' = StillBroken(started) \cup fresh
  /\ handles' = [p \in Paths |-> IF p \in started THEN files[p]
                                 ELSE IF p \in Kept(valid) THEN handles[p] ELSE "none"]
  /\ said' = [p \in Reported |-> (IF p \in started THEN 0 ELSE said[p])
                                 + (IF p \in fresh THEN 1 ELSE 0)]
  /\ bad' = [p \in Reported |-> p \in errors]
  /\ scan' = [pc |-> "sleep", listed |-> {}]
  /\ UNCHANGED <<files, listable, edits>>

\* Second half, and the evaluation: a file deleted meanwhile is an error too.
Reads ==
  /\ scan.pc = "listed"
  /\ LET valid == {p \in scan.listed : files[p] \in Bodies} IN
       Applies(valid, scan.listed \ valid)

\* The directory cannot be read: one error, and no heartbeat is valid.
CannotList ==
  /\ scan.pc = "sleep" /\ ~listable
  /\ Applies({}, {Dir})

SetNext ==
  \/ \E p \in Paths, c \in Contents : Edits(p, c)
  \/ DirectoryFlips
  \/ Lists \/ Reads \/ CannotList

SetSpec == SetInit /\ [][SetNext]_setVars

(* The interval of the rescan elapses again and again.                     *)
FairSetSpec == SetSpec /\ WF_setVars(Lists \/ Reads \/ CannotList)

-----------------------------------------------------------------------------
(* Types; a path is either loaded or known to be broken, and exactly the   *)
(* loaded paths have a task: a task without an entry could never be        *)
(* aborted, an entry without a task would never beat.                      *)
SetTypeOK ==
  /\ files \in [Paths -> Contents] /\ listable \in BOOLEAN
  /\ scan \in [pc : {"sleep", "listed"}, listed : SUBSET Paths]
  /\ loaded \subseteq Paths /\ broken \subseteq Reported
  /\ loaded \cap broken = {}
  /\ handles \in [Paths -> Bodies \cup {"none"}]
  /\ \A p \in Paths : p \in loaded <=> handles[p] # "none"

(* "Once per broken path": what is broken has been reported, once since it *)
(* last worked, and a file that breaks again after having been mended is   *)
(* reported again.                                                         *)
ReportedOncePerBreak ==
  \A p \in Reported : said[p] <= 1 /\ (bad[p] => said[p] = 1)

(* What is loaded, what runs and what is known to be broken fit together.  *)
SetIsConsistent == SetTypeOK /\ ReportedOncePerBreak

(* A file that is mended or added, and stays so, gets a task without a     *)
(* restart of the guest; one that is deleted or broken loses its task.     *)
TasksFollowFiles ==
  \A p \in Paths :
    /\ files[p] \in Bodies ~> (handles[p] # "none" \/ files[p] \notin Bodies \/ ~listable)
    /\ files[p] \notin Bodies ~> (handles[p] = "none" \/ files[p] \in Bodies)

=============================================================================
