--------------------------- MODULE LivenessRecord ---------------------------
(***************************************************************************)
(* liveness.json, the host's record of an instance: the turn-id counter    *)
(* and the freshness of the control stream (katsuobushi-controller/src/    *)
(* sandbox/liveness.rs).  Each `sandbox prompt` process allocates an id,   *)
(* connects, marks the stream active, touches the record as heartbeats     *)
(* come, and clears the mark.  Each of these is a load, a change and a     *)
(* store, the store is a write of one shared temporary file and a rename,  *)
(* and nothing locks the record.  A process may be killed between any two  *)
(* of these steps.                                                         *)
(***************************************************************************)
EXTENDS Naturals, FiniteSets

CONSTANTS
  Drivers,    \* `sandbox prompt` processes that may be alive at once
  HbDeadline, \* heartbeat_secs * heartbeat_miss, in ticks of the clock
  MaxTurns,   \* bound of the model: the highest id handed out
  MaxTime     \* bound of the model: ticks of the clock

ASSUME LivenessAssumption ==
  HbDeadline \in Nat /\ MaxTurns \in Nat /\ MaxTime \in Nat

VARIABLES
  file,    \* liveness.json: a record, or Missing, or Corrupt
  tmp,     \* .liveness.json.tmp: a record, or Missing
  driver,  \* per process, what it is doing
  given,   \* per id, whether it was handed out: never, once, more often (history)
  now,     \* the clock
  seen,    \* when a process was last attached to the stream (history)
  raced,   \* whether two processes ever changed the record at once (history)
  rewound  \* whether a record that is there was ever loaded as none (history)

livenessVars == <<file, tmp, driver, given, now, seen, raced, rewound>>

Never == MaxTime + 1
Liveness == [kind : {"record"}, next : Nat, beat : 0..Never, active : BOOLEAN]
Fresh   == [kind |-> "record", next |-> 1, beat |-> Never, active |-> FALSE]
Missing == [Fresh EXCEPT !.kind = "missing"]
Corrupt == [Fresh EXCEPT !.kind = "corrupt"]

\* task is the read-modify-write in progress, step how far it is; a process
\* that streams between two heartbeats has task "stream".
Tasks == {"off", "alloc", "connect", "activate", "stream", "touch", "deactivate"}
Rests == {"off", "connect", "stream"}
Off == [task |-> "off", step |-> "load", copy |-> Fresh]

Attached(d) == driver[d].task \in {"activate", "stream", "touch", "deactivate"}

LivenessInit ==
  /\ file = Missing /\ tmp = Missing
  /\ driver = [d \in Drivers |-> Off]
  /\ given = [i \in 1..MaxTurns |-> 0]
  /\ now = 0 /\ seen = Never /\ raced = FALSE /\ rewound = FALSE

-----------------------------------------------------------------------------
Goes(d, task) == driver' = [driver EXCEPT ![d] = [Off EXCEPT !.task = task]]

\* What follows a read-modify-write, whether it succeeded or not.
After(task, ok) ==
  CASE task = "alloc"      -> IF ok THEN "connect" ELSE "off"
    [] task = "activate"   -> "stream"
    [] task = "touch"      -> "stream"
    [] task = "deactivate" -> "off"

\* A heartbeat is stamped if the host's clock answers (`date`).
Change(task, r, clock) ==
  CASE task = "alloc"      -> [r EXCEPT !.next = @ + 1]
    [] task = "activate"   -> [r EXCEPT !.active = TRUE]
    [] task = "touch"      -> [r EXCEPT !.active = TRUE, !.beat = IF clock THEN now ELSE @]
    [] task = "deactivate" -> [r EXCEPT !.active = FALSE]

\* A load while another process is between its load and its rename.
Races(d) ==
  raced' = (raced \/ \E e \in Drivers \ {d} : driver[e].step \in {"write", "rename"})

\* What a read of the record yields: a file that is missing, or cannot be
\* read, is a clean slate.
Contents(readable) == IF readable /\ file # Missing THEN file ELSE Fresh

\* Mutant: a record that does not parse is taken for an empty one.
LoadsDefault(d) ==
  /\ driver[d].task \notin Rests /\ driver[d].step = "load"
  /\ \E readable, clock \in BOOLEAN :
       LET r == IF file = Corrupt THEN Fresh ELSE Contents(readable) IN
       /\ driver[d].task = "alloc" => r.next <= MaxTurns
       /\ driver' = [driver EXCEPT ![d].step = "write",
                                   ![d].copy = Change(driver[d].task, r, clock)]
       /\ rewound' = (rewound \/ (~readable /\ file # Missing))
  /\ Races(d)
  /\ UNCHANGED <<file, tmp, given, now, seen>>

\* Liveness::load and the change to the copy; a record that does not parse
\* makes the operation fail.
Loads(d) ==
  /\ driver[d].task \notin Rests /\ driver[d].step = "load"
  /\ \E readable, clock \in BOOLEAN :
       LET r == Contents(readable) IN
       /\ IF r = Corrupt
            THEN Goes(d, After(driver[d].task, FALSE))
            ELSE /\ driver[d].task = "alloc" => r.next <= MaxTurns
                 /\ driver' = [driver EXCEPT ![d].step = "write",
                                             ![d].copy = Change(driver[d].task, r, clock)]
       /\ rewound' = (rewound \/ (~readable /\ file # Missing))
  /\ Races(d)
  /\ UNCHANGED <<file, tmp, given, now, seen>>

\* Liveness::store, first half: the temporary file.
Writes(d) ==
  /\ driver[d].step = "write"
  /\ tmp' = driver[d].copy
  /\ driver' = [driver EXCEPT ![d].step = "rename"]
  /\ UNCHANGED <<file, given, now, seen, raced, rewound>>

\* Second half: the rename, which fails when another process renamed the
\* temporary file away.  alloc_turn_id hands its id out after it.
Replaces(d) ==
  /\ driver[d].step = "rename"
  /\ LET ok == tmp # Missing IN
     /\ file' = IF ok THEN tmp ELSE file
     /\ tmp' = Missing
     /\ given' = IF ok /\ driver[d].task = "alloc"
                   THEN [given EXCEPT ![driver[d].copy.next - 1] = IF @ = 0 THEN 1 ELSE 2]
                   ELSE given
     /\ Goes(d, After(driver[d].task, ok))
  /\ UNCHANGED <<now, seen, raced, rewound>>

-----------------------------------------------------------------------------
Prompts(d) ==
  /\ driver[d].task = "off"
  /\ Goes(d, "alloc")
  /\ UNCHANGED <<file, tmp, given, now, seen, raced, rewound>>

\* connect_with_retry: reached, or timed out (the id is spent).
Connects(d) ==
  /\ driver[d].task = "connect"
  /\ \/ Goes(d, "activate") /\ seen' = now
     \/ Goes(d, "off") /\ UNCHANGED seen
  /\ UNCHANGED <<file, tmp, given, now, raced, rewound>>

HeartbeatComes(d) ==
  /\ driver[d].task = "stream"
  /\ Goes(d, "touch")
  /\ UNCHANGED <<file, tmp, given, now, seen, raced, rewound>>

DriveReturns(d) ==
  /\ driver[d].task = "stream"
  /\ Goes(d, "deactivate")
  /\ UNCHANGED <<file, tmp, given, now, seen, raced, rewound>>

Killed(d) ==
  /\ driver[d].task # "off"
  /\ Goes(d, "off")
  /\ UNCHANGED <<file, tmp, given, now, seen, raced, rewound>>

\* A record that this build cannot read: damaged, or of another version.
Corrupts ==
  /\ file # Corrupt
  /\ file' = Corrupt
  /\ UNCHANGED <<tmp, driver, given, now, seen, raced, rewound>>

Tick ==
  /\ now < MaxTime
  /\ now' = now + 1
  /\ seen' = IF \E d \in Drivers : Attached(d) THEN now + 1 ELSE seen
  /\ UNCHANGED <<file, tmp, driver, given, raced, rewound>>

LivenessNext ==
  \/ \E d \in Drivers :
       \/ Prompts(d) \/ Loads(d) \/ Writes(d) \/ Replaces(d)
       \/ Connects(d) \/ HeartbeatComes(d) \/ DriveReturns(d) \/ Killed(d)
  \/ Corrupts \/ Tick

LivenessSpec == LivenessInit /\ [][LivenessNext]_livenessVars

-----------------------------------------------------------------------------
(* Types; in particular a process only ever stores a record that parses.   *)
LivenessTypeOK ==
  /\ file \in Liveness \cup {Missing, Corrupt}
  /\ tmp \in Liveness \cup {Missing}
  /\ driver \in [Drivers -> [task : Tasks, step : {"load", "write", "rename"},
                             copy : Liveness]]
  /\ given \in [1..MaxTurns -> 0..2]
  /\ now \in 0..MaxTime /\ seen \in 0..Never /\ raced \in BOOLEAN /\ rewound \in BOOLEAN

(* "A corrupt record fails the turn loudly rather than reusing an id"      *)
(* (alloc_turn_id): the guest drops a prompt whose id it has seen, so an   *)
(* id handed out twice loses a turn.  None is, wherever a process is       *)
(* killed and whatever is corrupted or left behind in the temporary file,  *)
(* unless two processes change the record at once (alloc_turn_id takes no  *)
(* lock: "two distinct turns can never collide" needs one), or a record    *)
(* that is there could not be read, which load takes for a clean slate.    *)
ReuseHasACause == ~raced /\ ~rewound => \A i \in 1..MaxTurns : given[i] <= 1

(* A process stores a record that parses, and hands no id out again but    *)
(* for these two causes.                                                   *)
IdsSurviveDamage == LivenessTypeOK /\ ReuseHasACause

\* Mutant: the mark alone is believed.
BelievedByMark(clock) == file.kind = "record" /\ file.active

(* `status` believes the stream mark only while the VM runs and the last   *)
(* heartbeat is recent (render_liveness; the VM runs here); when the       *)
(* host's clock does not answer, it trusts a mark that has a heartbeat.    *)
Believed(clock) ==
  /\ file.kind = "record" /\ file.active /\ file.beat # Never
  /\ clock => now - file.beat <= HbDeadline

(* A driver that was killed does not leave a phantom: whenever the stream  *)
(* is believed active, a driver was attached within the heartbeat          *)
(* deadline, whatever the processes overwrote of each other's records.     *)
(* Without a clock it was attached at some time, and no more is promised:  *)
(* "degrades to trusting the record".                                      *)
NoPhantomStream ==
  /\ Believed(TRUE)  => seen # Never /\ now - seen <= HbDeadline
  /\ Believed(FALSE) => seen # Never
=============================================================================
