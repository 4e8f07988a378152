------------------------------ MODULE WorkState ------------------------------
(***************************************************************************)
(* What `sandbox status` and an attached drive are told of a guest's work: *)
(* the heartbeat tasks of rust/katsuobushi-sandbox-guest/src/runner.rs     *)
(* (one per heartbeat file, and the turn heartbeat), each of which runs    *)
(* its check and detail bodies on its own interval and sends the status,   *)
(* and the coordinator of src/bin/server.rs, which combines the latest     *)
(* statuses with the turn's terminal report into one work state.           *)
(*                                                                         *)
(* Time advances by Second.  Scheduling takes no time: whatever can run    *)
(* runs before the next Second, and only check and detail bodies, sleeps   *)
(* and writes to the host take seconds.  All times are kept as ages and    *)
(* are capped where they no longer make a difference, so runs of any       *)
(* length are covered.                                                     *)
(***************************************************************************)
EXTENDS Naturals, Sequences

CONSTANTS
  Senders,     \* the heartbeat tasks that are considered
  TurnBeat,    \* the one that is not a file
  Label,       \* the label of each
  Interval,    \* its polling interval, in seconds
  Timeout,     \* how long it may beat before it is late
  Multiplier,  \* STALE_BEAT_MULTIPLIER, 3
  SendTimeout, \* HOST_WRITE_TIMEOUT
  MaxHeld,     \* bound of the model: seconds that slow sends, one after the
               \* other, keep the coordinator from draining its channel
  Lingering,   \* whether a detail body may leave a process with its stdout
  MaxFaults    \* bound of the model: tasks aborted, writes that fail, and
               \* sends that the host is slow to take

ASSUME WorkStateAssumption ==
  /\ Interval \in [Senders -> Nat \ {0}]
  /\ \E g \in Senders : \A h \in Senders : Interval[h] <= Interval[g]  \* Senders is finite
  /\ Timeout \in [Senders -> Nat]
  /\ DOMAIN Label = Senders
  /\ Multiplier \in Nat /\ SendTimeout \in Nat /\ MaxHeld \in Nat
  /\ Lingering \in BOOLEAN /\ MaxFaults \in Nat

VARIABLES
  task,      \* per heartbeat, its task
  queue,     \* the channel of status updates
  beats,     \* the coordinator's map: per label, the last update and its age
  coord,     \* the coordinator
  state,     \* the work state it computed last
  disk,      \* work-state.json
  turn,      \* what the coordinator sees of the session
  armed,     \* turn_armed: for how long it has been set, Silent if it is not
  lastBeat,  \* per heartbeat, the age of its last beat, Forgotten after a miss (history)
  faults     \* faults so far

workVars == <<task, queue, beats, coord, state, disk, turn, armed, lastBeat, faults>>

-----------------------------------------------------------------------------
Labels == {Label[h] : h \in Senders}
\* Mutant: two intervals instead of three.
BoundTooTight(i) == (Multiplier - 1) * i

Bound(i) == Multiplier * i          \* staleness_bound_secs
Longest == CHOOSE i \in {Interval[h] : h \in Senders} :
             \A h \in Senders : Interval[h] <= i
Least(a, b) == IF a < b THEN a ELSE b
Larger(a, b) == IF a < b THEN b ELSE a

\* Caps: an age is not told apart from another beyond the staleness bound of
\* its interval, a round beyond the interval and the timeout, an armed turn
\* beyond a poll of it.
TooOld(i) == Bound(i) + 1
Older(age, i) == Least(age + 1, TooOld(i))
Forgotten(i) == Bound(i) + MaxHeld + 1
Forgets(age, i) == Least(age + 1, Forgotten(i))
Noticed == IF TurnBeat \in Senders THEN Interval[TurnBeat] + 1 ELSE 1
TooLong(h) == Larger(Interval[h], Timeout[h])

\* spent: seconds since the tick that began this round; body: seconds since
\* the running body was spawned; run: how long the unbroken run of beats had
\* lasted at that tick, meaningful while beating.
Task(h) == [pc : {"waiting", "checking", "detailing", "lingering", "dead"},
            spent : 0..TooLong(h), body : 0..Interval[h],
            beating : BOOLEAN, run : 0..Timeout[h]]
NewTask(h) == [pc |-> "waiting", spent |-> Interval[h], body |-> 0,
               beating |-> FALSE, run |-> 0]

Update == [label : Labels, beating : BOOLEAN, late : BOOLEAN, interval : Nat]
\* age: seconds since it was received; waited: for how long at most it was in
\* the channel before that (history).
Stored == [beating : BOOLEAN, late : BOOLEAN, interval : Nat,
           age : 0..TooOld(Longest), waited : 0..MaxHeld]
Unheard == [beating |-> FALSE, late |-> FALSE, interval |-> Longest, age |-> 0, waited |-> 0]

\* left: seconds that the running send will still take; held: seconds that
\* sends have taken since the channel was last empty (history).
Coordinator == [pc : {"select", "sending"}, ticked : BOOLEAN, changed : BOOLEAN,
                left : 0..SendTimeout, held : 0..MaxHeld,
                wrote : BOOLEAN, failed : BOOLEAN, current : BOOLEAN]

States == {"none", "idle", "active", "active-late", "finished"}

NoTurn == [open |-> FALSE, accepted |-> FALSE, ended |-> FALSE, terminal |-> FALSE]
Silent == 0
Arm == IF armed = Silent THEN 1 ELSE armed

WorkInit ==
  /\ task = [h \in Senders |-> NewTask(h)]
  /\ queue = <<>>
  /\ beats = [l \in Labels |-> Unheard]
  /\ coord = [pc |-> "select", ticked |-> TRUE, changed |-> FALSE, left |-> 0, held |-> 0,
              wrote |-> FALSE, failed |-> FALSE, current |-> FALSE]
  /\ state = "none" /\ disk = "none"
  /\ turn = NoTurn /\ armed = Silent
  /\ lastBeat = [h \in Senders |-> Forgotten(Interval[h])]
  /\ faults = 0

-----------------------------------------------------------------------------
(* The heartbeat tasks: run_one and run_turn_heartbeat.                    *)

Due(h) == task[h].pc = "waiting" /\ task[h].spent >= Interval[h]

Files == Senders \ {TurnBeat}

\* The ticker fires: the time of a round is the time of its tick.
Rounds(h, t) == [t EXCEPT !.spent = 0, !.body = 0,
                          !.run = IF t.beating THEN Least(@ + t.spent, Timeout[h]) ELSE 0]

\* apply_check and the send: a beat continues the unbroken run or begins one
\* (at the tick), a miss ends it.
Sends(h, t, beat) ==
  /\ task' = [task EXCEPT ![h] = [t EXCEPT !.pc = "waiting", !.body = 0, !.beating = beat,
                                           !.run = IF beat THEN @ ELSE 0]]
  /\ queue' = Append(queue, [label |-> Label[h], beating |-> beat,
                             late |-> beat /\ t.run >= Timeout[h], interval |-> Interval[h]])
  /\ lastBeat' = [lastBeat EXCEPT ![h] = IF beat THEN 0 ELSE Forgotten(Interval[h])]

\* The ticker fires, late if the round took longer than the interval: the
\* next tick is one interval from now.
CheckStarts(h) ==
  /\ h \in Files /\ Due(h)
  /\ task' = [task EXCEPT ![h] = [Rounds(h, task[h]) EXCEPT !.pc = "checking"]]
  /\ UNCHANGED <<queue, beats, coord, state, disk, turn, armed, lastBeat, faults>>

\* The check fails, or is killed at the end of its budget.
CheckMisses(h) ==
  /\ task[h].pc = "checking"
  /\ Sends(h, task[h], FALSE)
  /\ UNCHANGED <<beats, coord, state, disk, turn, armed, faults>>

\* The check exits zero, at the end of its budget at the latest.
CheckPasses(h) ==
  /\ task[h].pc = "checking"
  /\ \/ Sends(h, task[h], TRUE)                                   \* no detail body
     \/ /\ task' = [task EXCEPT ![h].pc = "detailing", ![h].body = 0]
        /\ UNCHANGED <<queue, lastBeat>>
  /\ UNCHANGED <<beats, coord, state, disk, turn, armed, faults>>

\* The detail body ends, or is killed at the end of its budget.
DetailEnds(h) ==
  /\ task[h].pc = "detailing"
  /\ Sends(h, task[h], TRUE)
  /\ UNCHANGED <<beats, coord, state, disk, turn, armed, faults>>

\* It exits zero and leaves a process behind that holds its stdout: the
\* budget covers the wait for the shell, not the drain of the pipe.
DetailLingers(h) ==
  /\ Lingering /\ task[h].pc = "detailing"
  /\ task' = [task EXCEPT ![h].pc = "lingering", ![h].body = 0]
  /\ UNCHANGED <<queue, beats, coord, state, disk, turn, armed, lastBeat, faults>>

LingererExits(h) ==
  /\ task[h].pc = "lingering"
  /\ Sends(h, task[h], TRUE)
  /\ UNCHANGED <<beats, coord, state, disk, turn, armed, faults>>

TurnTicks ==
  /\ TurnBeat \in Senders /\ Due(TurnBeat)
  /\ Sends(TurnBeat, Rounds(TurnBeat, task[TurnBeat]), armed # Silent)
  /\ UNCHANGED <<beats, coord, state, disk, turn, armed, faults>>

\* A rescan aborts the task of a file that is gone; a later one (here: a
\* second later at the earliest) spawns a new task when the file is back.
Aborted(h) ==
  /\ faults < MaxFaults /\ faults' = faults + 1
  /\ h \in Files /\ task[h].pc # "dead"
  /\ task' = [task EXCEPT ![h] = [NewTask(h) EXCEPT !.pc = "dead", !.spent = 0]]
  /\ UNCHANGED <<queue, beats, coord, state, disk, turn, armed, lastBeat>>

Spawned(h) ==
  /\ task[h].pc = "dead" /\ task[h].spent > 0
  /\ task' = [task EXCEPT ![h] = NewTask(h)]
  /\ UNCHANGED <<queue, beats, coord, state, disk, turn, armed, lastBeat, faults>>

-----------------------------------------------------------------------------
(* The coordinator: run_work_state_coordinator.                            *)

IsStale(b) == b.age > Bound(b.interval)

\* Mutant: staleness is not looked at.
CountsStale(b) == b.beating

\* StoredBeat::effective.
Counts(b) == b.beating /\ ~IsStale(b)

CombineWorkState(bs) ==
  IF turn.open /\ turn.terminal THEN "finished" ELSE
  IF \E l \in Labels : Counts(bs[l]) /\ bs[l].late THEN "active-late" ELSE
  IF \E l \in Labels : Counts(bs[l]) THEN "active" ELSE "idle"

\* The evaluation that follows either arm of the select.  A transition is
\* sent to the host, which may be slow to take it.
Evaluates(ticked) ==
  LET new == CombineWorkState(beats') IN
  /\ state' = new
  /\ \E left \in 0..Least(SendTimeout, MaxHeld - coord.held) :
       /\ left > 0 => new # state /\ faults < MaxFaults
       /\ faults' = IF left > 0 THEN faults + 1 ELSE faults
       /\ coord' = [coord EXCEPT !.pc = "sending", !.ticked = ticked, !.left = left,
                                 !.changed = (new # state), !.current = TRUE]

TakenUp(u) == [beating |-> u.beating, late |-> u.late, interval |-> u.interval,
               age |-> 0, waited |-> IF u.beating THEN coord.held ELSE 0]

Receives ==
  /\ coord.pc = "select" /\ queue # <<>>
  /\ beats' = [beats EXCEPT ![Head(queue).label] = TakenUp(Head(queue))]
  /\ queue' = Tail(queue)
  /\ Evaluates(coord.ticked)
  /\ UNCHANGED <<task, disk, turn, armed, lastBeat>>

Ticks ==
  /\ coord.pc = "select" /\ coord.ticked
  /\ UNCHANGED beats
  /\ Evaluates(FALSE)
  /\ UNCHANGED <<task, queue, disk, turn, armed, lastBeat>>

\* Mutant: a transition is throttled like everything else.
WriteThrottled == ~coord.wrote

WriteIsDue == coord.changed \/ ~coord.wrote

\* The loop goes round.
Selects == [coord EXCEPT !.pc = "select", !.changed = FALSE,
                         !.held = IF queue = <<>> THEN 0 ELSE @]

\* The record is written: at once on a transition, else once a second.
Writes ==
  /\ coord.pc = "sending" /\ coord.left = 0
  /\ \/ /\ WriteIsDue
        /\ disk' = state
        /\ coord' = [Selects EXCEPT !.wrote = TRUE]
        /\ UNCHANGED faults
     \/ /\ WriteIsDue /\ faults < MaxFaults
        /\ faults' = faults + 1
        /\ coord' = [Selects EXCEPT !.failed = TRUE]
        /\ UNCHANGED disk
     \/ /\ ~WriteIsDue
        /\ coord' = Selects
        /\ UNCHANGED <<disk, faults>>
  /\ UNCHANGED <<task, queue, beats, state, turn, armed, lastBeat>>

-----------------------------------------------------------------------------
(* The session, as far as the work state depends on it.                    *)

SessionSteps(t, flag) ==
  /\ turn' = t /\ armed' = flag
  /\ coord' = [coord EXCEPT !.current = FALSE]
  /\ UNCHANGED <<task, queue, beats, state, disk, lastBeat, faults>>

Prompted == SessionSteps([NoTurn EXCEPT !.open = TRUE], armed)

\* The agent accepts the turn, or reports progress.
Begins ==
  /\ turn.open
  /\ SessionSteps([turn EXCEPT !.accepted = TRUE], IF turn.accepted THEN armed ELSE Arm)

\* A report that arrives after the stop arms the heartbeat when the turn
\* never began.
ReportsTerminal ==
  /\ turn.open
  /\ SessionSteps(IF turn.ended THEN NoTurn
                  ELSE [turn EXCEPT !.terminal = TRUE, !.accepted = TRUE],
                  IF turn.accepted THEN armed ELSE Arm)

Stops ==
  /\ turn.open
  /\ SessionSteps(IF turn.terminal THEN NoTurn ELSE [turn EXCEPT !.ended = TRUE], Silent)

GraceRunsOut ==
  /\ turn.open /\ turn.ended /\ ~turn.terminal
  /\ SessionSteps(NoTurn, armed)

-----------------------------------------------------------------------------
\* Whatever takes no time has been done.
Settled ==
  /\ \A h \in Senders : ~Due(h)
  /\ \A h \in Files : task[h].pc \in {"checking", "detailing"} => task[h].body < Interval[h]
  /\ \/ coord.pc = "select" /\ queue = <<>> /\ ~coord.ticked
     \/ coord.pc = "sending" /\ coord.left > 0

Ages(h, t) ==
  [t EXCEPT !.spent = Least(@ + 1, IF t.pc = "dead" THEN 1 ELSE TooLong(h)),
            !.body = IF t.pc \in {"checking", "detailing"} THEN @ + 1 ELSE 0]

\* Only the age of a beat matters.
AgesStored(b) == IF b.beating THEN [b EXCEPT !.age = Older(@, b.interval)] ELSE b

Second ==
  /\ Settled
  /\ task' = [h \in Senders |-> Ages(h, task[h])]
  /\ beats' = [l \in Labels |-> AgesStored(beats[l])]
  /\ lastBeat' = [h \in Senders |-> Forgets(lastBeat[h], Interval[h])]
  /\ coord' = [coord EXCEPT !.ticked = TRUE, !.wrote = FALSE, !.failed = FALSE,
                            !.left = IF @ > 0 THEN @ - 1 ELSE 0,
                            !.held = IF coord.left > 0 THEN @ + 1 ELSE @]
  /\ armed' = IF armed = Silent THEN Silent ELSE Least(armed + 1, Noticed)
  /\ UNCHANGED <<queue, state, disk, turn, faults>>

WorkNext ==
  \/ \E h \in Senders :
       \/ CheckStarts(h) \/ CheckMisses(h) \/ CheckPasses(h)
       \/ DetailEnds(h) \/ DetailLingers(h) \/ LingererExits(h)
       \/ Aborted(h) \/ Spawned(h)
  \/ TurnTicks
  \/ Receives \/ Ticks \/ Writes
  \/ Prompted \/ Begins \/ ReportsTerminal \/ Stops \/ GraceRunsOut
  \/ Second

WorkSpec == WorkInit /\ [][WorkNext]_workVars

-----------------------------------------------------------------------------
(* The state has the types the source gives it; beat_started is set in a   *)
(* beat run only.                                                          *)
WorkTypeOK ==
  /\ \A h \in Senders : task[h] \in Task(h) /\ (~task[h].beating => task[h].run = 0)
  /\ queue \in Seq(Update)
  /\ beats \in [Labels -> Stored]
  /\ coord \in Coordinator /\ coord.left + coord.held <= MaxHeld
  /\ state \in States /\ disk \in States
  /\ turn \in [open : BOOLEAN, accepted : BOOLEAN, ended : BOOLEAN, terminal : BOOLEAN]
  /\ armed \in 0..Noticed
  /\ \A h \in Senders : lastBeat[h] \in 0..Forgotten(Interval[h])
  /\ faults \in 0..MaxFaults

\* The coordinator has evaluated everything there is, and written it.
UpToDate == Settled /\ coord.pc = "select" /\ coord.current

(* "A dead heartbeat task cannot hold Active past its staleness window":   *)
(* whenever the coordinator is up to date and says active, a heartbeat     *)
(* really beat within three of its intervals, and has not missed since;    *)
(* for a beat the coordinator took up late, because the host was slow to   *)
(* read, within three intervals and that delay.                            *)
ActiveIsRecent ==
  UpToDate /\ state \in {"active", "active-late"} =>
    \E h \in Senders : lastBeat[h] <= Bound(Interval[h]) + beats[Label[h]].waited

(* STALE_BEAT_MULTIPLIER "clears the worst-case late tick": a task that is *)
(* alive is never taken for dead, however long its bodies take within      *)
(* their budgets.                                                          *)
LiveTaskIsNotStale ==
  UpToDate =>
    \A h \in Senders :
      task[h].beating /\ task[h].pc # "lingering" => ~IsStale(beats[Label[h]])

(* "A turn in flight is active": an interval after the turn began, and as  *)
(* long as it goes on, the state is not idle, whatever the files say.      *)
TurnInFlightShowsActive ==
  UpToDate /\ armed > Interval[TurnBeat] => state # "idle"

(* The record that `sandbox status` reads, with or without a drive, shows  *)
(* the state of this second unless a write of this second failed: a        *)
(* transition inside the throttle window is not lost.                      *)
RecordIsCurrent == UpToDate /\ ~coord.failed => disk = state

(* What is reported of the work is of this second, and idle only between   *)
(* turns.                                                                  *)
ReportedAsItIs == WorkTypeOK /\ RecordIsCurrent /\ TurnInFlightShowsActive
=============================================================================
