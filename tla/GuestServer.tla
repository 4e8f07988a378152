---------------------------- MODULE GuestServer ----------------------------
(***************************************************************************)
(* The asynchronous layer of the guest control server around the           *)
(* turn-state machine (rust/katsuobushi-sandbox-guest/src/bin/server.rs):  *)
(* the control task that injects prompts, one short-lived task per report  *)
(* or hook line, and the grace-timer loops.  Each of them steps the        *)
(* session under its lock and executes the Outcome after the lock is       *)
(* released, so the effects of two steps can land in either order.         *)
(*                                                                         *)
(* The harness (Claude Code, not part of the sources) is modelled by what  *)
(* the server sees of it: it takes one injected notification at a time,    *)
(* fires UserPromptSubmit when it begins one and Stop when it is done, and *)
(* runs `report` in between.  A hook or a report runs synchronously in the *)
(* harness, so the lines reach the session in the order they are written.  *)
(*                                                                         *)
(* Sends to the host are left out here (TurnProtocol has them): their only *)
(* effect on what this module describes is to delay a task.                *)
(***************************************************************************)
EXTENDS TurnSession, FiniteSets, SequencesExt

CONSTANTS
  Tasks,        \* bound of the model: report and grace tasks alive at once
  MaxInputs,    \* bound of the model: prompts read from the host and writes that
                \* fail, together
  MaxReports    \* bound of the model: reports the harness makes

ASSUME ServerBoundsAssumption ==
  /\ IsFiniteSet(Tasks) /\ MaxInputs \in Nat /\ MaxReports \in Nat
  /\ "control" \notin Tasks

VARIABLES
  control,   \* the serve_control task
  tasks,     \* the other tasks, each executing one Outcome
  sleeping,  \* per turn id, the grace loops that are asleep
  disk,      \* turn-state.json
  armed,     \* turn_armed, the flag the turn heartbeat polls
  inbox,     \* notifications the harness has been handed but not begun
  running,   \* the id the harness is working on, 0 when idle
  landed,    \* injections of the current turn the transport took (history)
  inputs,    \* prompts read and writes that failed so far
  reports,   \* reports made so far
  ahead,     \* pairs of those with effects to execute: who stepped before whom
             \* (history)
  past       \* whether an effect overtook another one, whether a hook was taken
             \* for that of another turn, and whether the last forced write
             \* failed (history)

async == <<control, tasks, sleeping, disk, armed>>
harness == <<inbox, running>>
counts == <<landed, inputs, reports>>
history == <<ahead, past>>
allVars == <<vars, async, harness, counts, history>>

-----------------------------------------------------------------------------
(* A task holds what is left of execute_outcome for it: first the persist, *)
(* then arm or silence, then the nudge, then the grace timer.              *)
Modes == {"none", "throttled", "force"}

Work == [pc : {"free", "persist", "finish"}, turn : MaybeId, mode : Modes,
         snapshot : Record, beat : {"none", "arm", "silence"},
         nudge : BOOLEAN, grace : BOOLEAN]

ControlState ==
  [pc : {"idle", "injecting", "confirming", "persist"}, turn : MaybeId,
   mode : Modes, snapshot : Record]

Blank == [id |-> 0, phase |-> "idle", accepted |-> FALSE, ended |-> FALSE]

Free == [pc |-> "free", turn |-> 0, mode |-> "none", snapshot |-> Blank,
         beat |-> "none", nudge |-> FALSE, grace |-> FALSE]

AtRest == [pc |-> "idle", turn |-> 0, mode |-> "none", snapshot |-> Blank]

\* Mutant: every snapshot is throttled, the forced ones as well.
WorkThrottled(id) == [pc |-> "persist", turn |-> id,
                      mode |-> IF out'.persist = "none" THEN "none" ELSE "throttled",
                      snapshot |-> record', beat |-> out'.beat,
                      nudge |-> out'.nudge > 0, grace |-> out'.grace # "none"]

\* What execute_outcome has to do for the step just taken on behalf of id.
WorkOf(id) == [pc |-> "persist", turn |-> id, mode |-> out'.persist,
               snapshot |-> record', beat |-> out'.beat,
               nudge |-> out'.nudge > 0, grace |-> out'.grace # "none"]

ServerInit ==
  /\ Init
  /\ control = AtRest
  /\ tasks = [t \in Tasks |-> Free]
  /\ sleeping = [i \in TurnIds |-> 0]
  /\ disk = record
  /\ armed = FALSE
  /\ inbox = <<>> /\ running = 0
  /\ landed = 0 /\ inputs = 0 /\ reports = 0
  /\ ahead = {} /\ past = [overtaken |-> FALSE, strayed |-> FALSE, unwritten |-> FALSE]

\* History.  The control task is one of those with effects to execute.
Serving == "control"
Busy == {t \in Tasks : tasks[t].pc # "free"} \cup
        (IF control.pc # "idle" THEN {Serving} ELSE {})
ModeOf(p) == IF p = Serving THEN control.mode ELSE tasks[p].mode
SnapshotOf(p) == IF p = Serving THEN control.snapshot ELSE tasks[p].snapshot
BeatOf(p) == IF p = Serving THEN "none" ELSE tasks[p].beat
Persisting(p) == ModeOf(p) # "none" /\ (p = Serving \/ tasks[p].pc = "persist")
Before(p) == {q \in Busy : <<q, p>> \in ahead}

\* A hook of id's is taken for one of the turn in flight, which is another
\* one: an id that a late resend opens again is a new turn.
Strays(id) == InFlight /\ (id # turn.id \/ opened[id] > 1)

GetsInLine(p, strays) ==
  /\ ahead' = ahead \cup {<<q, p>> : q \in Busy}
  /\ past' = [past EXCEPT !.strayed = @ \/ strays]
WritesBefore(p) ==
  Persisting(p) /\ \E q \in Before(p) : Persisting(q) /\ SnapshotOf(q) # SnapshotOf(p)
BeatsBefore(p) ==
  BeatOf(p) # "none" /\ \E q \in Before(p) : BeatOf(q) \notin {"none", BeatOf(p)}
LeavesLine(p) == ahead' = {e \in ahead : e[1] # p /\ e[2] # p}

-----------------------------------------------------------------------------
(* serve_control: read a prompt, step, inject, confirm, and only then      *)
(* execute the prompt's own outcome.                                       *)

\* The host prompts for the turn it is driving or for the next one.
LastId == IF \E i \in TurnIds : opened[i] > 0
            THEN CHOOSE i \in TurnIds :
                   opened[i] > 0 /\ \A j \in TurnIds : opened[j] > 0 => j <= i
            ELSE 0

ReadPrompt(id) ==
  /\ control.pc = "idle" /\ inputs < MaxInputs
  /\ id \in {LastId, LastId + 1}
  /\ Prompt(id)
  /\ control' = [pc |-> IF out'.inject THEN "injecting" ELSE "persist",
                 turn |-> id, mode |-> out'.persist, snapshot |-> record']
  /\ landed' = IF opened' # opened THEN 0 ELSE landed
  /\ inputs' = inputs + 1
  /\ GetsInLine(Serving, FALSE)
  /\ UNCHANGED <<tasks, sleeping, disk, armed, harness, reports>>

StepsOnly == UNCHANGED <<turn, ready, record, grace, opened>> /\ out' = Nothing

\* send_notification returns Ok; the harness usually gets the notification,
\* and is known to lose it now and then.
InjectLands ==
  /\ control.pc = "injecting"
  /\ control' = [control EXCEPT !.pc = "confirming"]
  /\ landed' = landed + 1
  /\ inbox' \in {inbox, Append(inbox, control.turn)}
  /\ StepsOnly
  /\ UNCHANGED <<tasks, sleeping, disk, armed, running, inputs, reports, history>>

\* Mutant: a failed injection is confirmed like a successful one.
InjectFailsConfirmed ==
  /\ control.pc = "injecting"
  /\ control' = [control EXCEPT !.pc = "confirming"]
  /\ StepsOnly
  /\ UNCHANGED <<tasks, sleeping, disk, armed, harness, counts, history>>

InjectFails ==
  /\ control.pc = "injecting"
  /\ control' = [control EXCEPT !.pc = "persist"]
  /\ StepsOnly
  /\ UNCHANGED <<tasks, sleeping, disk, armed, harness, counts, history>>

Confirm ==
  /\ control.pc = "confirming"
  /\ Injected(control.turn)
  /\ control' = [control EXCEPT !.pc = "persist"]
  /\ UNCHANGED <<tasks, sleeping, disk, armed, harness, counts, history>>

(***************************************************************************)
(* persist: a forced snapshot is written, a throttled one is dropped when  *)
(* the last write is less than a second old.  A write may fail, which is   *)
(* logged and never made up for; a throttled one is then as good as        *)
(* dropped.                                                                *)
(***************************************************************************)
Persist(mode, snapshot, fails) ==
  /\ fails => mode = "force" /\ inputs < MaxInputs
  /\ disk' \in CASE mode = "force" /\ ~fails -> {snapshot}
                 [] mode = "throttled"        -> {disk, snapshot}
                 [] OTHER                     -> {disk}
  /\ inputs' = IF fails THEN inputs + 1 ELSE inputs

Passes(p, fails) ==
  past' = [past EXCEPT !.overtaken = @ \/ WritesBefore(p),
                       !.unwritten = IF ModeOf(p) = "force" THEN fails ELSE @]

PersistPrompt ==
  /\ control.pc = "persist"
  /\ \E fails \in BOOLEAN :
       Persist(control.mode, control.snapshot, fails) /\ Passes(Serving, fails)
  /\ control' = AtRest
  /\ LeavesLine(Serving)
  /\ StepsOnly
  /\ UNCHANGED <<tasks, sleeping, armed, harness, landed, reports>>

-----------------------------------------------------------------------------
(* The harness, and the task its line is handled by.                       *)

Spawn(t, id, strays) ==
  /\ tasks[t].pc = "free" /\ tasks' = [tasks EXCEPT ![t] = WorkOf(id)]
  /\ GetsInLine(t, strays)

HarnessBegins(t) ==
  /\ running = 0 /\ inbox # <<>>
  /\ running' = Head(inbox) /\ inbox' = Tail(inbox)
  /\ HookTurnAccepted
  /\ Spawn(t, turn.id, Strays(Head(inbox)))
  /\ UNCHANGED <<control, sleeping, disk, armed, counts>>

HarnessReports(t, status, tag) ==
  /\ running # 0 /\ reports < MaxReports
  /\ tag \in {0, running}
  /\ Report(status, tag)
  /\ Spawn(t, turn.id, FALSE)
  /\ reports' = reports + 1
  /\ UNCHANGED <<control, sleeping, disk, armed, harness, landed, inputs>>

HarnessStops(t) ==
  /\ running # 0
  /\ running' = 0
  /\ HookTurnEnded
  /\ Spawn(t, turn.id, Strays(running))
  /\ UNCHANGED <<control, sleeping, disk, armed, inbox, counts>>

(* A grace loop wakes up and steps the session.                            *)
GraceFires(t, id) ==
  /\ sleeping[id] > 0
  /\ sleeping' = [sleeping EXCEPT ![id] = @ - 1]
  /\ GraceExpired(id)
  /\ Spawn(t, id, FALSE)
  /\ UNCHANGED <<control, disk, armed, harness, counts>>

-----------------------------------------------------------------------------
(* execute_outcome, in two stages: what comes before the persist lock is   *)
(* released, and what comes after.                                         *)
PersistTask(t) ==
  /\ tasks[t].pc = "persist"
  /\ \E fails \in BOOLEAN :
       Persist(tasks[t].mode, tasks[t].snapshot, fails) /\ Passes(t, fails)
  /\ tasks' = [tasks EXCEPT ![t].pc = "finish"]
  /\ StepsOnly
  /\ UNCHANGED <<control, sleeping, armed, harness, landed, reports, ahead>>

\* Mutant: the grace timer is spawned only for the initial grace window.
FinishDropsRearm(t) ==
  LET w == tasks[t] IN
  /\ w.pc = "finish"
  /\ armed' = CASE w.beat = "arm" -> TRUE [] w.beat = "silence" -> FALSE
                [] OTHER -> armed
  /\ inbox' \in IF w.nudge THEN {inbox, Append(inbox, w.turn)} ELSE {inbox}
  /\ sleeping' = IF w.grace /\ ~w.nudge
                   THEN [sleeping EXCEPT ![w.turn] = @ + 1] ELSE sleeping
  /\ tasks' = [tasks EXCEPT ![t] = Free]
  /\ past' = [past EXCEPT !.overtaken = @ \/ BeatsBefore(t)] /\ LeavesLine(t)
  /\ StepsOnly
  /\ UNCHANGED <<control, disk, running, counts>>

FinishTask(t) ==
  LET w == tasks[t] IN
  /\ w.pc = "finish"
  /\ armed' = CASE w.beat = "arm" -> TRUE [] w.beat = "silence" -> FALSE
                [] OTHER -> armed
  /\ inbox' \in IF w.nudge THEN {inbox, Append(inbox, w.turn)} ELSE {inbox}
  /\ sleeping' = IF w.grace THEN [sleeping EXCEPT ![w.turn] = @ + 1] ELSE sleeping
  /\ tasks' = [tasks EXCEPT ![t] = Free]
  /\ past' = [past EXCEPT !.overtaken = @ \/ BeatsBefore(t)] /\ LeavesLine(t)
  /\ StepsOnly
  /\ UNCHANGED <<control, disk, running, counts>>

-----------------------------------------------------------------------------
ServerNext ==
  \/ \E id \in TurnIds : ReadPrompt(id)
  \/ InjectLands \/ InjectFails \/ Confirm \/ PersistPrompt
  \/ \E t \in Tasks :
       \/ HarnessBegins(t) \/ HarnessStops(t)
       \/ \E status \in Statuses, tag \in MaybeId : HarnessReports(t, status, tag)
       \/ \E id \in TurnIds : GraceFires(t, id)
       \/ PersistTask(t) \/ FinishTask(t)

ServerSpec == ServerInit /\ [][ServerNext]_allVars

-----------------------------------------------------------------------------
(* Types of the asynchronous layer, and those of the session it steps.     *)
ServerTypeOK ==
  /\ TypeOK
  /\ control \in ControlState
  /\ tasks \in [Tasks -> Work]
  /\ sleeping \in [TurnIds -> Nat]
  /\ disk \in Record
  /\ armed \in BOOLEAN
  /\ inbox \in Seq(TurnIds) /\ running \in MaybeId
  /\ landed \in Nat /\ inputs \in 0..MaxInputs /\ reports \in 0..MaxReports

(* Every GraceExpired event the machine asked for is on its way: a loop    *)
(* sleeping, or a task that will put one to sleep.  A lost one strands the *)
(* turn, a duplicated one nudges the agent twice.                          *)
GraceIsAccountedFor ==
  \A id \in TurnIds :
    grace[id] = sleeping[id] +
                Cardinality({t \in Tasks : tasks[t].grace /\ tasks[t].turn = id})

(* A turn the harness was never handed stays retryable: once the control   *)
(* task is back at its loop, the next resend of it is injected instead of  *)
(* being dropped as a duplicate (the wedge `injected` exists for).         *)
UndeliveredStaysRetryable ==
  control.pc = "idle" /\ InFlight /\ landed = 0 /\ ~turn.ended => Undelivered

(* However many resends arrive, the transport takes a turn at most once    *)
(* and then MAX_REINJECTIONS times more.                                   *)
DeliveriesAreBounded == landed <= 1 + MaxReinjections

NothingPending == control.pc = "idle" /\ \A t \in Tasks : tasks[t].pc = "free"

(* Timers are neither lost nor doubled in a well-typed state.              *)
TimersAreAccountedFor == ServerTypeOK /\ GraceIsAccountedFor

(* Resends deliver a turn until it is delivered, and hardly more often.    *)
DeliveredUntilBegun == UndeliveredStaysRetryable /\ DeliveriesAreBounded

(* Once all effects are executed, what they leave behind is what the       *)
(* session has: turn-state.json is its record (persist: "snapshots still   *)
(* land in order"; what the throttle drops is never missed), unless the    *)
(* last forced write failed, and the turn heartbeat beats only while the   *)
(* agent works (turn_armed is "cleared on the stop hook").  Excepted are   *)
(* effects that were executed in another order than their steps were       *)
(* taken, which the code does not exclude; and a beat that goes on as a    *)
(* hook of an abandoned turn was taken for one of the turn that superseded *)
(* it, which can then be concluded before its own Stop (a Stop between     *)
(* turns clears nothing); an id that a late resend opens again supersedes  *)
(* itself, and hooks carry no id.                                          *)
EffectsCatchUp ==
  NothingPending /\ ~past.overtaken =>
    /\ ~past.unwritten => disk = record
    /\ running = 0 /\ ~past.strayed => ~armed
=============================================================================
