------------------------- MODULE GuestServer_proofs -------------------------
(***************************************************************************)
(* Proofs about what the server does with the outcomes of the session, for *)
(* any number of tasks, turns, prompts and reports, in whatever order the  *)
(* effects land: no grace timer is lost or doubled on its way to the loops *)
(* that sleep; a turn is delivered as often as its budget allows and never *)
(* given up before it begins; and what the effects leave behind is, once   *)
(* all of them are done, what the session says.                            *)
(***************************************************************************)
EXTENDS GuestServer, TurnSession_proofs, FiniteSetTheorems

\* The tasks that will put a loop to sleep for id.
Holding(id) == {t \in Tasks : tasks[t].grace /\ tasks[t].turn = id}

\* Whatever is to be injected, nudged or timed is so for a turn; and a task
\* that is done has nothing left to do.
EffectsHaveTheirTurn ==
  /\ control.pc # "idle" => control.turn \in TurnIds
  /\ \A t \in Tasks : /\ tasks[t].grace \/ tasks[t].nudge => tasks[t].turn \in TurnIds
                      /\ tasks[t].pc = "free" => ~tasks[t].grace

ServerInv == TimersAreAccountedFor /\ EffectsHaveTheirTurn

-----------------------------------------------------------------------------
(* Counting.                                                               *)

LEMMA HoldingIsFinite ==
  ASSUME NEW id \in TurnIds
  PROVE  IsFiniteSet(Holding(id)) /\ Cardinality(Holding(id)) \in Nat
<1>1. Holding(id) \in SUBSET Tasks
  BY DEF Holding
<1>2. IsFiniteSet(Holding(id))
  BY <1>1, ServerBoundsAssumption, FS_Subset
<1> QED BY <1>2, FS_CardinalityType

\* A task takes up its work.
LEMMA HoldingGrows ==
  ASSUME NEW t \in Tasks, NEW w, NEW id \in TurnIds, ~tasks[t].grace, w.grace \in BOOLEAN,
         tasks' = [tasks EXCEPT ![t] = w], DOMAIN tasks = Tasks
  PROVE  Cardinality(Holding(id)') =
           Cardinality(Holding(id)) + (IF w.grace /\ w.turn = id THEN 1 ELSE 0)
<1>1. tasks'[t] = w /\ \A u \in Tasks \ {t} : tasks'[u] = tasks[u]
  OBVIOUS
<1>2. t \notin Holding(id)
  BY DEF Holding
<1>3. CASE w.grace /\ w.turn = id
  <2>1. Holding(id)' = Holding(id) \cup {t}
    BY <1>1, <1>3 DEF Holding
  <2>2. Cardinality(Holding(id) \cup {t}) = Cardinality(Holding(id)) + 1
    BY <1>2, HoldingIsFinite, FS_AddElement
  <2> QED BY <1>3, <2>1, <2>2
<1>4. CASE ~(w.grace /\ w.turn = id)
  <2>1. Holding(id)' = Holding(id)
    BY <1>1, <1>2, <1>4 DEF Holding
  <2> QED BY <1>4, <2>1, HoldingIsFinite
<1> QED BY <1>3, <1>4

\* A task is done.
LEMMA HoldingShrinks ==
  ASSUME NEW t \in Tasks, NEW id \in TurnIds, tasks[t].grace \in BOOLEAN,
         tasks' = [tasks EXCEPT ![t] = Free], DOMAIN tasks = Tasks
  PROVE  Cardinality(Holding(id)) =
           Cardinality(Holding(id)') + (IF tasks[t].grace /\ tasks[t].turn = id THEN 1 ELSE 0)
<1>1. ~tasks'[t].grace /\ \A u \in Tasks \ {t} : tasks'[u] = tasks[u]
  BY DEF Free
<1>2. CASE tasks[t].grace /\ tasks[t].turn = id
  <2>1. Holding(id)' = Holding(id) \ {t} /\ t \in Holding(id)
    BY <1>1, <1>2 DEF Holding
  <2>2. Cardinality(Holding(id) \ {t}) = Cardinality(Holding(id)) - 1
    BY <2>1, HoldingIsFinite, FS_RemoveElement
  <2> QED BY <1>2, <2>1, <2>2, HoldingIsFinite
<1>3. CASE ~(tasks[t].grace /\ tasks[t].turn = id)
  <2>1. Holding(id)' = Holding(id)
    BY <1>1, <1>3 DEF Holding
  <2> QED BY <1>3, <2>1, HoldingIsFinite
<1> QED BY <1>2, <1>3

\* Holding depends on what the tasks hold only.
LEMMA HoldingStays ==
  ASSUME \A u \in Tasks : tasks'[u].grace = tasks[u].grace /\ tasks'[u].turn = tasks[u].turn
  PROVE  \A id \in TurnIds : Holding(id)' = Holding(id)
BY DEF Holding

-----------------------------------------------------------------------------
(* What a step of the session asks for.                                    *)

LEMMA SessionTyped ==
  ASSUME TypeOK, [Next]_vars \/ StepsOnly
  PROVE  TypeOK'
<1>1. CASE [Next]_vars
  BY <1>1, StepTyped
<1>2. CASE StepsOnly
  BY <1>2, NothingIsTyped DEF StepsOnly, TypeOK
<1> QED BY <1>1, <1>2

LEMMA StopAsksForATimer ==
  ASSUME TypeOK, HookTurnEnded
  PROVE  /\ out'.nudge = 0
         /\ IF out'.grace = "none" THEN grace' = grace
            ELSE turn.id \in TurnIds /\ grace' = [grace EXCEPT ![turn.id] = @ + 1]
<1>1. turn.id \in MaybeId
  BY DEF TypeOK, Turn
<1>2. InFlight => turn.id \in TurnIds
  BY <1>1 DEF InFlight, MaybeId
<1>3. CASE StopConcludes \/ StopAgain \/ StopBetweenTurns
  <2>1. out'.nudge = 0 /\ out'.grace = "none" /\ grace' = grace
    <3>1. CASE StopConcludes
      BY <3>1 DEF StopConcludes, Nothing
    <3>2. CASE StopAgain
      BY <3>2 DEF StopAgain, Nothing
    <3>3. CASE StopBetweenTurns
      BY <3>3 DEF StopBetweenTurns, Nothing
    <3> QED BY <1>3, <3>1, <3>2, <3>3
  <2> QED BY <2>1
<1>4. CASE StopOpensGrace
  <2>1. out'.nudge = 0 /\ out'.grace = "initial" /\ grace' = [grace EXCEPT ![turn.id] = @ + 1]
    BY <1>4 DEF StopOpensGrace, Nothing
  <2> QED BY <1>2, <1>4, <2>1 DEF StopOpensGrace
<1> QED BY <1>3, <1>4 DEF HookTurnEnded

LEMMA TimerAsksForAnother ==
  ASSUME NEW id \in TurnIds, GraceExpired(id)
  PROVE  /\ grace[id] > 0
         /\ IF out'.grace = "none" THEN grace' = [grace EXCEPT ![id] = @ - 1]
            ELSE grace' = grace
<1>1. CASE GraceNudges(id)
  <2>1. grace[id] > 0 /\ out'.grace = "nudge" /\ grace' = grace
    BY <1>1 DEF GraceNudges, Nothing
  <2> QED BY <2>1
<1>2. CASE GraceResolves(id) \/ GraceMoot(id)
  <2>1. grace[id] > 0 /\ out'.grace = "none" /\ grace' = [grace EXCEPT ![id] = @ - 1]
    <3>1. CASE GraceResolves(id)
      BY <3>1 DEF GraceResolves, Nothing
    <3>2. CASE GraceMoot(id)
      BY <3>2 DEF GraceMoot, Nothing
    <3> QED BY <1>2, <3>1, <3>2
  <2> QED BY <2>1
<1> QED BY <1>1, <1>2 DEF GraceExpired

\* The work for a step is well typed.
LEMMA WorkIsTyped ==
  ASSUME NEW id \in MaybeId, TypeOK'
  PROVE  /\ WorkOf(id) \in Work
         /\ WorkOf(id).pc = "persist" /\ WorkOf(id).turn = id
         /\ WorkOf(id).grace = (out'.grace # "none") /\ WorkOf(id).nudge = (out'.nudge > 0)
BY BudgetAssumption DEF WorkOf, Work, Modes, TypeOK, Outcome

LEMMA FreeIsTyped == Free \in Work /\ AtRest \in ControlState
BY DEF Free, AtRest, Blank, Work, ControlState, Modes, Record, MaybeId, Phases

-----------------------------------------------------------------------------
(* The steps.                                                              *)

\* A task takes up what a step asked for.
TakesUp(t, id) == tasks[t].pc = "free" /\ tasks' = [tasks EXCEPT ![t] = WorkOf(id)]

LEMMA SpawnedTakesUp ==
  ASSUME NEW t, NEW id PROVE \A strays : Spawn(t, id, strays) => TakesUp(t, id)
BY DEF Spawn, TakesUp

\* A step of the session for which a task is spawned, whatever else it does.
LEMMA SpawnKeepsInv ==
  ASSUME ServerInv, NEW t \in Tasks, NEW id \in MaybeId, TypeOK',
         TakesUp(t, id),
         out'.grace # "none" \/ out'.nudge > 0 => id \in TurnIds,
         sleeping' \in [TurnIds -> Nat],
         \A i \in TurnIds : grace'[i] = sleeping'[i] + Cardinality(Holding(i))
                              + (IF out'.grace # "none" /\ i = id THEN 1 ELSE 0),
         UNCHANGED <<control, disk, armed, landed, inputs>>,
         inbox' \in Seq(TurnIds), running' \in MaybeId, reports' \in 0..MaxReports
  PROVE  ServerInv'
<1> USE DEF ServerInv, TimersAreAccountedFor
<1> DEFINE w == WorkOf(id)
<1>1. tasks[t].pc = "free" /\ tasks' = [tasks EXCEPT ![t] = w]
  BY DEF TakesUp
<1>2. /\ w \in Work /\ w.turn = id /\ w.pc = "persist"
      /\ w.grace = (out'.grace # "none") /\ w.nudge = (out'.nudge > 0)
  BY WorkIsTyped
<1> HIDE DEF w
<1>3. ~tasks[t].grace /\ DOMAIN tasks = Tasks
  BY <1>1 DEF EffectsHaveTheirTurn, ServerTypeOK
<1>4. ServerTypeOK'
  BY <1>1, <1>2 DEF ServerTypeOK
<1>5. GraceIsAccountedFor'
  <2> SUFFICES ASSUME NEW i \in TurnIds
               PROVE  grace'[i] = sleeping'[i] + Cardinality(Holding(i)')
    BY DEF GraceIsAccountedFor, Holding
  <2>1. w.grace \in BOOLEAN
    BY <1>2
  <2>2. Cardinality(Holding(i)') = Cardinality(Holding(i)) + (IF w.grace /\ w.turn = i THEN 1 ELSE 0)
    BY <1>1, <1>3, <2>1, HoldingGrows
  <2>3. Cardinality(Holding(i)) \in Nat /\ sleeping'[i] \in Nat
    BY HoldingIsFinite
  <2>4. w.grace /\ w.turn = i <=> out'.grace # "none" /\ i = id
    BY <1>2
  <2> QED BY <2>2, <2>3, <2>4
<1>6. EffectsHaveTheirTurn'
  BY <1>1, <1>2 DEF EffectsHaveTheirTurn, ServerTypeOK
<1> QED BY <1>4, <1>5, <1>6

\* A step that leaves the timers, and what the tasks hold, alone.
LEMMA OtherKeepsInv ==
  ASSUME ServerInv, TypeOK', UNCHANGED <<grace, sleeping>>,
         tasks' \in [Tasks -> Work],
         \A u \in Tasks : /\ tasks'[u].grace = tasks[u].grace /\ tasks'[u].turn = tasks[u].turn
                          /\ tasks'[u].nudge = tasks[u].nudge
                          /\ tasks'[u].pc = "free" => tasks[u].pc = "free",
         control' \in ControlState, control'.pc # "idle" => control'.turn \in TurnIds,
         disk' \in Record, armed' \in BOOLEAN, inbox' \in Seq(TurnIds), UNCHANGED <<running, reports>>,
         landed' \in Nat, inputs' \in 0..MaxInputs
  PROVE  ServerInv'
<1> USE DEF ServerInv, TimersAreAccountedFor
<1>1. ServerTypeOK'
  BY DEF ServerTypeOK
<1>2. GraceIsAccountedFor'
  BY HoldingStays DEF GraceIsAccountedFor, Holding
<1>3. EffectsHaveTheirTurn'
  BY DEF EffectsHaveTheirTurn
<1> QED BY <1>1, <1>2, <1>3

\* persist leaves a record behind.
LEMMA PersistIsTyped ==
  ASSUME NEW mode \in Modes, NEW snapshot \in Record, NEW fails \in BOOLEAN,
         disk \in Record, inputs \in 0..MaxInputs, Persist(mode, snapshot, fails)
  PROVE  disk' \in Record /\ inputs' \in 0..MaxInputs
BY ServerBoundsAssumption DEF Persist, Modes

\* The harness is handed an id, or loses it.
LEMMA AppendIsTyped ==
  ASSUME NEW s \in Seq(TurnIds), NEW id \in TurnIds
  PROVE  {s, Append(s, id)} \subseteq Seq(TurnIds)
OBVIOUS

LEMMA ControlKeepsInv ==
  ASSUME ServerInv,
         \/ \E id \in TurnIds : ReadPrompt(id)
         \/ InjectLands \/ InjectFails \/ Confirm \/ PersistPrompt
  PROVE  ServerInv'
<1> USE DEF ServerInv, TimersAreAccountedFor, ServerTypeOK
<1>1. ASSUME NEW id \in TurnIds, ReadPrompt(id) PROVE ServerInv'
  <2>1. Prompt(id) /\ inputs < MaxInputs
        /\ control' = [pc |-> IF out'.inject THEN "injecting" ELSE "persist",
                       turn |-> id, mode |-> out'.persist, snapshot |-> record']
        /\ landed' = (IF opened' # opened THEN 0 ELSE landed) /\ inputs' = inputs + 1
        /\ UNCHANGED <<tasks, sleeping, disk, armed, harness, reports>>
    BY <1>1 DEF ReadPrompt
  <2>2. TypeOK'
    BY <2>1, SessionTyped DEF Next
  <2>3. grace' = grace
    BY <2>1 DEF Prompt, PromptRetry, PromptReinject, PromptDropped, PromptOpens
  <2>4. control' \in ControlState /\ control'.turn = id
    BY <2>1, <2>2 DEF ControlState, Modes, TypeOK, Outcome, MaybeId
  <2>5. landed' \in Nat /\ inputs' \in 0..MaxInputs
    BY <2>1, ServerBoundsAssumption
  <2> QED BY <2>1, <2>2, <2>3, <2>4, <2>5, OtherKeepsInv DEF harness
<1>2. CASE InjectLands
  <2>1. /\ control.pc = "injecting" /\ control' = [control EXCEPT !.pc = "confirming"]
        /\ landed' = landed + 1 /\ inbox' \in {inbox, Append(inbox, control.turn)}
        /\ StepsOnly /\ UNCHANGED <<tasks, sleeping, disk, armed, running, inputs, reports>>
    BY <1>2 DEF InjectLands
  <2>2. control.turn \in TurnIds
    BY <2>1 DEF EffectsHaveTheirTurn
  <2>3. inbox' \in Seq(TurnIds)
    BY <2>1, <2>2, AppendIsTyped
  <2>4. control' \in ControlState /\ control'.turn = control.turn
    BY <2>1 DEF ControlState
  <2> QED BY <2>1, <2>2, <2>3, <2>4, SessionTyped, OtherKeepsInv DEF StepsOnly
<1>3. CASE InjectFails
  <2>1. /\ control.pc = "injecting" /\ control' = [control EXCEPT !.pc = "persist"]
        /\ StepsOnly /\ UNCHANGED <<tasks, sleeping, disk, armed, harness, counts>>
    BY <1>3 DEF InjectFails
  <2>2. control' \in ControlState /\ control'.turn = control.turn /\ control.turn \in TurnIds
    BY <2>1 DEF ControlState, EffectsHaveTheirTurn
  <2> QED BY <2>1, <2>2, SessionTyped, OtherKeepsInv DEF StepsOnly, harness, counts
<1>4. CASE Confirm
  <2>1. /\ control.pc = "confirming" /\ control' = [control EXCEPT !.pc = "persist"]
        /\ Injected(control.turn) /\ UNCHANGED <<tasks, sleeping, disk, armed, harness, counts>>
    BY <1>4 DEF Confirm
  <2>2. control' \in ControlState /\ control'.turn = control.turn /\ control.turn \in TurnIds
    BY <2>1 DEF ControlState, EffectsHaveTheirTurn
  <2>3. TypeOK'
    BY <2>1, <2>2, SessionTyped DEF Next
  <2>4. grace' = grace
    BY <2>1 DEF Injected
  <2> QED BY <2>1, <2>2, <2>3, <2>4, OtherKeepsInv DEF harness, counts
<1>5. CASE PersistPrompt
  <2>1. /\ \E fails \in BOOLEAN : Persist(control.mode, control.snapshot, fails)
        /\ control' = AtRest
        /\ StepsOnly /\ UNCHANGED <<tasks, sleeping, armed, harness, landed, reports>>
    BY <1>5 DEF PersistPrompt
  <2>2. disk' \in Record /\ inputs' \in 0..MaxInputs
    BY <2>1, PersistIsTyped DEF ControlState
  <2>3. control' \in ControlState /\ control'.pc = "idle"
    BY <2>1, FreeIsTyped DEF AtRest
  <2> QED BY <2>1, <2>2, <2>3, SessionTyped, OtherKeepsInv DEF StepsOnly, harness
<1> QED BY <1>1, <1>2, <1>3, <1>4, <1>5

LEMMA HarnessKeepsInv ==
  ASSUME ServerInv, NEW t \in Tasks,
         \/ HarnessBegins(t) \/ HarnessStops(t)
         \/ \E status \in Statuses, tag \in MaybeId : HarnessReports(t, status, tag)
  PROVE  ServerInv'
<1> USE DEF ServerInv, TimersAreAccountedFor, ServerTypeOK
<1>1. /\ turn.id \in MaybeId /\ 0 \in MaybeId
      /\ \A i \in TurnIds : /\ grace[i] = sleeping[i] + Cardinality(Holding(i))
                            /\ grace[i] \in Nat /\ sleeping[i] \in Nat /\ Cardinality(Holding(i)) \in Nat
  BY HoldingIsFinite DEF TypeOK, Turn, MaybeId, GraceIsAccountedFor, Holding
<1>2. CASE HarnessBegins(t)
  <2>1. /\ inbox # <<>> /\ running' = Head(inbox) /\ inbox' = Tail(inbox) /\ HookTurnAccepted
        /\ Spawn(t, turn.id, Strays(Head(inbox)))
        /\ UNCHANGED <<control, sleeping, disk, armed, counts>>
    BY <1>2 DEF HarnessBegins
  <2>2. running' \in MaybeId /\ inbox' \in Seq(TurnIds)
    BY <2>1 DEF MaybeId
  <2>3. TypeOK'
    BY <2>1, SessionTyped DEF Next
  <2>4. grace' = grace /\ out'.grace = "none" /\ out'.nudge = 0
    BY <2>1 DEF HookTurnAccepted, HookBegins, HookBegunAlready, Nothing
  <2>5. TakesUp(t, turn.id)
    BY <2>1, SpawnedTakesUp
  <2>6. UNCHANGED <<control, sleeping, disk, armed, landed, inputs, reports>>
    BY <2>1 DEF counts
  <2>7. \A i \in TurnIds : grace'[i] = sleeping'[i] + Cardinality(Holding(i))
                              + (IF out'.grace # "none" /\ i = turn.id THEN 1 ELSE 0)
    BY <1>1, <2>4, <2>6
  <2>8. /\ sleeping' \in [TurnIds -> Nat] /\ reports' \in 0..MaxReports
        /\ ~(out'.grace # "none" \/ out'.nudge > 0)
    BY <2>4, <2>6
  <2> QED BY <1>1, <2>2, <2>3, <2>5, <2>6, <2>7, <2>8, SpawnKeepsInv
<1>3. CASE HarnessStops(t)
  <2>1. /\ running' = 0 /\ HookTurnEnded /\ Spawn(t, turn.id, Strays(running))
        /\ UNCHANGED <<control, sleeping, disk, armed, inbox, counts>>
    BY <1>3 DEF HarnessStops
  <2>2. TypeOK'
    BY <2>1, SessionTyped DEF Next
  <2>3. /\ out'.nudge = 0
        /\ IF out'.grace = "none" THEN grace' = grace
           ELSE turn.id \in TurnIds /\ grace' = [grace EXCEPT ![turn.id] = @ + 1]
    BY <2>1, StopAsksForATimer
  <2>4. \A i \in TurnIds : grace'[i] = sleeping'[i] + Cardinality(Holding(i))
                              + (IF out'.grace # "none" /\ i = turn.id THEN 1 ELSE 0)
    BY <1>1, <2>1, <2>3 DEF TypeOK
  <2>5. TakesUp(t, turn.id)
    BY <2>1, SpawnedTakesUp
  <2>6. UNCHANGED <<control, sleeping, disk, armed, landed, inputs, reports>>
    BY <2>1 DEF counts
  <2>7. /\ sleeping' \in [TurnIds -> Nat] /\ reports' \in 0..MaxReports
        /\ inbox' \in Seq(TurnIds) /\ running' \in MaybeId
        /\ (out'.grace # "none" \/ out'.nudge > 0 => turn.id \in TurnIds)
    BY <1>1, <2>1, <2>3, <2>6
  <2> QED BY <1>1, <2>2, <2>4, <2>5, <2>6, <2>7, SpawnKeepsInv
<1>4. ASSUME NEW status \in Statuses, NEW tag \in MaybeId, HarnessReports(t, status, tag)
      PROVE  ServerInv'
  <2>1. /\ Report(status, tag) /\ reports < MaxReports /\ reports' = reports + 1
        /\ Spawn(t, turn.id, FALSE)
        /\ UNCHANGED <<control, sleeping, disk, armed, harness, landed, inputs>>
    BY <1>4 DEF HarnessReports
  <2>2. TypeOK'
    BY <2>1, SessionTyped DEF Next
  <2>3. grace' = grace /\ out'.grace = "none" /\ out'.nudge = 0
    BY <2>1 DEF Report, ReportTerminal, ReportBegins, ReportRelayed, Nothing
  <2>4. reports' \in 0..MaxReports
    BY <2>1, ServerBoundsAssumption
  <2>5. UNCHANGED <<control, sleeping, disk, armed, inbox, running, landed, inputs>>
    BY <2>1 DEF harness
  <2>6. \A i \in TurnIds : grace'[i] = sleeping'[i] + Cardinality(Holding(i))
                              + (IF out'.grace # "none" /\ i = turn.id THEN 1 ELSE 0)
    BY <1>1, <2>3, <2>5
  <2>7. /\ sleeping' \in [TurnIds -> Nat] /\ inbox' \in Seq(TurnIds) /\ running' \in MaybeId
        /\ ~(out'.grace # "none" \/ out'.nudge > 0)
    BY <2>3, <2>5
  <2>8. TakesUp(t, turn.id)
    BY <2>1, SpawnedTakesUp
  <2> QED BY <1>1, <2>1, <2>2, <2>4, <2>5, <2>6, <2>7, <2>8, SpawnKeepsInv
<1> QED BY <1>2, <1>3, <1>4

LEMMA GraceFiresKeepsInv ==
  ASSUME ServerInv, NEW t \in Tasks, NEW id \in TurnIds, GraceFires(t, id)
  PROVE  ServerInv'
<1> USE DEF ServerInv, TimersAreAccountedFor, ServerTypeOK
<1>1. /\ sleeping[id] > 0 /\ sleeping' = [sleeping EXCEPT ![id] = @ - 1]
      /\ GraceExpired(id) /\ Spawn(t, id, FALSE)
      /\ UNCHANGED <<control, disk, armed, harness, counts>>
  BY DEF GraceFires
<1>2. TypeOK' /\ id \in MaybeId
  BY <1>1, SessionTyped DEF Next, MaybeId
<1>3. sleeping' \in [TurnIds -> Nat]
  BY <1>1
<1>4. \A i \in TurnIds : grace'[i] = sleeping'[i] + Cardinality(Holding(i))
                            + (IF out'.grace # "none" /\ i = id THEN 1 ELSE 0)
  <2> SUFFICES ASSUME NEW i \in TurnIds
               PROVE  grace'[i] = sleeping'[i] + Cardinality(Holding(i))
                            + (IF out'.grace # "none" /\ i = id THEN 1 ELSE 0)
    OBVIOUS
  <2>1. /\ grace[i] = sleeping[i] + Cardinality(Holding(i))
        /\ grace[i] \in Nat /\ sleeping[i] \in Nat /\ Cardinality(Holding(i)) \in Nat
    BY HoldingIsFinite DEF TypeOK, GraceIsAccountedFor, Holding
  <2>2. sleeping'[i] = IF i = id THEN sleeping[i] - 1 ELSE sleeping[i]
    BY <1>1
  <2>3. grace'[i] = IF out'.grace = "none" /\ i = id THEN grace[i] - 1 ELSE grace[i]
    BY <1>1, TimerAsksForAnother DEF TypeOK
  <2> QED BY <2>1, <2>2, <2>3
<1>5. TakesUp(t, id)
  BY <1>1, SpawnedTakesUp
<1> QED BY <1>1, <1>2, <1>3, <1>4, <1>5, SpawnKeepsInv DEF harness, counts

LEMMA FinishKeepsInv ==
  ASSUME ServerInv, NEW t \in Tasks, FinishTask(t)
  PROVE  ServerInv'
<1> USE DEF ServerInv, TimersAreAccountedFor, ServerTypeOK
<1> DEFINE w == tasks[t]
<1>1. /\ armed' = (CASE w.beat = "arm" -> TRUE [] w.beat = "silence" -> FALSE [] OTHER -> armed)
      /\ inbox' \in IF w.nudge THEN {inbox, Append(inbox, w.turn)} ELSE {inbox}
      /\ sleeping' = IF w.grace THEN [sleeping EXCEPT ![w.turn] = @ + 1] ELSE sleeping
      /\ tasks' = [tasks EXCEPT ![t] = Free]
      /\ StepsOnly /\ UNCHANGED <<control, disk, running, counts>>
  BY DEF FinishTask
<1>2. w \in Work /\ DOMAIN tasks = Tasks /\ (w.grace \/ w.nudge => w.turn \in TurnIds)
  BY DEF EffectsHaveTheirTurn
<1>3. ServerTypeOK'
  <2>1. armed' \in BOOLEAN
    BY <1>1
  <2>2. inbox' \in Seq(TurnIds)
    BY <1>1, <1>2, AppendIsTyped
  <2>3. sleeping' \in [TurnIds -> Nat]
    BY <1>1, <1>2
  <2>4. tasks' \in [Tasks -> Work]
    BY <1>1, FreeIsTyped
  <2> QED BY <1>1, <2>1, <2>2, <2>3, <2>4, SessionTyped DEF counts
<1>4. GraceIsAccountedFor'
  <2> SUFFICES ASSUME NEW i \in TurnIds
               PROVE  grace'[i] = sleeping'[i] + Cardinality(Holding(i)')
    BY DEF GraceIsAccountedFor, Holding
  <2>1. grace[i] = sleeping[i] + Cardinality(Holding(i)) /\ sleeping[i] \in Nat
    BY DEF GraceIsAccountedFor, Holding
  <2>2. Cardinality(Holding(i)) =
          Cardinality(Holding(i)') + (IF w.grace /\ w.turn = i THEN 1 ELSE 0)
    BY <1>1, <1>2, HoldingShrinks DEF Work
  <2>3. Cardinality(Holding(i)') \in Nat
    <3>1. Holding(i)' \in SUBSET Tasks
      BY DEF Holding
    <3> QED BY <3>1, ServerBoundsAssumption, FS_Subset, FS_CardinalityType
  <2>4. sleeping'[i] = IF w.grace /\ w.turn = i THEN sleeping[i] + 1 ELSE sleeping[i]
    BY <1>1, <1>2
  <2>5. grace'[i] = grace[i]
    BY <1>1 DEF StepsOnly
  <2> QED BY <2>1, <2>2, <2>3, <2>4, <2>5
<1>5. EffectsHaveTheirTurn'
  BY <1>1 DEF EffectsHaveTheirTurn, Free
<1> QED BY <1>3, <1>4, <1>5

LEMMA ServerInvStep == ServerInv /\ [ServerNext]_allVars => ServerInv'
<1> SUFFICES ASSUME ServerInv, [ServerNext]_allVars PROVE ServerInv'
  OBVIOUS
<1>1. CASE \/ \E id \in TurnIds : ReadPrompt(id)
           \/ InjectLands \/ InjectFails \/ Confirm \/ PersistPrompt
  BY <1>1, ControlKeepsInv
<1>2. ASSUME NEW t \in Tasks,
             \/ HarnessBegins(t) \/ HarnessStops(t)
             \/ \E status \in Statuses, tag \in MaybeId : HarnessReports(t, status, tag)
      PROVE  ServerInv'
  BY <1>2, HarnessKeepsInv
<1>3. ASSUME NEW t \in Tasks, NEW id \in TurnIds, GraceFires(t, id) PROVE ServerInv'
  BY <1>3, GraceFiresKeepsInv
<1>4. ASSUME NEW t \in Tasks, PersistTask(t) PROVE ServerInv'
  <2> USE DEF ServerInv, TimersAreAccountedFor, ServerTypeOK
  <2>1. /\ \E fails \in BOOLEAN : Persist(tasks[t].mode, tasks[t].snapshot, fails)
        /\ tasks' = [tasks EXCEPT ![t].pc = "finish"]
        /\ StepsOnly /\ UNCHANGED <<control, sleeping, armed, harness, landed, reports>>
    BY <1>4 DEF PersistTask
  <2>2. tasks[t] \in Work
    OBVIOUS
  <2>3. disk' \in Record /\ inputs' \in 0..MaxInputs
    BY <2>1, <2>2, PersistIsTyped DEF Work
  <2>4. tasks' \in [Tasks -> Work]
    BY <2>1, <2>2 DEF Work
  <2>5. \A u \in Tasks : /\ tasks'[u].grace = tasks[u].grace /\ tasks'[u].turn = tasks[u].turn
                         /\ tasks'[u].nudge = tasks[u].nudge
                         /\ tasks'[u].pc = "free" => tasks[u].pc = "free"
    BY <2>1, <2>2 DEF Work
  <2>6. control'.pc # "idle" => control'.turn \in TurnIds
    BY <2>1 DEF EffectsHaveTheirTurn
  <2> QED BY <2>1, <2>3, <2>4, <2>5, <2>6, SessionTyped, OtherKeepsInv DEF StepsOnly, harness
<1>5. ASSUME NEW t \in Tasks, FinishTask(t) PROVE ServerInv'
  BY <1>5, FinishKeepsInv
<1>6. CASE UNCHANGED allVars
  BY <1>6 DEF allVars, vars, async, harness, counts, ServerInv, TimersAreAccountedFor, ServerTypeOK,
              TypeOK, GraceIsAccountedFor, EffectsHaveTheirTurn
<1> QED BY <1>1, <1>2, <1>3, <1>4, <1>5, <1>6 DEF ServerNext

LEMMA ServerInitSafe == ServerInit => ServerInv
<1> SUFFICES ASSUME ServerInit PROVE ServerInv
  OBVIOUS
<1>1. TypeOK
  BY InitTyped DEF ServerInit
<1>2. ServerTypeOK
  <2>1. control \in ControlState /\ tasks \in [Tasks -> Work]
    BY FreeIsTyped DEF ServerInit
  <2>2. sleeping \in [TurnIds -> Nat] /\ armed \in BOOLEAN /\ disk \in Record
    BY <1>1 DEF ServerInit, TypeOK
  <2>3. inbox \in Seq(TurnIds) /\ running \in MaybeId
    BY DEF ServerInit, MaybeId
  <2>4. landed \in Nat /\ inputs \in 0..MaxInputs /\ reports \in 0..MaxReports
    BY ServerBoundsAssumption DEF ServerInit
  <2> QED BY <1>1, <2>1, <2>2, <2>3, <2>4 DEF ServerTypeOK
<1>3. GraceIsAccountedFor
  <2> SUFFICES ASSUME NEW i \in TurnIds PROVE grace[i] = sleeping[i] + Cardinality(Holding(i))
    BY DEF GraceIsAccountedFor, Holding
  <2>1. Holding(i) = {}
    BY DEF ServerInit, Holding, Free
  <2> QED BY <2>1, FS_EmptySet DEF ServerInit, Init
<1>4. EffectsHaveTheirTurn
  BY DEF ServerInit, EffectsHaveTheirTurn, Free, AtRest
<1> QED BY <1>2, <1>3, <1>4 DEF ServerInv, TimersAreAccountedFor

LEMMA ServerSafe == ServerSpec => []ServerInv
  BY ServerInitSafe, ServerInvStep, PTL DEF ServerSpec

(* Every grace timer the session has asked for is asleep once, or in the   *)
(* hands of one task that will put it to sleep: TimersAreAccountedFor, for *)
(* any number of turns, tasks, prompts and reports, and any budgets.       *)
THEOREM NoTimerIsLostOrDoubled == ServerSpec => []TimersAreAccountedFor
<1>1. ServerInv => TimersAreAccountedFor
  BY DEF ServerInv
<1> QED BY <1>1, ServerSafe, PTL

-----------------------------------------------------------------------------
(***************************************************************************)
(* Deliveries.  What the transport was given of the turn in flight is paid *)
(* for by its re-injections, and a turn that is not marked injected is not *)
(* yet delivered, or about to be marked.                                   *)
(***************************************************************************)
Injecting == IF control.pc = "injecting" THEN 1 ELSE 0

DeliveriesAreCounted ==
  /\ landed + Injecting <= 1 + MaxReinjections
  /\ control.pc = "confirming" => landed > 0
  /\ InFlight =>
       /\ landed + Injecting <= 1 + turn.reinjections
       /\ turn.injected => landed > 0
       /\ ~turn.injected => landed = 0 \/ control.pc = "confirming"
       /\ control.pc \in {"injecting", "confirming"} => control.turn = turn.id

\* A resend is paid for by a re-injection, or the turn was not yet delivered.
LEMMA PromptIsCounted ==
  ASSUME ServerInv, ServerInv', DeliveriesAreCounted, NEW id \in TurnIds, ReadPrompt(id)
  PROVE  DeliveriesAreCounted'
<1>1. /\ control.pc = "idle" /\ Prompt(id)
      /\ control' = [pc |-> IF out'.inject THEN "injecting" ELSE "persist",
                     turn |-> id, mode |-> out'.persist, snapshot |-> record']
      /\ landed' = IF opened' # opened THEN 0 ELSE landed
  BY DEF ReadPrompt
<1>2. /\ TypeOK /\ landed \in Nat /\ MaxReinjections \in Nat /\ id # 0
      /\ turn.reinjections \in Nat /\ turn'.reinjections \in 0..MaxReinjections
  BY BudgetAssumption, TurnIdsAssumption, SMTT(20)
  DEF ServerInv, TimersAreAccountedFor, ServerTypeOK, TypeOK, Turn
<1>3. turn'.id = id
  BY <1>1, <1>2, PromptTakesTheTurn
<1>4. /\ control'.turn = id /\ control'.pc # "confirming"
      /\ Injecting' = IF out'.inject THEN 1 ELSE 0
  BY <1>1 DEF Injecting
<1>5. CASE turn.id = id
  <2>1. /\ opened' = opened /\ landed' = landed /\ turn'.injected = turn.injected
        /\ IF out'.inject /\ turn.injected THEN turn'.reinjections = turn.reinjections + 1
                                           ELSE turn'.reinjections = turn.reinjections
    BY <1>1, <1>2, <1>5, PromptTakesTheTurn
  <2>2. /\ landed <= 1 + turn.reinjections /\ (turn.injected => landed > 0)
        /\ ~turn.injected => landed = 0
    BY <1>1, <1>2, <1>5 DEF DeliveriesAreCounted, InFlight, Injecting
  <2>3. landed + Injecting' <= 1 + turn'.reinjections
    BY <1>2, <1>4, <2>1, <2>2
  <2>4. landed + Injecting' <= 1 + MaxReinjections
    BY <1>2, <1>4, <2>3
  <2> QED BY <1>2, <1>3, <1>4, <2>1, <2>2, <2>3, <2>4 DEF DeliveriesAreCounted, InFlight
<1>6. CASE turn.id # id
  <2>1. opened'[id] = opened[id] + 1 /\ opened[id] \in Nat
    BY <1>1, <1>2, <1>6, PromptTakesTheTurn DEF TypeOK
  <2>2. landed' = 0
    BY <1>1, <2>1
  <2>3. ~turn'.injected /\ turn'.reinjections = 0
    BY <1>1, <1>2, <1>6, PromptTakesTheTurn
  <2> QED BY <1>2, <1>3, <1>4, <2>2, <2>3 DEF DeliveriesAreCounted, InFlight
<1> QED BY <1>5, <1>6

LEMMA DeliveryStep ==
  ASSUME ServerInv, ServerInv', DeliveriesAreCounted, [ServerNext]_allVars
  PROVE  DeliveriesAreCounted'
<1>1. /\ TypeOK /\ landed \in Nat /\ MaxReinjections \in Nat /\ control \in ControlState
      /\ turn.reinjections \in Nat
  BY BudgetAssumption DEF ServerInv, TimersAreAccountedFor, ServerTypeOK, TypeOK, Turn
<1>2. ASSUME NEW id \in TurnIds, ReadPrompt(id) PROVE DeliveriesAreCounted'
  BY <1>2, PromptIsCounted
<1>3. CASE InjectLands
  <2>1. /\ control.pc = "injecting" /\ landed' = landed + 1 /\ turn' = turn
        /\ control'.pc = "confirming" /\ control'.turn = control.turn
    BY <1>1, <1>3 DEF InjectLands, StepsOnly, ControlState
  <2> QED BY <1>1, <2>1 DEF DeliveriesAreCounted, Injecting, InFlight
<1>4. CASE InjectFails
  <2>1. control.pc = "injecting" /\ landed' = landed /\ turn' = turn /\ control'.pc = "persist"
    BY <1>1, <1>4 DEF InjectFails, StepsOnly, ControlState, counts
  <2> QED BY <1>1, <2>1 DEF DeliveriesAreCounted, Injecting, InFlight
<1>5. CASE Confirm
  <2>1. /\ control.pc = "confirming" /\ landed' = landed /\ control'.pc = "persist"
        /\ turn' = IF turn.id = control.turn THEN [turn EXCEPT !.injected = TRUE] ELSE turn
    BY <1>1, <1>5 DEF Confirm, Injected, ControlState, counts
  <2>2. /\ turn'.id = turn.id /\ turn'.reinjections = turn.reinjections
        /\ turn.id = control.turn => turn'.injected
    BY <1>1, <2>1 DEF TypeOK, Turn
  <2> QED BY <1>1, <2>1, <2>2 DEF DeliveriesAreCounted, Injecting, InFlight
<1>6. CASE PersistPrompt
  <2>1. control.pc = "persist" /\ landed' = landed /\ turn' = turn /\ control'.pc = "idle"
    BY <1>6 DEF PersistPrompt, StepsOnly, AtRest, counts
  <2> QED BY <1>1, <2>1 DEF DeliveriesAreCounted, Injecting, InFlight
<1>7. ASSUME landed' = landed, control' = control, GoesOn, turn'.injected => turn.injected
      PROVE  DeliveriesAreCounted'
  <2>1. /\ Injecting' = Injecting
        /\ turn'.id # 0 => /\ turn'.id = turn.id /\ turn'.reinjections = turn.reinjections
                           /\ turn'.injected <=> turn.injected
    BY <1>7 DEF GoesOn, Injecting
  <2> QED BY <1>7, <2>1 DEF DeliveriesAreCounted, InFlight
<1>8. ASSUME NEW t \in Tasks,
             \/ HarnessBegins(t) \/ HarnessStops(t)
             \/ \E status \in Statuses, tag \in MaybeId : HarnessReports(t, status, tag)
             \/ \E id \in TurnIds : GraceFires(t, id)
             \/ PersistTask(t) \/ FinishTask(t)
      PROVE  DeliveriesAreCounted'
  <2>1. /\ landed' = landed /\ control' = control
        /\ \/ UNCHANGED <<turn, opened>> \/ HookTurnAccepted \/ HookTurnEnded
           \/ \E id \in TurnIds : GraceExpired(id)
           \/ \E status \in Statuses, tag \in MaybeId : Report(status, tag)
    BY <1>8 DEF HarnessBegins, HarnessStops, HarnessReports, GraceFires, PersistTask, FinishTask,
                StepsOnly, counts
  <2> QED BY <1>1, <1>7, <2>1, SessionGoesOn, InjectedIsKept
<1>9. CASE UNCHANGED allVars
  BY <1>9 DEF allVars, vars, async, counts, DeliveriesAreCounted, Injecting, InFlight
<1> QED BY <1>2, <1>3, <1>4, <1>5, <1>6, <1>8, <1>9 DEF ServerNext

(* A turn the harness was never handed is injected again by the next       *)
(* resend, and the transport takes a turn at most MAX_REINJECTIONS times   *)
(* more than once: for any number of turns, prompts and tasks, and any     *)
(* budget.                                                                 *)
THEOREM ResendsDeliverAndStop == ServerSpec => []DeliveredUntilBegun
<1>1. ServerInit => DeliveriesAreCounted
  BY BudgetAssumption DEF ServerInit, Init, AtRest, NoTurn, FreshTurn, InFlight, Injecting,
                          DeliveriesAreCounted
<1>2. ServerInv /\ ServerInv' /\ DeliveriesAreCounted /\ [ServerNext]_allVars
        => DeliveriesAreCounted'
  BY DeliveryStep
<1>3. ServerInv /\ DeliveriesAreCounted => DeliveredUntilBegun
  <2> SUFFICES ASSUME ServerInv, DeliveriesAreCounted PROVE DeliveredUntilBegun
    OBVIOUS
  <2>1. landed \in Nat /\ Injecting \in {0, 1} /\ MaxReinjections \in Nat
    BY BudgetAssumption DEF ServerInv, TimersAreAccountedFor, ServerTypeOK, Injecting
  <2> QED BY <2>1 DEF DeliveriesAreCounted, DeliveredUntilBegun, UndeliveredStaysRetryable,
                      DeliveriesAreBounded, Undelivered
<1> QED BY <1>1, <1>2, <1>3, ServerSafe, PTL DEF ServerSpec

-----------------------------------------------------------------------------
(***************************************************************************)
(* Effects.  Those with effects to execute stand in line in the order of   *)
(* their steps.  When nothing is overtaken, the disk comes to what the     *)
(* last forced snapshot in line is, which is the record; and the heartbeat *)
(* comes to what the last one in line makes of it.                         *)
(***************************************************************************)
PastState == [overtaken : BOOLEAN, strayed : BOOLEAN, unwritten : BOOLEAN]

LineIsOrdered ==
  /\ past \in PastState
  /\ ahead \subseteq Busy \X Busy
  /\ \A p \in Busy : <<p, p>> \notin ahead
  /\ \A p, q \in Busy : p = q \/ <<p, q>> \in ahead \/ <<q, p>> \in ahead
  /\ \A p, q, r \in Busy : <<p, q>> \in ahead /\ <<q, r>> \in ahead => <<p, r>> \in ahead

Forced(p) == Persisting(p) /\ ModeOf(p) = "force"

\* The last forced snapshot in S is v, or the disk is, when there is none and
\* the last one written did not fail.
ComesTo(S, v) ==
  /\ ~past.unwritten /\ (\A q \in S : ~Forced(q)) => disk = v
  /\ \A q \in S : Forced(q) /\ (\A r \in S : Forced(r) => r = q \/ <<r, q>> \in ahead)
                    => SnapshotOf(q) = v

\* What the throttle may drop is what the disk comes to before it.
SnapshotsFollow ==
  ~past.overtaken =>
    /\ ComesTo(Busy, record)
    /\ \A p \in Busy : Persisting(p) /\ ~Forced(p) => ComesTo(Before(p), SnapshotOf(p))

\* The heartbeat is, or will be, armed by the last one to touch it only
\* while the agent works on the turn in flight.
AgentWorks == past.strayed \/ (running # 0 /\ InFlight /\ ~turn.ended)

LastBeat(q) == BeatOf(q) # "none" /\ \A r \in Busy : BeatOf(r) # "none" => r = q \/ <<r, q>> \in ahead

BeatsFollow ==
  ~past.overtaken =>
    /\ (\A q \in Busy : BeatOf(q) = "none") => (armed => AgentWorks)
    /\ \A q \in Busy : BeatOf(q) = "arm" /\ LastBeat(q) => AgentWorks

\* A turn that the agent works on, or has stopped, is accepted, unless hooks
\* were taken for those of another turn; and what is handed to the agent was
\* opened.
Opened == {id \in TurnIds : opened[id] > 0}

HooksAreTheTurns ==
  /\ ~past.strayed /\ InFlight =>
       /\ turn.ended => turn.accepted
       /\ turn.id = running /\ opened[running] = 1 => turn.accepted
  /\ InFlight => turn.id \in Opened
  /\ control.pc # "idle" => control.turn \in Opened
  /\ running # 0 => running \in Opened
  /\ inbox \in Seq(Opened)
  /\ \A t \in Tasks : tasks[t].nudge => tasks[t].turn \in Opened

EffectsInv == LineIsOrdered /\ SnapshotsFollow /\ BeatsFollow /\ HooksAreTheTurns

-----------------------------------------------------------------------------
(* How a step moves the line: one joins it, one leaves it, or nobody does. *)
Unmoved(r) ==
  /\ Persisting(r)' <=> Persisting(r)
  /\ ModeOf(r)' = ModeOf(r) /\ SnapshotOf(r)' = SnapshotOf(r) /\ BeatOf(r)' = BeatOf(r)

Joins(p) ==
  /\ p \notin Busy /\ Busy' = Busy \cup {p} /\ ahead' = ahead \cup {<<q, p>> : q \in Busy}
  /\ \A r \in Busy : Unmoved(r)
  /\ ModeOf(p)' = out'.persist /\ SnapshotOf(p)' = record'
  /\ Persisting(p)' <=> out'.persist # "none"
  /\ UNCHANGED <<disk, armed>> /\ (past'.overtaken <=> past.overtaken)
  /\ past'.unwritten <=> past.unwritten

Leaves(p) ==
  /\ p \in Busy /\ Busy' = Busy \ {p} /\ LeavesLine(p)
  /\ \A r \in Busy \ {p} : Unmoved(r)

Stays == Busy' = Busy /\ ahead' = ahead

LEMMA LineGrows ==
  ASSUME LineIsOrdered, NEW p, Joins(p), past' \in PastState
  PROVE  LineIsOrdered' /\ \A q : <<p, q>> \notin ahead'
<1>1. /\ p \notin Busy /\ Busy' = Busy \cup {p}
      /\ \A q, r : <<q, r>> \in ahead' <=> <<q, r>> \in ahead \/ (r = p /\ q \in Busy)
      /\ \A q, r : <<q, r>> \in ahead => q \in Busy /\ r \in Busy
  BY DEF Joins, LineIsOrdered
<1>2. ahead' \subseteq Busy' \X Busy'
  BY <1>1 DEF LineIsOrdered, Joins
<1>3. \A q : <<p, q>> \notin ahead'
  BY <1>1
<1>4. \A q \in Busy' : <<q, q>> \notin ahead'
  BY <1>1 DEF LineIsOrdered
<1>5. \A q, r \in Busy' : q = r \/ <<q, r>> \in ahead' \/ <<r, q>> \in ahead'
  BY <1>1 DEF LineIsOrdered
<1>6. \A q, r, s \in Busy' : <<q, r>> \in ahead' /\ <<r, s>> \in ahead' => <<q, s>> \in ahead'
  BY <1>1 DEF LineIsOrdered
<1> QED BY <1>2, <1>3, <1>4, <1>5, <1>6 DEF LineIsOrdered

LEMMA LineShrinks ==
  ASSUME LineIsOrdered, NEW p, Leaves(p), past' \in PastState
  PROVE  /\ LineIsOrdered'
         /\ \A q, r : <<q, r>> \in ahead' <=> <<q, r>> \in ahead /\ q # p /\ r # p
<1>1. /\ Busy' = Busy \ {p} /\ ahead' = {e \in ahead : e[1] # p /\ e[2] # p}
      /\ \A q, r : <<q, r>> \in ahead' <=> <<q, r>> \in ahead /\ q # p /\ r # p
  BY DEF Leaves, LeavesLine
<1>2. ahead' \subseteq Busy' \X Busy'
  <2> SUFFICES ASSUME NEW e \in ahead' PROVE e \in Busy' \X Busy'
    OBVIOUS
  <2>1. e \in Busy \X Busy /\ e[1] # p /\ e[2] # p
    BY <1>1 DEF LineIsOrdered
  <2> QED BY <1>1, <2>1
<1>3. /\ \A q \in Busy' : <<q, q>> \notin ahead'
      /\ \A q, r \in Busy' : q = r \/ <<q, r>> \in ahead' \/ <<r, q>> \in ahead'
  BY <1>1 DEF LineIsOrdered
<1>4. \A q, r, s \in Busy' : <<q, r>> \in ahead' /\ <<r, s>> \in ahead' => <<q, s>> \in ahead'
  BY <1>1 DEF LineIsOrdered
<1> QED BY <1>1, <1>2, <1>3, <1>4 DEF LineIsOrdered

LEMMA LineStays ==
  ASSUME LineIsOrdered, Stays, past' \in PastState
  PROVE  LineIsOrdered'
BY DEF LineIsOrdered, Stays

-----------------------------------------------------------------------------
(* What one who joins the line changes of what the disk comes to.          *)
LEMMA JoinsFollow ==
  ASSUME LineIsOrdered, LineIsOrdered', SnapshotsFollow, NEW p, Joins(p),
         \A q : <<p, q>> \notin ahead',
         record' = record \/ out'.persist = "force"
  PROVE  SnapshotsFollow'
<1> SUFFICES ASSUME ~past'.overtaken
             PROVE  /\ ComesTo(Busy, record)'
                    /\ \A q \in Busy' : Persisting(q)' /\ ~Forced(q)'
                                          => ComesTo(Before(q), SnapshotOf(q))'
  BY DEF SnapshotsFollow
<1>1. /\ p \notin Busy /\ Busy' = Busy \cup {p} /\ disk' = disk
      /\ \A q, r : <<q, r>> \in ahead' <=> <<q, r>> \in ahead \/ (r = p /\ q \in Busy)
      /\ \A q, r : <<q, r>> \in ahead => q \in Busy /\ r \in Busy
      /\ SnapshotOf(p)' = record' /\ (past'.unwritten <=> past.unwritten)
  BY DEF Joins, LineIsOrdered
<1>2. \A r \in Busy : /\ Forced(r)' <=> Forced(r)
                      /\ Persisting(r)' <=> Persisting(r)
                      /\ SnapshotOf(r)' = SnapshotOf(r)
  BY DEF Joins, Unmoved, Forced
<1>3. Forced(p)' <=> out'.persist = "force"
  BY DEF Joins, Forced
<1>4. /\ ComesTo(Busy, record)
      /\ \A q \in Busy : Persisting(q) /\ ~Forced(q) => ComesTo(Before(q), SnapshotOf(q))
  BY DEF SnapshotsFollow, Joins
<1>5. ComesTo(Busy, record)'
  <2>1. CASE Forced(p)'
    <3>1. \A q \in Busy' : (\A r \in Busy' : Forced(r)' => r = q \/ <<r, q>> \in ahead') => q = p
      BY <1>1, <2>1
    <3> QED BY <1>1, <2>1, <3>1 DEF ComesTo
  <2>2. CASE ~Forced(p)'
    <3>1. record' = record
      BY <1>3, <2>2
    <3>2. ~past'.unwritten /\ (\A q \in Busy' : ~Forced(q)') => disk' = record'
      BY <1>1, <1>2, <1>4, <3>1 DEF ComesTo
    <3>3. ASSUME NEW q \in Busy', Forced(q)',
                 \A r \in Busy' : Forced(r)' => r = q \/ <<r, q>> \in ahead'
          PROVE  SnapshotOf(q)' = record'
      <4>1. q \in Busy /\ Forced(q) /\ \A r \in Busy : Forced(r) => r = q \/ <<r, q>> \in ahead
        BY <1>1, <1>2, <2>2, <3>3
      <4> QED BY <1>2, <1>4, <3>1, <4>1 DEF ComesTo
    <3> QED BY <3>2, <3>3 DEF ComesTo
  <2> QED BY <2>1, <2>2
<1>6. ASSUME NEW q \in Busy', Persisting(q)', ~Forced(q)'
      PROVE  ComesTo(Before(q), SnapshotOf(q))'
  <2>1. CASE q = p
    <3>1. Before(q)' = Busy
      BY <1>1, <2>1 DEF Before
    <3>2. record' = record /\ SnapshotOf(q)' = record
      BY <1>1, <1>3, <1>6, <2>1
    <3>3. ~past'.unwritten /\ (\A r \in Busy : ~Forced(r)') => disk' = record
      BY <1>1, <1>2, <1>4 DEF ComesTo
    <3>4. \A r \in Busy : Forced(r)' /\ (\A s \in Busy : Forced(s)' => s = r \/ <<s, r>> \in ahead')
                            => SnapshotOf(r)' = record
      <4>1. \A r, s \in Busy : <<s, r>> \in ahead' <=> <<s, r>> \in ahead
        BY <1>1
      <4> QED BY <1>2, <1>4, <4>1 DEF ComesTo
    <3> QED BY <3>1, <3>2, <3>3, <3>4 DEF ComesTo
  <2>2. CASE q # p
    <3>1. q \in Busy /\ Persisting(q) /\ ~Forced(q) /\ SnapshotOf(q)' = SnapshotOf(q)
      BY <1>1, <1>2, <1>6, <2>2
    <3>2. Before(q)' = Before(q) /\ Before(q) \subseteq Busy
      BY <1>1, <2>2 DEF Before
    <3>3. ComesTo(Before(q), SnapshotOf(q))
      BY <1>4, <3>1
    <3>4. \A r, s \in Before(q) : <<s, r>> \in ahead' <=> <<s, r>> \in ahead
      BY <1>1, <3>2
    <3>5. ~past'.unwritten /\ (\A r \in Before(q) : ~Forced(r)') => disk' = SnapshotOf(q)
      BY <1>1, <1>2, <3>2, <3>3 DEF ComesTo
    <3>6. \A r \in Before(q) :
            Forced(r)' /\ (\A s \in Before(q) : Forced(s)' => s = r \/ <<s, r>> \in ahead')
              => SnapshotOf(r)' = SnapshotOf(q)
      BY <1>2, <3>2, <3>3, <3>4 DEF ComesTo
    <3> QED BY <3>1, <3>2, <3>5, <3>6 DEF ComesTo
  <2> QED BY <2>1, <2>2
<1> QED BY <1>5, <1>6

(* What one who persists, without overtaking, changes of what those in S   *)
(* come to; T are those of S who still stand in line.                      *)
LEMMA PersistComesTo ==
  ASSUME LineIsOrdered, NEW p \in Busy, NEW S, NEW T, NEW v, S \subseteq Busy, T \subseteq Busy,
         S \ {p} = T \ {p}, ComesTo(S, v),
         NEW fails \in BOOLEAN, Persist(ModeOf(p), SnapshotOf(p), fails), ModeOf(p) \in Modes,
         past'.unwritten <=> (IF ModeOf(p) = "force" THEN fails ELSE past.unwritten),
         ~WritesBefore(p), Persisting(p) \/ ModeOf(p) = "none", ~Forced(p)',
         \A r \in Busy \ {p} : Unmoved(r),
         \A q, r \in Busy \ {p} : <<q, r>> \in ahead' <=> <<q, r>> \in ahead,
         Forced(p) /\ p \notin S => SnapshotOf(p) = v,
         ~past.unwritten /\ Persisting(p) /\ ~Forced(p) /\ (\A q \in S : ~Forced(q))
           => SnapshotOf(p) = v
  PROVE  /\ ~past'.unwritten /\ (\A q \in T : ~Forced(q)') => disk' = v
         /\ \A q \in T :
              Forced(q)' /\ (\A r \in T : Forced(r)' => r = q \/ <<r, q>> \in ahead')
                => SnapshotOf(q)' = v
<1>1. \A r \in Busy \ {p} : (Forced(r)' <=> Forced(r)) /\ SnapshotOf(r)' = SnapshotOf(r)
  BY DEF Unmoved, Forced
<1>2. ASSUME ~past'.unwritten, \A q \in T : ~Forced(q)' PROVE disk' = v
  <2>1. \A q \in S : q # p => ~Forced(q)
    BY <1>1, <1>2
  <2>2. CASE Forced(p)
    <3>1. disk' = SnapshotOf(p)
      BY <1>2, <2>2 DEF Persist, Forced
    <3>2. CASE p \in S
      BY <2>1, <2>2, <3>1, <3>2 DEF ComesTo
    <3>3. CASE p \notin S
      BY <2>2, <3>1, <3>3
    <3> QED BY <3>2, <3>3
  <2>3. CASE ~Forced(p)
    <3>1. ~past.unwritten /\ disk = v /\ \A q \in S : ~Forced(q)
      <4>1. ModeOf(p) # "force"
        BY <2>3 DEF Forced
      <4>2. ~past.unwritten
        BY <1>2, <4>1
      <4> QED BY <2>1, <2>3, <4>2 DEF ComesTo
    <3>2. CASE ModeOf(p) = "none"
      BY <3>1, <3>2 DEF Persist
    <3>3. CASE ModeOf(p) # "none"
      <4>1. Persisting(p) /\ ModeOf(p) = "throttled"
        BY <2>3, <3>3 DEF Forced, Modes
      <4> QED BY <2>3, <3>1, <4>1 DEF Persist
    <3> QED BY <3>2, <3>3
  <2> QED BY <2>2, <2>3
<1>3. ASSUME NEW q \in T, Forced(q)', \A r \in T : Forced(r)' => r = q \/ <<r, q>> \in ahead'
      PROVE  SnapshotOf(q)' = v
  <2>1. /\ q # p /\ q \in S /\ q \in Busy /\ Forced(q) /\ SnapshotOf(q)' = SnapshotOf(q)
        /\ \A r \in S : r # p /\ Forced(r) => r = q \/ <<r, q>> \in ahead
    BY <1>1, <1>3
  <2>2. CASE ~Forced(p) \/ p \notin S \/ <<p, q>> \in ahead
    BY <2>1, <2>2 DEF ComesTo
  <2>3. CASE Forced(p) /\ p \in S /\ <<q, p>> \in ahead
    <3>1. SnapshotOf(q) = SnapshotOf(p)
      BY <2>1, <2>3 DEF WritesBefore, Before, Forced
    <3>2. \A r \in S : Forced(r) => r = p \/ <<r, p>> \in ahead
      BY <2>1, <2>3 DEF LineIsOrdered
    <3> QED BY <2>1, <2>3, <3>1, <3>2 DEF ComesTo
  <2> QED BY <2>1, <2>2, <2>3 DEF LineIsOrdered
<1> QED BY <1>2, <1>3

\* What history keeps of it.
LEMMA PassesIsTyped ==
  ASSUME NEW p, NEW fails \in BOOLEAN, past \in PastState, Passes(p, fails)
  PROVE  /\ past' \in PastState /\ past'.strayed = past.strayed
         /\ past'.overtaken <=> past.overtaken \/ WritesBefore(p)
         /\ past'.unwritten <=> (IF ModeOf(p) = "force" THEN fails ELSE past.unwritten)
<1>1. WritesBefore(p) \in BOOLEAN
  BY DEF WritesBefore, Persisting
<1> QED BY <1>1 DEF Passes, PastState

(* One who persists without overtaking leaves a disk that still comes to   *)
(* the record, and to what the throttled ones still in line may drop.      *)
LEMMA PersistFollows ==
  ASSUME LineIsOrdered, SnapshotsFollow, NEW p \in Busy,
         Busy' \subseteq Busy, Busy \ {p} = Busy' \ {p},
         NEW fails \in BOOLEAN, Persist(ModeOf(p), SnapshotOf(p), fails), ModeOf(p) \in Modes,
         past'.unwritten <=> (IF ModeOf(p) = "force" THEN fails ELSE past.unwritten),
         Persisting(p) \/ ModeOf(p) = "none", ~Persisting(p)',
         \A r \in Busy \ {p} : Unmoved(r),
         \A q, r \in Busy \ {p} : <<q, r>> \in ahead' <=> <<q, r>> \in ahead,
         past'.overtaken <=> past.overtaken \/ WritesBefore(p), record' = record
  PROVE  SnapshotsFollow'
<1> SUFFICES ASSUME ~past'.overtaken
             PROVE  /\ ComesTo(Busy, record)'
                    /\ \A x \in Busy' : Persisting(x)' /\ ~Forced(x)'
                                          => ComesTo(Before(x), SnapshotOf(x))'
  BY DEF SnapshotsFollow
<1>1. /\ ~WritesBefore(p) /\ ~Forced(p)' /\ ComesTo(Busy, record)
      /\ \A q \in Busy : Persisting(q) /\ ~Forced(q) => ComesTo(Before(q), SnapshotOf(q))
  BY DEF SnapshotsFollow, Forced
<1>2. \A r \in Busy : Before(r) \subseteq Busy
  BY DEF Before
<1>3. /\ ~past.unwritten /\ Persisting(p) /\ ~Forced(p) /\ (\A q \in Busy : ~Forced(q))
           => SnapshotOf(p) = record
      /\ Forced(p) /\ p \notin Busy => SnapshotOf(p) = record
  BY <1>1, <1>2 DEF ComesTo
<1>4. ComesTo(Busy, record)'
  <2>1. /\ ~past'.unwritten /\ (\A q \in Busy' : ~Forced(q)') => disk' = record
        /\ \A q \in Busy' :
             Forced(q)' /\ (\A r \in Busy' : Forced(r)' => r = q \/ <<r, q>> \in ahead')
               => SnapshotOf(q)' = record
    BY <1>1, <1>3, PersistComesTo
  <2> QED BY <2>1 DEF ComesTo
<1>5. ASSUME NEW x \in Busy', Persisting(x)', ~Forced(x)'
      PROVE  ComesTo(Before(x), SnapshotOf(x))'
  <2>1. x # p /\ x \in Busy /\ Persisting(x) /\ ~Forced(x) /\ SnapshotOf(x)' = SnapshotOf(x)
    BY <1>5 DEF Unmoved, Forced
  <2>2. ComesTo(Before(x), SnapshotOf(x))
    BY <1>1, <2>1
  <2> DEFINE S == Before(x)
             T == {q \in Busy' : <<q, x>> \in ahead'}
             v == SnapshotOf(x)
  <2>3. S \subseteq Busy /\ T \subseteq Busy /\ S \ {p} = T \ {p}
    BY <2>1 DEF Before
  <2>4. p \in S \/ x \in Before(p)
    BY <2>1 DEF Before, LineIsOrdered
  <2>5. x \in Before(p) /\ Persisting(p) => SnapshotOf(p) = v
    BY <1>1, <2>1 DEF WritesBefore
  <2>6. Forced(p) /\ p \notin S => SnapshotOf(p) = v
    BY <2>4, <2>5 DEF Forced
  <2>7. ASSUME ~past.unwritten, Persisting(p), ~Forced(p), \A q \in S : ~Forced(q) PROVE SnapshotOf(p) = v
    <3>1. CASE x \in Before(p)
      BY <2>5, <2>7, <3>1
    <3>2. CASE p \in S
      <4>1. Before(p) \subseteq S
        BY <2>1, <3>2 DEF Before, LineIsOrdered
      <4>2. disk = SnapshotOf(p)
        BY <1>1, <2>7, <4>1 DEF ComesTo
      <4>3. disk = v
        BY <2>2, <2>7 DEF ComesTo
      <4> QED BY <4>2, <4>3
    <3> QED BY <2>4, <3>1, <3>2
  <2>8. ComesTo(S, v)
    BY <2>2
  <2> HIDE DEF S, T, v
  <2>9. /\ ~past'.unwritten /\ (\A q \in T : ~Forced(q)') => disk' = v
        /\ \A q \in T :
             Forced(q)' /\ (\A r \in T : Forced(r)' => r = q \/ <<r, q>> \in ahead')
               => SnapshotOf(q)' = v
    BY <1>1, <2>3, <2>6, <2>7, <2>8, PersistComesTo
  <2>10. Before(x)' = T /\ SnapshotOf(x)' = v
    BY <2>1 DEF Before, T, v
  <2> QED BY <2>9, <2>10 DEF ComesTo
<1> QED BY <1>4, <1>5

(* Nor does anybody change what the disk comes to who moves, or leaves,    *)
(* with nothing to persist.                                                *)
LEMMA OthersFollow ==
  ASSUME LineIsOrdered, SnapshotsFollow, NEW P,
         \A p \in P : ~Persisting(p) /\ ~Persisting(p)',
         Busy' \subseteq Busy, Busy \ P \subseteq Busy',
         \A r \in Busy \ P : Unmoved(r),
         \A q, r \in Busy \ P : <<q, r>> \in ahead' <=> <<q, r>> \in ahead,
         disk' = disk, record' = record, past.overtaken => past'.overtaken,
         past'.unwritten <=> past.unwritten
  PROVE  SnapshotsFollow'
<1> SUFFICES ASSUME ~past'.overtaken
             PROVE  /\ ComesTo(Busy, record)'
                    /\ \A x \in Busy' : Persisting(x)' /\ ~Forced(x)'
                                          => ComesTo(Before(x), SnapshotOf(x))'
  BY DEF SnapshotsFollow
<1>1. /\ ComesTo(Busy, record)
      /\ \A q \in Busy : Persisting(q) /\ ~Forced(q) => ComesTo(Before(q), SnapshotOf(q))
  BY DEF SnapshotsFollow
<1>2. /\ \A r \in Busy \ P : /\ Forced(r)' <=> Forced(r)
                             /\ Persisting(r)' <=> Persisting(r)
                             /\ SnapshotOf(r)' = SnapshotOf(r)
      /\ \A p \in P : ~Forced(p) /\ ~Forced(p)'
  BY DEF Unmoved, Forced
<1>3. ASSUME NEW S, NEW T, NEW v, S \subseteq Busy, T \subseteq Busy, S \ P = T \ P, ComesTo(S, v)
      PROVE  /\ ~past'.unwritten /\ (\A q \in T : ~Forced(q)') => disk' = v
             /\ \A q \in T :
                  Forced(q)' /\ (\A r \in T : Forced(r)' => r = q \/ <<r, q>> \in ahead')
                    => SnapshotOf(q)' = v
  <2>1. ~past'.unwritten /\ (\A q \in T : ~Forced(q)') => disk' = v
    BY <1>2, <1>3 DEF ComesTo
  <2>2. ASSUME NEW q \in T, Forced(q)',
               \A r \in T : Forced(r)' => r = q \/ <<r, q>> \in ahead'
        PROVE  SnapshotOf(q)' = v
    <3>1. /\ q \in S \ P /\ Forced(q) /\ SnapshotOf(q)' = SnapshotOf(q)
          /\ \A r \in S : Forced(r) => r = q \/ <<r, q>> \in ahead
      BY <1>2, <1>3, <2>2
    <3> QED BY <1>3, <3>1 DEF ComesTo
  <2> QED BY <2>1, <2>2
<1>4. ComesTo(Busy, record)'
  <2>1. /\ ~past'.unwritten /\ (\A q \in Busy' : ~Forced(q)') => disk' = record
        /\ \A q \in Busy' :
             Forced(q)' /\ (\A r \in Busy' : Forced(r)' => r = q \/ <<r, q>> \in ahead')
               => SnapshotOf(q)' = record
    BY <1>1, <1>3
  <2> QED BY <2>1 DEF ComesTo
<1>5. ASSUME NEW x \in Busy', Persisting(x)', ~Forced(x)'
      PROVE  ComesTo(Before(x), SnapshotOf(x))'
  <2>1. x \in Busy \ P /\ Persisting(x) /\ ~Forced(x) /\ SnapshotOf(x)' = SnapshotOf(x)
    BY <1>2, <1>5
  <2> DEFINE T == {q \in Busy' : <<q, x>> \in ahead'}
  <2>2. Before(x) \subseteq Busy /\ T \subseteq Busy /\ Before(x) \ P = T \ P
    BY <2>1 DEF Before
  <2>3. ComesTo(Before(x), SnapshotOf(x))
    BY <1>1, <2>1
  <2>4. Before(x)' = T
    BY DEF Before
  <2> HIDE DEF T
  <2>5. /\ ~past'.unwritten /\ (\A q \in T : ~Forced(q)') => disk' = SnapshotOf(x)
        /\ \A q \in T :
             Forced(q)' /\ (\A r \in T : Forced(r)' => r = q \/ <<r, q>> \in ahead')
               => SnapshotOf(q)' = SnapshotOf(x)
    BY <1>3, <2>2, <2>3
  <2> QED BY <2>1, <2>4, <2>5 DEF ComesTo
<1> QED BY <1>4, <1>5

-----------------------------------------------------------------------------
(* The heartbeat.                                                          *)
LEMMA JoinsBeat ==
  ASSUME LineIsOrdered, BeatsFollow, NEW p, Joins(p),
         BeatOf(p)' = "arm" => AgentWorks',
         BeatOf(p)' = "none" /\ AgentWorks => AgentWorks'
  PROVE  BeatsFollow'
<1> SUFFICES ASSUME ~past'.overtaken
             PROVE  /\ (\A q \in Busy' : BeatOf(q)' = "none") => (armed' => AgentWorks')
                    /\ \A q \in Busy' : BeatOf(q)' = "arm" /\ LastBeat(q)' => AgentWorks'
  BY DEF BeatsFollow
<1>1. /\ p \notin Busy /\ Busy' = Busy \cup {p} /\ armed' = armed
      /\ \A q, r : <<q, r>> \in ahead' <=> <<q, r>> \in ahead \/ (r = p /\ q \in Busy)
      /\ \A q, r : <<q, r>> \in ahead => q \in Busy /\ r \in Busy
      /\ \A r \in Busy : BeatOf(r)' = BeatOf(r)
  BY DEF Joins, LineIsOrdered, Unmoved
<1>2. /\ (\A q \in Busy : BeatOf(q) = "none") => (armed => AgentWorks)
      /\ \A q \in Busy : BeatOf(q) = "arm" /\ LastBeat(q) => AgentWorks
  BY DEF BeatsFollow, Joins
<1>3. (\A q \in Busy' : BeatOf(q)' = "none") => (armed' => AgentWorks')
  BY <1>1, <1>2
<1>4. ASSUME NEW q \in Busy', BeatOf(q)' = "arm", LastBeat(q)' PROVE AgentWorks'
  <2>1. CASE q = p
    BY <1>4, <2>1
  <2>2. CASE q # p
    <3>1. q \in Busy /\ BeatOf(q) = "arm"
      BY <1>1, <1>4, <2>2
    <3>2. BeatOf(p)' = "none"
      BY <1>1, <1>4, <2>2 DEF LastBeat
    <3>3. LastBeat(q)
      BY <1>1, <1>4, <2>2, <3>1 DEF LastBeat
    <3> QED BY <1>2, <3>1, <3>2, <3>3
  <2> QED BY <2>1, <2>2
<1> QED BY <1>3, <1>4

LEMMA LeavesBeat ==
  ASSUME LineIsOrdered, BeatsFollow, NEW p, Leaves(p),
         armed' = (CASE BeatOf(p) = "arm" -> TRUE [] BeatOf(p) = "silence" -> FALSE
                     [] OTHER -> armed),
         BeatOf(p) \in {"none", "arm", "silence"},
         past.overtaken \/ BeatsBefore(p) => past'.overtaken, AgentWorks => AgentWorks'
  PROVE  BeatsFollow'
<1> SUFFICES ASSUME ~past'.overtaken
             PROVE  /\ (\A q \in Busy' : BeatOf(q)' = "none") => (armed' => AgentWorks')
                    /\ \A q \in Busy' : BeatOf(q)' = "arm" /\ LastBeat(q)' => AgentWorks'
  BY DEF BeatsFollow
<1>1. /\ p \in Busy /\ Busy' = Busy \ {p}
      /\ \A q, r : <<q, r>> \in ahead' <=> <<q, r>> \in ahead /\ q # p /\ r # p
      /\ \A r \in Busy \ {p} : BeatOf(r)' = BeatOf(r)
  BY DEF Leaves, LeavesLine, Unmoved
<1>2. /\ (\A q \in Busy : BeatOf(q) = "none") => (armed => AgentWorks)
      /\ \A q \in Busy : BeatOf(q) = "arm" /\ LastBeat(q) => AgentWorks
  BY DEF BeatsFollow
<1>3. \A q \in Busy : /\ BeatOf(p) # "none" /\ BeatOf(q) # "none" /\ <<q, p>> \in ahead
                           => BeatOf(q) = BeatOf(p)
                      /\ q = p \/ <<q, p>> \in ahead \/ <<p, q>> \in ahead
  BY <1>1 DEF BeatsBefore, Before, LineIsOrdered
<1>4. ASSUME \A q \in Busy' : BeatOf(q)' = "none", armed' PROVE AgentWorks'
  <2>1. \A q \in Busy : q # p => BeatOf(q) = "none"
    BY <1>1, <1>4
  <2>2. CASE BeatOf(p) = "none"
    BY <1>2, <1>4, <2>1, <2>2
  <2>3. CASE BeatOf(p) = "arm"
    BY <1>1, <1>2, <2>1, <2>3 DEF LastBeat
  <2>4. CASE BeatOf(p) = "silence"
    BY <1>4, <2>4
  <2> QED BY <2>2, <2>3, <2>4
<1>5. ASSUME NEW q \in Busy', BeatOf(q)' = "arm", LastBeat(q)' PROVE AgentWorks'
  <2>1. q \in Busy /\ q # p /\ BeatOf(q) = "arm"
    BY <1>1, <1>5
  <2>2. \A r \in Busy : r # p /\ BeatOf(r) # "none" => r = q \/ <<r, q>> \in ahead
    BY <1>1, <1>5, <2>1 DEF LastBeat
  <2>3. CASE BeatOf(p) = "none" \/ <<p, q>> \in ahead
    BY <1>2, <2>1, <2>2, <2>3 DEF LastBeat
  <2>4. CASE BeatOf(p) # "none" /\ <<q, p>> \in ahead
    <3>1. BeatOf(p) = "arm"
      BY <1>3, <2>1, <2>4
    <3>2. LastBeat(p)
      BY <1>1, <2>1, <2>2, <2>4 DEF LastBeat, LineIsOrdered
    <3> QED BY <1>1, <1>2, <3>1, <3>2
  <2> QED BY <1>3, <2>1, <2>3, <2>4
<1> QED BY <1>4, <1>5

LEMMA BeatsStay ==
  ASSUME BeatsFollow, Stays, \A r \in Busy : BeatOf(r)' = BeatOf(r), armed' = armed,
         past.overtaken => past'.overtaken, AgentWorks => AgentWorks'
  PROVE  BeatsFollow'
BY DEF BeatsFollow, Stays, LastBeat

-----------------------------------------------------------------------------
(* What a step of the session has written down, and how it moves the       *)
(* heartbeat.                                                              *)
SessionSteps ==
  \/ HookTurnAccepted \/ HookTurnEnded
  \/ \E id \in TurnIds : Prompt(id) \/ GraceExpired(id)
  \/ \E status \in Statuses, tag \in MaybeId : Report(status, tag)

LEMMA RecordIsForced ==
  ASSUME SessionSteps PROVE record' = record \/ out'.persist = "force"
<1>1. CASE HookTurnAccepted
  BY <1>1 DEF HookTurnAccepted, HookBegins, HookBegunAlready, Nothing
<1>2. CASE HookTurnEnded
  BY <1>2 DEF HookTurnEnded, StopConcludes, StopOpensGrace, StopAgain, StopBetweenTurns, Nothing
<1>3. ASSUME NEW id \in TurnIds, Prompt(id) PROVE record' = record \/ out'.persist = "force"
  BY <1>3 DEF Prompt, PromptRetry, PromptReinject, PromptDropped, PromptOpens, Nothing
<1>4. ASSUME NEW id \in TurnIds, GraceExpired(id) PROVE record' = record \/ out'.persist = "force"
  BY <1>4 DEF GraceExpired, GraceNudges, GraceResolves, GraceMoot, Nothing
<1>5. ASSUME NEW status \in Statuses, NEW tag \in MaybeId, Report(status, tag)
      PROVE  record' = record \/ out'.persist = "force"
  BY <1>5 DEF Report, ReportTerminal, ReportBegins, ReportRelayed, Nothing
<1> QED BY <1>1, <1>2, <1>3, <1>4, <1>5 DEF SessionSteps

\* The turn in flight is one the agent has not stopped.
Open == InFlight /\ ~turn.ended

\* Nothing but a Stop ends the work on an open turn.
LEMMA OnlyAStopEnds ==
  ASSUME TypeOK, Open,
         \/ HookTurnAccepted
         \/ \E id \in TurnIds : Prompt(id) \/ GraceExpired(id) \/ Injected(id)
         \/ \E status \in Statuses, tag \in MaybeId : Report(status, tag)
         \/ UNCHANGED turn
  PROVE  Open'
<1> USE DEF TypeOK, Turn, Open, InFlight
<1>1. CASE HookTurnAccepted
  BY <1>1 DEF HookTurnAccepted, HookBegins, HookBegunAlready
<1>2. ASSUME NEW id \in TurnIds, Prompt(id) PROVE Open'
  <2>1. turn'.id = id /\ id # 0
    BY <1>2, PromptTakesTheTurn, TurnIdsAssumption
  <2>2. ~turn'.ended
    BY <1>2, PromptTakesTheTurn
  <2> QED BY <2>1, <2>2
<1>3. ASSUME NEW id \in TurnIds, GraceExpired(id) PROVE Open'
  <2>1. turn' = turn
    BY <1>3 DEF GraceExpired, GraceNudges, GraceResolves, GraceMoot, StillUnreported
  <2> QED BY <2>1
<1>4. ASSUME NEW id \in TurnIds, Injected(id) PROVE Open'
  BY <1>4 DEF Injected
<1>5. ASSUME NEW status \in Statuses, NEW tag \in MaybeId, Report(status, tag) PROVE Open'
  <2>1. CASE ReportTerminal(status, tag)
    <3>1. turn' = [turn EXCEPT !.terminal = TRUE, !.accepted = TRUE]
      BY <2>1 DEF ReportTerminal
    <3> QED BY <3>1
  <2>2. CASE ReportBegins(status, tag)
    BY <2>2 DEF ReportBegins
  <2>3. CASE ReportRelayed(status, tag)
    BY <2>3 DEF ReportRelayed
  <2> QED BY <1>5, <2>1, <2>2, <2>3 DEF Report
<1> QED BY <1>1, <1>2, <1>3, <1>4, <1>5

\* The heartbeat is armed for a turn that was not accepted until then, and
\* every Stop of a turn silences it.
LEMMA BeatsAreForTheTurn ==
  /\ \A id \in TurnIds : GraceExpired(id) => out'.beat = "none"
  /\ \A status \in Statuses, tag \in MaybeId :
       Report(status, tag) => \/ out'.beat = "none"
                              \/ out'.beat = "arm" /\ InFlight /\ ~turn.accepted
  /\ HookTurnAccepted => \/ out'.beat = "none"
                         \/ out'.beat = "arm" /\ InFlight /\ ~turn.accepted
  /\ HookTurnEnded => \/ out'.beat = "silence"
                      \/ out'.beat = "none" /\ ~InFlight /\ turn' = turn
<1>1. ASSUME NEW id \in TurnIds, GraceExpired(id) PROVE out'.beat = "none"
  <2>1. CASE GraceNudges(id)
    BY <2>1 DEF GraceNudges, Nothing
  <2>2. CASE GraceResolves(id)
    BY <2>2 DEF GraceResolves, Nothing
  <2>3. CASE GraceMoot(id)
    BY <2>3 DEF GraceMoot, Nothing
  <2> QED BY <1>1, <2>1, <2>2, <2>3 DEF GraceExpired
<1>2. ASSUME NEW status \in Statuses, NEW tag \in MaybeId, Report(status, tag)
      PROVE  \/ out'.beat = "none"
             \/ out'.beat = "arm" /\ InFlight /\ ~turn.accepted
  <2>1. CASE ReportTerminal(status, tag)
    <3>1. Matches(tag) /\ out'.beat = IF turn.accepted THEN "none" ELSE "arm"
      BY <2>1 DEF ReportTerminal, Nothing
    <3> QED BY <3>1 DEF Matches
  <2>2. CASE ReportBegins(status, tag)
    BY <2>2 DEF ReportBegins, Nothing, Matches
  <2>3. CASE ReportRelayed(status, tag)
    BY <2>3 DEF ReportRelayed, Nothing
  <2> QED BY <1>2, <2>1, <2>2, <2>3 DEF Report
<1>3. ASSUME HookTurnAccepted
      PROVE  \/ out'.beat = "none"
             \/ out'.beat = "arm" /\ InFlight /\ ~turn.accepted
  BY <1>3 DEF HookTurnAccepted, HookBegins, HookBegunAlready, Nothing
<1>4. ASSUME HookTurnEnded
      PROVE  out'.beat = "silence" \/ (out'.beat = "none" /\ ~InFlight /\ turn' = turn)
  <2>1. CASE StopConcludes
    BY <2>1 DEF StopConcludes, Nothing
  <2>2. CASE StopOpensGrace
    BY <2>2 DEF StopOpensGrace, Nothing
  <2>3. CASE StopAgain
    BY <2>3 DEF StopAgain, Nothing
  <2>4. CASE StopBetweenTurns
    BY <2>4 DEF StopBetweenTurns, Nothing
  <2> QED BY <1>4, <2>1, <2>2, <2>3, <2>4 DEF HookTurnEnded
<1> QED BY <1>1, <1>2, <1>3, <1>4

-----------------------------------------------------------------------------
(* Who joins the line, and who leaves it.                                  *)
LEMMA TaskJoins ==
  ASSUME ServerInv, TypeOK', NEW t \in Tasks, NEW id \in MaybeId, TakesUp(t, id),
         ahead' = ahead \cup {<<q, t>> : q \in Busy},
         past'.overtaken <=> past.overtaken, past'.unwritten <=> past.unwritten,
         UNCHANGED <<control, disk, armed>>
  PROVE  Joins(t) /\ BeatOf(t)' = out'.beat
<1>1. /\ t # Serving /\ Serving \notin Tasks /\ tasks \in [Tasks -> Work]
  BY ServerBoundsAssumption DEF ServerInv, TimersAreAccountedFor, ServerTypeOK, Serving
<1>2. tasks[t].pc = "free" /\ tasks' = [tasks EXCEPT ![t] = WorkOf(id)]
  BY DEF TakesUp
<1>3. /\ tasks'[t] = WorkOf(id) /\ \A u \in Tasks : u # t => tasks'[u] = tasks[u]
  BY <1>1, <1>2
<1>4. /\ tasks'[t].pc = "persist" /\ tasks'[t].mode = out'.persist
      /\ tasks'[t].snapshot = record' /\ tasks'[t].beat = out'.beat
  BY <1>3 DEF WorkOf
<1>5. t \notin Busy /\ Busy' = Busy \cup {t}
  BY <1>1, <1>2, <1>3, <1>4 DEF Busy
<1>6. ASSUME NEW r \in Busy PROVE Unmoved(r)
  <2>1. r = Serving \/ (r \in Tasks /\ r # t /\ tasks'[r] = tasks[r])
    BY <1>3, <1>5 DEF Busy
  <2> QED BY <1>1, <2>1 DEF Unmoved, Persisting, ModeOf, SnapshotOf, BeatOf
<1>7. /\ ModeOf(t)' = out'.persist /\ SnapshotOf(t)' = record' /\ BeatOf(t)' = out'.beat
      /\ (Persisting(t)' <=> out'.persist # "none")
  BY <1>1, <1>4 DEF ModeOf, SnapshotOf, BeatOf, Persisting
<1> QED BY <1>5, <1>6, <1>7 DEF Joins

LEMMA ControlJoins ==
  ASSUME ServerInv, LineIsOrdered, NEW id \in TurnIds, ReadPrompt(id)
  PROVE  Joins(Serving) /\ BeatOf(Serving)' = "none"
<1>1. Serving \notin Tasks
  BY ServerBoundsAssumption DEF Serving
<1>2. /\ control.pc = "idle" /\ tasks' = tasks /\ disk' = disk /\ armed' = armed
      /\ control' = [pc |-> IF out'.inject THEN "injecting" ELSE "persist",
                     turn |-> id, mode |-> out'.persist, snapshot |-> record']
      /\ ahead' = ahead \cup {<<q, Serving>> : q \in Busy}
      /\ past' = [past EXCEPT !.strayed = @ \/ FALSE]
  BY DEF ReadPrompt, GetsInLine
<1>3. (past'.overtaken <=> past.overtaken) /\ (past'.unwritten <=> past.unwritten)
  BY <1>2 DEF LineIsOrdered, PastState
<1>4. control'.pc # "idle" /\ control'.mode = out'.persist /\ control'.snapshot = record'
  BY <1>2
<1>5. Serving \notin Busy /\ Busy' = Busy \cup {Serving}
  BY <1>1, <1>2, <1>4 DEF Busy
<1>6. \A r \in Busy : Unmoved(r)
  BY <1>2, <1>5 DEF Unmoved, Persisting, ModeOf, SnapshotOf, BeatOf
<1>7. /\ ModeOf(Serving)' = out'.persist /\ SnapshotOf(Serving)' = record'
      /\ BeatOf(Serving)' = "none" /\ (Persisting(Serving)' <=> out'.persist # "none")
  BY <1>4 DEF ModeOf, SnapshotOf, BeatOf, Persisting
<1> QED BY <1>2, <1>3, <1>5, <1>6, <1>7 DEF Joins

\* The control task moves on, with its outcome still to be executed.
LEMMA ControlStays ==
  ASSUME ServerInv, InjectLands \/ InjectFails \/ Confirm
  PROVE  /\ Stays /\ \A r \in Busy : Unmoved(r)
         /\ UNCHANGED <<disk, record, armed, past, running>>
<1>1. control \in ControlState
  BY DEF ServerInv, TimersAreAccountedFor, ServerTypeOK
<1>2. /\ UNCHANGED <<tasks, disk, armed, record, running, ahead, past>>
      /\ control.pc # "idle" /\ control'.pc # "idle"
      /\ control'.mode = control.mode /\ control'.snapshot = control.snapshot
  <2>1. CASE InjectLands
    BY <1>1, <2>1 DEF InjectLands, StepsOnly, history, ControlState
  <2>2. CASE InjectFails
    BY <1>1, <2>2 DEF InjectFails, StepsOnly, history, harness, ControlState
  <2>3. CASE Confirm
    BY <1>1, <2>3 DEF Confirm, Injected, history, harness, ControlState
  <2> QED BY <2>1, <2>2, <2>3
<1>3. Stays
  BY <1>2 DEF Stays, Busy
<1>4. \A r \in Busy : Unmoved(r)
  BY <1>2 DEF Unmoved, Persisting, ModeOf, SnapshotOf, BeatOf
<1> QED BY <1>2, <1>3, <1>4

-----------------------------------------------------------------------------
(* The steps.                                                              *)
LineFollows == LineIsOrdered /\ SnapshotsFollow /\ BeatsFollow

\* Any step that joins the line.
LEMMA JoiningFollows ==
  ASSUME LineFollows, NEW p, Joins(p), past' \in PastState,
         record' = record \/ out'.persist = "force",
         BeatOf(p)' = "arm" => AgentWorks',
         BeatOf(p)' = "none" /\ AgentWorks => AgentWorks'
  PROVE  LineFollows'
<1> USE DEF LineFollows
<1>1. LineIsOrdered' /\ \A q : <<p, q>> \notin ahead'
  BY LineGrows
<1>2. SnapshotsFollow'
  BY <1>1, JoinsFollow
<1>3. BeatsFollow'
  BY JoinsBeat
<1> QED BY <1>1, <1>2, <1>3

LEMMA ControlFollows ==
  ASSUME ServerInv, EffectsInv,
         \/ \E id \in TurnIds : ReadPrompt(id)
         \/ InjectLands \/ InjectFails \/ Confirm \/ PersistPrompt
  PROVE  LineFollows'
<1>1. /\ TypeOK /\ control \in ControlState /\ LineFollows /\ LineIsOrdered
      /\ past \in PastState
  BY DEF ServerInv, TimersAreAccountedFor, ServerTypeOK, EffectsInv, LineFollows, LineIsOrdered
<1>2. ASSUME NEW id \in TurnIds, ReadPrompt(id) PROVE LineFollows'
  <2>1. Joins(Serving) /\ BeatOf(Serving)' = "none"
    BY <1>1, <1>2, ControlJoins
  <2>2. /\ Prompt(id) /\ running' = running /\ past' = [past EXCEPT !.strayed = @ \/ FALSE]
    BY <1>2 DEF ReadPrompt, GetsInLine, harness
  <2>3. past' = past
    BY <1>1, <2>2 DEF PastState
  <2>4. record' = record \/ out'.persist = "force"
    BY <2>2, RecordIsForced DEF SessionSteps
  <2>5. AgentWorks => AgentWorks'
    <3>1. Open => Open'
      BY <1>1, <2>2, OnlyAStopEnds
    <3> QED BY <2>2, <2>3, <3>1 DEF AgentWorks, Open
  <2> QED BY <1>1, <2>1, <2>3, <2>4, <2>5, JoiningFollows
<1>3. ASSUME InjectLands \/ InjectFails \/ Confirm PROVE LineFollows'
  <2>1. /\ Stays /\ (\A r \in Busy : Unmoved(r))
        /\ UNCHANGED <<disk, record, armed, past, running>>
    BY <1>3, ControlStays
  <2>2. LineIsOrdered'
    BY <1>1, <2>1, LineStays
  <2>3. SnapshotsFollow'
    <3> DEFINE P == {}
    <3>1. /\ \A p \in P : ~Persisting(p) /\ ~Persisting(p)'
          /\ Busy' \subseteq Busy /\ Busy \ P \subseteq Busy'
          /\ \A r \in Busy \ P : Unmoved(r)
          /\ \A q, r \in Busy \ P : <<q, r>> \in ahead' <=> <<q, r>> \in ahead
      BY <2>1 DEF Stays
    <3> HIDE DEF P
    <3> QED BY <1>1, <2>1, <3>1, OthersFollow DEF LineFollows
  <2>4. Open => Open'
    <3>1. UNCHANGED turn \/ \E id \in TurnIds : Injected(id)
      BY <1>3 DEF InjectLands, InjectFails, Confirm, StepsOnly, ServerInv, EffectsHaveTheirTurn
    <3> QED BY <1>1, <3>1, OnlyAStopEnds
  <2>5. AgentWorks => AgentWorks'
    BY <2>1, <2>4 DEF AgentWorks, Open
  <2>6. BeatsFollow'
    BY <1>1, <2>1, <2>5, BeatsStay DEF LineFollows, Unmoved
  <2> QED BY <2>2, <2>3, <2>6 DEF LineFollows
<1>4. CASE PersistPrompt
  <2>1. PICK fails \in BOOLEAN :
          /\ control.pc = "persist" /\ Persist(control.mode, control.snapshot, fails)
          /\ control' = AtRest /\ Passes(Serving, fails) /\ LeavesLine(Serving)
          /\ UNCHANGED <<turn, record, tasks, armed, running>>
    BY <1>4 DEF PersistPrompt, StepsOnly, harness
  <2>2. Serving \notin Tasks
    BY ServerBoundsAssumption DEF Serving
  <2>3. Serving \in Busy /\ Busy' = Busy \ {Serving}
    BY <2>1, <2>2 DEF Busy, AtRest
  <2>4. \A r \in Busy \ {Serving} : Unmoved(r)
    BY <2>1 DEF Unmoved, Persisting, ModeOf, SnapshotOf, BeatOf
  <2>5. Leaves(Serving)
    BY <2>1, <2>3, <2>4 DEF Leaves
  <2>6. /\ past' \in PastState /\ past'.strayed = past.strayed
        /\ past'.overtaken <=> past.overtaken \/ WritesBefore(Serving)
        /\ past'.unwritten <=> (IF ModeOf(Serving) = "force" THEN fails ELSE past.unwritten)
    BY <1>1, <2>1, PassesIsTyped
  <2>7. /\ LineIsOrdered'
        /\ \A q, r : <<q, r>> \in ahead' <=> <<q, r>> \in ahead /\ q # Serving /\ r # Serving
    BY <1>1, <2>5, <2>6, LineShrinks
  <2>8. /\ ModeOf(Serving) = control.mode /\ SnapshotOf(Serving) = control.snapshot
        /\ ModeOf(Serving) \in Modes /\ (Persisting(Serving) \/ ModeOf(Serving) = "none")
        /\ ~Persisting(Serving)' /\ BeatOf(Serving) = "none"
    BY <1>1, <2>1 DEF ModeOf, SnapshotOf, Persisting, BeatOf, ControlState, AtRest
  <2>9. SnapshotsFollow'
    BY <1>1, <2>1, <2>3, <2>4, <2>6, <2>7, <2>8, PersistFollows DEF LineFollows
  <2>10. AgentWorks => AgentWorks'
    BY <2>1, <2>6 DEF AgentWorks, InFlight
  <2>11. BeatsFollow'
    <3>1. past.overtaken \/ BeatsBefore(Serving) => past'.overtaken
      BY <2>6, <2>8 DEF BeatsBefore
    <3> QED BY <1>1, <2>1, <2>5, <2>8, <2>10, <3>1, LeavesBeat DEF LineFollows
  <2> QED BY <2>7, <2>9, <2>11 DEF LineFollows
<1> QED BY <1>2, <1>3, <1>4

LEMMA HarnessFollows ==
  ASSUME ServerInv, TypeOK', EffectsInv, NEW t \in Tasks,
         \/ HarnessBegins(t) \/ HarnessStops(t)
         \/ \E status \in Statuses, tag \in MaybeId : HarnessReports(t, status, tag)
         \/ \E id \in TurnIds : GraceFires(t, id)
  PROVE  LineFollows'
<1>1. /\ TypeOK /\ LineFollows /\ turn.id \in MaybeId /\ inbox \in Seq(TurnIds)
      /\ past \in PastState
      /\ ~past.strayed /\ InFlight /\ turn.ended => turn.accepted
  BY DEF ServerInv, TimersAreAccountedFor, ServerTypeOK, EffectsInv, LineFollows, LineIsOrdered,
         HooksAreTheTurns, TypeOK, Turn
\* What the four have in common.
<1>2. ASSUME NEW id \in MaybeId, TakesUp(t, id), NEW strays \in BOOLEAN, GetsInLine(t, strays),
             SessionSteps, UNCHANGED <<control, disk, armed>>,
             out'.beat = "arm" => AgentWorks', out'.beat = "none" /\ AgentWorks => AgentWorks'
      PROVE  LineFollows'
  <2>1. /\ ahead' = ahead \cup {<<q, t>> : q \in Busy}
        /\ past' = [past EXCEPT !.strayed = @ \/ strays]
    BY <1>2 DEF GetsInLine
  <2>2. /\ past' \in PastState /\ (past'.overtaken <=> past.overtaken)
        /\ past'.unwritten <=> past.unwritten
    BY <1>1, <1>2, <2>1 DEF PastState
  <2>3. Joins(t) /\ BeatOf(t)' = out'.beat
    BY <1>2, <2>1, <2>2, TaskJoins
  <2>4. record' = record \/ out'.persist = "force"
    BY <1>2, RecordIsForced
  <2> QED BY <1>1, <1>2, <2>2, <2>3, <2>4, JoiningFollows
<1>3. CASE HarnessBegins(t)
  <2>1. /\ running = 0 /\ inbox # <<>> /\ running' = Head(inbox) /\ HookTurnAccepted
        /\ Spawn(t, turn.id, Strays(Head(inbox))) /\ UNCHANGED <<control, disk, armed>>
    BY <1>3 DEF HarnessBegins
  <2>2. running' # 0
    BY <1>1, <2>1, TurnIdsAssumption
  <2>3. TakesUp(t, turn.id) /\ GetsInLine(t, Strays(Head(inbox))) /\ Strays(Head(inbox)) \in BOOLEAN
    BY <2>1 DEF Spawn, TakesUp, Strays, InFlight
  <2>4. past.strayed => past'.strayed
    BY <1>1, <2>3 DEF GetsInLine, PastState
  <2>5. Open => Open'
    BY <1>1, <2>1, OnlyAStopEnds
  <2>6. out'.beat = "arm" => AgentWorks'
    BY <1>1, <2>1, <2>2, <2>4, <2>5, BeatsAreForTheTurn DEF AgentWorks, Open
  <2>7. out'.beat = "none" /\ AgentWorks => AgentWorks'
    BY <2>2, <2>4, <2>5 DEF AgentWorks, Open
  <2> QED BY <1>1, <1>2, <2>1, <2>3, <2>6, <2>7 DEF SessionSteps
<1>4. CASE HarnessStops(t)
  <2>1. /\ running # 0 /\ running' = 0 /\ HookTurnEnded
        /\ Spawn(t, turn.id, Strays(running)) /\ UNCHANGED <<control, disk, armed>>
    BY <1>4 DEF HarnessStops
  <2>2. TakesUp(t, turn.id) /\ GetsInLine(t, Strays(running)) /\ Strays(running) \in BOOLEAN
    BY <2>1 DEF Spawn, TakesUp, Strays, InFlight
  <2>3. past.strayed => past'.strayed
    BY <1>1, <2>2 DEF GetsInLine, PastState
  <2>4. out'.beat = "silence" \/ (out'.beat = "none" /\ ~InFlight)
    BY <2>1, BeatsAreForTheTurn
  <2>5. /\ out'.beat = "arm" => AgentWorks'
        /\ out'.beat = "none" /\ AgentWorks => AgentWorks'
    BY <2>3, <2>4 DEF AgentWorks
  <2> QED BY <1>1, <1>2, <2>1, <2>2, <2>5 DEF SessionSteps
<1>5. ASSUME NEW status \in Statuses, NEW tag \in MaybeId, HarnessReports(t, status, tag)
      PROVE  LineFollows'
  <2>1. /\ running # 0 /\ running' = running /\ Report(status, tag)
        /\ Spawn(t, turn.id, FALSE) /\ UNCHANGED <<control, disk, armed>>
    BY <1>5 DEF HarnessReports, harness
  <2>2. TakesUp(t, turn.id) /\ GetsInLine(t, FALSE)
    BY <2>1 DEF Spawn, TakesUp
  <2>3. past.strayed => past'.strayed
    BY <1>1, <2>2 DEF GetsInLine, PastState
  <2>4. Open => Open'
    BY <1>1, <2>1, OnlyAStopEnds
  <2>5. out'.beat = "none" \/ (out'.beat = "arm" /\ InFlight /\ ~turn.accepted)
    BY <2>1, BeatsAreForTheTurn
  <2>6. out'.beat = "arm" => AgentWorks'
    BY <1>1, <2>1, <2>3, <2>4, <2>5 DEF AgentWorks, Open
  <2>7. out'.beat = "none" /\ AgentWorks => AgentWorks'
    BY <2>1, <2>3, <2>4 DEF AgentWorks, Open
  <2> QED BY <1>1, <1>2, <2>1, <2>2, <2>6, <2>7 DEF SessionSteps
<1>6. ASSUME NEW id \in TurnIds, GraceFires(t, id) PROVE LineFollows'
  <2>1. /\ running' = running /\ GraceExpired(id)
        /\ Spawn(t, id, FALSE) /\ UNCHANGED <<control, disk, armed>>
    BY <1>6 DEF GraceFires, harness
  <2>2. TakesUp(t, id) /\ GetsInLine(t, FALSE) /\ id \in MaybeId
    BY <2>1 DEF Spawn, TakesUp, MaybeId
  <2>3. past.strayed => past'.strayed
    BY <1>1, <2>2 DEF GetsInLine, PastState
  <2>4. Open => Open'
    BY <1>1, <2>1, OnlyAStopEnds
  <2>5. out'.beat = "none"
    BY <2>1, BeatsAreForTheTurn
  <2>6. AgentWorks => AgentWorks'
    BY <2>1, <2>3, <2>4 DEF AgentWorks, Open
  <2> QED BY <1>1, <1>2, <2>1, <2>2, <2>5, <2>6 DEF SessionSteps
<1> QED BY <1>3, <1>4, <1>5, <1>6

LEMMA TaskFollows ==
  ASSUME ServerInv, EffectsInv, NEW t \in Tasks, PersistTask(t) \/ FinishTask(t)
  PROVE  LineFollows'
<1>1. /\ TypeOK /\ tasks \in [Tasks -> Work] /\ LineFollows /\ LineIsOrdered
      /\ past \in PastState
  BY DEF ServerInv, TimersAreAccountedFor, ServerTypeOK, EffectsInv, LineFollows, LineIsOrdered
<1>2. t # Serving /\ Serving \notin Tasks
  BY ServerBoundsAssumption DEF Serving
<1>3. /\ ModeOf(t) = tasks[t].mode /\ SnapshotOf(t) = tasks[t].snapshot /\ BeatOf(t) = tasks[t].beat
      /\ ModeOf(t) \in Modes /\ BeatOf(t) \in {"none", "arm", "silence"}
      /\ tasks[t] \in Work
  BY <1>1, <1>2 DEF ModeOf, SnapshotOf, BeatOf, Work
<1>4. CASE PersistTask(t)
  <2>1. PICK fails \in BOOLEAN :
          /\ tasks[t].pc = "persist" /\ Persist(tasks[t].mode, tasks[t].snapshot, fails)
          /\ tasks' = [tasks EXCEPT ![t].pc = "finish"] /\ Passes(t, fails)
          /\ UNCHANGED <<turn, record, control, armed, running, ahead>>
    BY <1>4 DEF PersistTask, StepsOnly, harness
  <2>2. /\ tasks'[t] = [tasks[t] EXCEPT !.pc = "finish"]
        /\ \A u \in Tasks : u # t => tasks'[u] = tasks[u]
    BY <1>1, <2>1
  <2>3. tasks'[t].pc = "finish" /\ tasks'[t].beat = tasks[t].beat
    BY <1>3, <2>2 DEF Work
  <2>4. t \in Busy /\ Busy' = Busy
    BY <1>2, <2>1, <2>2, <2>3 DEF Busy
  <2>5. \A r \in Busy \ {t} : Unmoved(r)
    <3> SUFFICES ASSUME NEW r \in Busy \ {t} PROVE Unmoved(r)
      OBVIOUS
    <3>1. r = Serving \/ (r # Serving /\ tasks'[r] = tasks[r])
      BY <1>2, <2>2 DEF Busy
    <3> QED BY <2>1, <3>1 DEF Unmoved, Persisting, ModeOf, SnapshotOf, BeatOf
  <2>6. /\ Stays /\ \A r \in Busy : BeatOf(r)' = BeatOf(r)
    BY <1>2, <2>1, <2>3, <2>4, <2>5 DEF Stays, Unmoved, BeatOf
  <2>7. /\ past' \in PastState /\ past'.strayed = past.strayed
        /\ past'.overtaken <=> past.overtaken \/ WritesBefore(t)
        /\ past'.unwritten <=> (IF ModeOf(t) = "force" THEN fails ELSE past.unwritten)
    BY <1>1, <2>1, PassesIsTyped
  <2>8. LineIsOrdered'
    BY <1>1, <2>6, <2>7, LineStays
  <2>9. (Persisting(t) \/ ModeOf(t) = "none") /\ ~Persisting(t)'
    BY <1>2, <2>1, <2>3 DEF Persisting
  <2>10. SnapshotsFollow'
    BY <1>1, <1>3, <2>1, <2>4, <2>5, <2>7, <2>9, PersistFollows DEF LineFollows
  <2>11. BeatsFollow'
    BY <1>1, <2>1, <2>6, <2>7, BeatsStay DEF LineFollows, AgentWorks, InFlight
  <2> QED BY <2>8, <2>10, <2>11 DEF LineFollows
<1>5. CASE FinishTask(t)
  <2>1. /\ tasks[t].pc = "finish" /\ tasks' = [tasks EXCEPT ![t] = Free]
        /\ armed' = (CASE tasks[t].beat = "arm" -> TRUE [] tasks[t].beat = "silence" -> FALSE
                       [] OTHER -> armed)
        /\ past' = [past EXCEPT !.overtaken = @ \/ BeatsBefore(t)] /\ LeavesLine(t)
        /\ UNCHANGED <<turn, record, control, disk, running>>
    BY <1>5 DEF FinishTask, StepsOnly
  <2>2. /\ tasks'[t] = Free /\ \A u \in Tasks : u # t => tasks'[u] = tasks[u]
    BY <1>1, <2>1
  <2>3. t \in Busy /\ Busy' = Busy \ {t}
    BY <1>2, <2>1, <2>2 DEF Busy, Free
  <2>4. \A r \in Busy \ {t} : Unmoved(r)
    <3> SUFFICES ASSUME NEW r \in Busy \ {t} PROVE Unmoved(r)
      OBVIOUS
    <3>1. r = Serving \/ (r # Serving /\ tasks'[r] = tasks[r])
      BY <1>2, <2>2 DEF Busy
    <3> QED BY <2>1, <3>1 DEF Unmoved, Persisting, ModeOf, SnapshotOf, BeatOf
  <2>5. Leaves(t)
    BY <2>1, <2>3, <2>4 DEF Leaves
  <2>6. /\ past' \in PastState /\ past'.strayed = past.strayed
        /\ past'.overtaken <=> past.overtaken \/ BeatsBefore(t)
        /\ past'.unwritten <=> past.unwritten
    <3>1. BeatsBefore(t) \in BOOLEAN
      BY DEF BeatsBefore
    <3> QED BY <1>1, <2>1, <3>1 DEF PastState
  <2>7. /\ LineIsOrdered'
        /\ \A q, r : <<q, r>> \in ahead' <=> <<q, r>> \in ahead /\ q # t /\ r # t
    BY <1>1, <2>5, <2>6, LineShrinks
  <2>8. ~Persisting(t) /\ ~Persisting(t)'
    BY <1>2, <2>1, <2>2 DEF Persisting, Free
  <2>9. SnapshotsFollow'
    <3> DEFINE P == {t}
    <3>1. /\ \A p \in P : ~Persisting(p) /\ ~Persisting(p)'
          /\ Busy' \subseteq Busy /\ Busy \ P \subseteq Busy'
          /\ \A r \in Busy \ P : Unmoved(r)
          /\ \A q, r \in Busy \ P : <<q, r>> \in ahead' <=> <<q, r>> \in ahead
      BY <2>3, <2>4, <2>7, <2>8
    <3> HIDE DEF P
    <3> QED BY <1>1, <2>1, <2>6, <3>1, OthersFollow DEF LineFollows
  <2>10. BeatsFollow'
    <3>1. armed' = (CASE BeatOf(t) = "arm" -> TRUE [] BeatOf(t) = "silence" -> FALSE
                      [] OTHER -> armed)
      BY <1>3, <2>1
    <3>2. AgentWorks => AgentWorks'
      BY <2>1, <2>6 DEF AgentWorks, InFlight
    <3> QED BY <1>1, <1>3, <2>5, <2>6, <3>1, <3>2, LeavesBeat DEF LineFollows
  <2> QED BY <2>7, <2>9, <2>10 DEF LineFollows
<1> QED BY <1>4, <1>5

-----------------------------------------------------------------------------
(* Hooks.  A late resend opens its id a second time.                       *)
LEMMA PromptsAndHooks ==
  ASSUME ServerInv, ServerInv', HooksAreTheTurns, NEW id \in TurnIds, ReadPrompt(id),
         past' = past
  PROVE  HooksAreTheTurns'
<1>1. /\ TypeOK /\ id # 0 /\ opened \in [TurnIds -> Nat] /\ opened' \in [TurnIds -> Nat]
      /\ running \in MaybeId
  BY TurnIdsAssumption DEF ServerInv, TimersAreAccountedFor, ServerTypeOK, TypeOK
<1>2. /\ Prompt(id) /\ control'.turn = id /\ control'.pc # "idle"
      /\ UNCHANGED <<tasks, inbox, running>>
  BY DEF ReadPrompt, harness
<1>3. turn'.id = id /\ \A k \in TurnIds : opened[k] <= opened'[k]
  BY <1>1, <1>2, PromptTakesTheTurn
<1>4. Opened \subseteq Opened'
  BY <1>1, <1>3 DEF Opened
<1>5. /\ id \in Opened'
      /\ ~past'.strayed => /\ turn'.ended => turn'.accepted
                           /\ id = running /\ opened'[running] = 1 => turn'.accepted
  <2>1. CASE turn.id = id
    <3>1. /\ opened' = opened /\ turn'.ended = turn.ended /\ turn'.accepted = turn.accepted
      BY <1>1, <1>2, <2>1, PromptTakesTheTurn
    <3>2. InFlight
      BY <1>1, <2>1 DEF InFlight
    <3> QED BY <1>4, <2>1, <3>1, <3>2 DEF HooksAreTheTurns
  <2>2. CASE turn.id # id
    <3>1. opened'[id] = opened[id] + 1 /\ ~turn'.ended
      BY <1>1, <1>2, <2>2, PromptTakesTheTurn
    <3>2. opened[id] \in Nat /\ id \in Opened'
      BY <1>1, <3>1 DEF Opened
    <3>3. id = running /\ opened'[running] = 1 => id \notin Opened
      BY <1>1, <3>1, <3>2 DEF Opened
    <3>4. ~(id = running /\ opened'[running] = 1)
      BY <1>1, <3>3 DEF HooksAreTheTurns
    <3> QED BY <3>1, <3>2, <3>4
  <2> QED BY <2>1, <2>2
<1>6. inbox' \in Seq(Opened')
  BY <1>2, <1>4 DEF HooksAreTheTurns
<1>7. /\ running' # 0 => running' \in Opened'
      /\ \A t \in Tasks : tasks'[t].nudge => tasks'[t].turn \in Opened'
  BY <1>2, <1>4 DEF HooksAreTheTurns
<1> QED BY <1>1, <1>2, <1>3, <1>5, <1>6, <1>7 DEF HooksAreTheTurns, Opened

\* Every other step of the session: the turn it leaves in flight is the same.
LEMMA OthersAndHooks ==
  ASSUME TypeOK, HooksAreTheTurns, GoesOn, past.strayed => past'.strayed,
         ~past'.strayed /\ turn'.id # 0 =>
           /\ turn'.ended => turn'.accepted
           /\ running' # 0 /\ turn'.id = running' /\ opened[running'] = 1 => turn'.accepted,
         control'.pc # "idle" => control'.turn \in Opened,
         running' # 0 => running' \in Opened, inbox' \in Seq(Opened),
         \A t \in Tasks : tasks'[t].nudge => tasks'[t].turn \in Opened
  PROVE  HooksAreTheTurns'
<1>1. Opened' = Opened /\ opened' = opened /\ (turn'.id = turn.id \/ turn'.id = 0)
  BY DEF GoesOn, Opened
<1> QED BY <1>1 DEF HooksAreTheTurns, InFlight

LEMMA HooksStep ==
  ASSUME ServerInv, ServerInv', LineIsOrdered, HooksAreTheTurns, [ServerNext]_allVars
  PROVE  HooksAreTheTurns'
<1>1. /\ TypeOK /\ control \in ControlState /\ tasks \in [Tasks -> Work]
      /\ past \in PastState
      /\ opened \in [TurnIds -> Nat] /\ turn \in Turn
  BY DEF ServerInv, TimersAreAccountedFor, ServerTypeOK, LineIsOrdered, TypeOK
<1>2. ASSUME NEW id \in TurnIds, ReadPrompt(id) PROVE HooksAreTheTurns'
  <2>1. past' = past
    BY <1>1, <1>2 DEF ReadPrompt, GetsInLine, PastState
  <2> QED BY <1>2, <2>1, PromptsAndHooks
\* Where the session goes on as it was, and nothing new is handed over.
<1>3. ASSUME GoesOn, past.strayed => past'.strayed,
             turn'.id # 0 => (turn'.ended <=> turn.ended),
             UNCHANGED running,
             control'.pc # "idle" => control.pc # "idle" /\ control'.turn = control.turn,
             inbox' \in Seq(Opened),
             \A t \in Tasks : tasks'[t].nudge => tasks'[t].turn \in Opened
      PROVE  HooksAreTheTurns'
  <2>1. ~past'.strayed /\ turn'.id # 0 =>
           /\ turn'.ended => turn'.accepted
           /\ running' # 0 /\ turn'.id = running' /\ opened[running'] = 1 => turn'.accepted
    BY <1>3 DEF HooksAreTheTurns, GoesOn, InFlight
  <2>2. /\ control'.pc # "idle" => control'.turn \in Opened
        /\ running' # 0 => running' \in Opened
    BY <1>3 DEF HooksAreTheTurns
  <2> QED BY <1>1, <1>3, <2>1, <2>2, OthersAndHooks
<1>4. /\ inbox \in Seq(Opened)
      /\ \A k \in Opened : {inbox, Append(inbox, k)} \subseteq Seq(Opened)
      /\ \A t \in Tasks : tasks[t].nudge => tasks[t].turn \in Opened
  BY DEF HooksAreTheTurns
<1>5. CASE InjectLands
  <2>1. /\ UNCHANGED <<turn, opened, running, tasks, past>> /\ control.pc = "injecting"
        /\ control'.turn = control.turn /\ inbox' \in {inbox, Append(inbox, control.turn)}
    BY <1>1, <1>5 DEF InjectLands, StepsOnly, history, ControlState
  <2>2. control.turn \in Opened
    BY <2>1 DEF HooksAreTheTurns
  <2>3. inbox' \in Seq(Opened) /\ GoesOn
    BY <1>1, <1>4, <2>1, <2>2, SessionGoesOn
  <2> QED BY <1>3, <1>4, <2>1, <2>3
<1>6. CASE InjectFails
  <2>1. /\ UNCHANGED <<turn, opened, running, inbox, tasks, past>> /\ control.pc = "injecting"
        /\ control'.turn = control.turn
    BY <1>1, <1>6 DEF InjectFails, StepsOnly, history, harness, ControlState
  <2> QED BY <1>1, <1>3, <1>4, <2>1, SessionGoesOn
<1>7. CASE Confirm
  <2>1. /\ UNCHANGED <<running, inbox, tasks, past>> /\ control.pc = "confirming"
        /\ control'.turn = control.turn /\ Injected(control.turn) /\ control.turn \in TurnIds
    BY <1>1, <1>7 DEF Confirm, history, harness, ControlState, ServerInv, EffectsHaveTheirTurn
  <2>2. GoesOn /\ turn'.ended = turn.ended
    BY <1>1, <2>1, SessionGoesOn DEF Injected, Turn
  <2> QED BY <1>3, <1>4, <2>1, <2>2
<1>8. CASE PersistPrompt
  <2>1. /\ UNCHANGED <<turn, opened, running, inbox, tasks>> /\ control'.pc = "idle"
        /\ \E fails \in BOOLEAN : Passes(Serving, fails)
    BY <1>8 DEF PersistPrompt, StepsOnly, harness, AtRest
  <2>2. past.strayed => past'.strayed
    BY <1>1, <2>1, PassesIsTyped
  <2> QED BY <1>1, <1>3, <1>4, <2>1, <2>2, SessionGoesOn
<1>9. ASSUME NEW t \in Tasks, PersistTask(t) PROVE HooksAreTheTurns'
  <2>1. /\ UNCHANGED <<turn, opened, running, inbox, control>>
        /\ tasks' = [tasks EXCEPT ![t].pc = "finish"]
        /\ \E fails \in BOOLEAN : Passes(t, fails)
    BY <1>9 DEF PersistTask, StepsOnly, harness
  <2>2. \A u \in Tasks : tasks'[u].nudge = tasks[u].nudge /\ tasks'[u].turn = tasks[u].turn
    BY <1>1, <2>1 DEF Work
  <2>3. past.strayed => past'.strayed
    BY <1>1, <2>1, PassesIsTyped
  <2> QED BY <1>1, <1>3, <1>4, <2>1, <2>2, <2>3, SessionGoesOn
<1>10. ASSUME NEW t \in Tasks, FinishTask(t) PROVE HooksAreTheTurns'
  <2>1. /\ UNCHANGED <<turn, opened, running, control>> /\ tasks' = [tasks EXCEPT ![t] = Free]
        /\ inbox' \in IF tasks[t].nudge THEN {inbox, Append(inbox, tasks[t].turn)} ELSE {inbox}
        /\ past' = [past EXCEPT !.overtaken = @ \/ BeatsBefore(t)]
    BY <1>10 DEF FinishTask, StepsOnly
  <2>2. \A u \in Tasks : tasks'[u].nudge => tasks[u].nudge /\ tasks'[u].turn = tasks[u].turn
    BY <1>1, <2>1 DEF Free
  <2>3. past.strayed => past'.strayed
    BY <1>1, <2>1
  <2>4. inbox' \in Seq(Opened)
    BY <1>4, <2>1
  <2> QED BY <1>1, <1>3, <1>4, <2>1, <2>2, <2>3, <2>4, SessionGoesOn
\* A task takes up a step that nudges nobody, or nudges a turn that was opened.
<1>11. ASSUME NEW t \in Tasks, NEW id, TakesUp(t, id), out'.nudge > 0 => id \in Opened
       PROVE  \A u \in Tasks : tasks'[u].nudge => tasks'[u].turn \in Opened
  <2>1. /\ tasks'[t] = WorkOf(id) /\ \A u \in Tasks : u # t => tasks'[u] = tasks[u]
    BY <1>1, <1>11 DEF TakesUp
  <2>2. WorkOf(id).turn = id /\ WorkOf(id).nudge = (out'.nudge > 0)
    BY DEF WorkOf
  <2>3. tasks'[t].nudge => tasks'[t].turn \in Opened
    BY <1>11, <2>1, <2>2
  <2> QED BY <1>4, <2>1, <2>3
<1>12. ASSUME NEW t \in Tasks, HarnessBegins(t) PROVE HooksAreTheTurns'
  <2>1. /\ running' = Head(inbox) /\ inbox' = Tail(inbox) /\ inbox # <<>> /\ HookTurnAccepted
        /\ TakesUp(t, turn.id) /\ control' = control
        /\ past' = [past EXCEPT !.strayed = @ \/ Strays(Head(inbox))]
    BY <1>12 DEF HarnessBegins, Spawn, TakesUp, GetsInLine
  <2>2. running' \in Opened /\ inbox' \in Seq(Opened)
    BY <1>4, <2>1
  <2>3. GoesOn /\ out'.nudge = 0
    BY <1>1, <2>1, SessionGoesOn DEF HookTurnAccepted, HookBegins, HookBegunAlready, Nothing
  <2>4. (turn'.id # 0 => turn'.accepted) /\ (past.strayed => past'.strayed)
    BY <1>1, <2>1 DEF HookTurnAccepted, HookBegins, HookBegunAlready, InFlight, Turn, PastState
  <2>5. \A u \in Tasks : tasks'[u].nudge => tasks'[u].turn \in Opened
    BY <1>11, <2>1, <2>3
  <2> QED BY <1>1, <2>1, <2>2, <2>3, <2>4, <2>5, OthersAndHooks DEF HooksAreTheTurns
<1>13. ASSUME NEW t \in Tasks, HarnessStops(t) PROVE HooksAreTheTurns'
  <2>1. /\ running # 0 /\ running' = 0 /\ inbox' = inbox /\ HookTurnEnded
        /\ TakesUp(t, turn.id) /\ control' = control
        /\ past' = [past EXCEPT !.strayed = @ \/ Strays(running)]
    BY <1>13 DEF HarnessStops, Spawn, TakesUp, GetsInLine
  <2>2. GoesOn /\ out'.nudge = 0
    BY <1>1, <2>1, SessionGoesOn, StopAsksForATimer
  <2>3. \A u \in Tasks : tasks'[u].nudge => tasks'[u].turn \in Opened
    BY <1>11, <2>1, <2>2
  <2>4. (past.strayed => past'.strayed) /\ (Strays(running) => past'.strayed)
    BY <1>1, <2>1 DEF PastState
  <2>5. ASSUME ~past'.strayed, turn'.id # 0 PROVE turn'.accepted
    <3>1. turn.id = turn'.id /\ InFlight /\ (turn.accepted => turn'.accepted)
      BY <2>2, <2>5 DEF GoesOn, InFlight
    <3>2. running \in Opened /\ turn.id = running /\ ~(opened[running] > 1)
      BY <2>1, <2>4, <2>5, <3>1 DEF Strays, HooksAreTheTurns
    <3>3. opened[running] = 1
      <4>1. opened[running] \in Nat /\ opened[running] > 0
        BY <1>1, <3>2 DEF Opened
      <4> QED BY <3>2, <4>1
    <3> QED BY <2>4, <2>5, <3>1, <3>2, <3>3 DEF HooksAreTheTurns
  <2> QED BY <1>1, <1>4, <2>1, <2>2, <2>3, <2>4, <2>5, OthersAndHooks DEF HooksAreTheTurns
<1>14. ASSUME NEW t \in Tasks, NEW status \in Statuses, NEW tag \in MaybeId,
              HarnessReports(t, status, tag)
       PROVE  HooksAreTheTurns'
  <2>1. /\ UNCHANGED <<running, inbox, control>> /\ Report(status, tag) /\ TakesUp(t, turn.id)
        /\ past' = [past EXCEPT !.strayed = @ \/ FALSE]
    BY <1>14 DEF HarnessReports, Spawn, TakesUp, GetsInLine, harness
  <2>2. GoesOn
    BY <1>1, <2>1, SessionGoesOn
  <2>3. out'.nudge = 0 /\ (turn'.id # 0 => (turn'.ended <=> turn.ended))
    <3>1. CASE ReportTerminal(status, tag)
      <4>1. turn' = IF turn.ended THEN NoTurn ELSE [turn EXCEPT !.terminal = TRUE, !.accepted = TRUE]
        BY <3>1 DEF ReportTerminal
      <4>2. turn'.id # 0 => (turn'.ended <=> turn.ended)
        BY <1>1, <4>1 DEF Turn, NoTurn, FreshTurn
      <4> QED BY <3>1, <4>2 DEF ReportTerminal, Nothing
    <3>2. CASE ReportBegins(status, tag)
      BY <1>1, <3>2 DEF ReportBegins, Nothing, Turn
    <3>3. CASE ReportRelayed(status, tag)
      BY <3>3 DEF ReportRelayed, Nothing
    <3> QED BY <2>1, <3>1, <3>2, <3>3 DEF Report
  <2>4. \A u \in Tasks : tasks'[u].nudge => tasks'[u].turn \in Opened
    BY <1>11, <2>1, <2>3
  <2>5. past.strayed => past'.strayed
    BY <1>1, <2>1 DEF PastState
  <2> QED BY <1>3, <1>4, <2>1, <2>2, <2>3, <2>4, <2>5
<1>15. ASSUME NEW t \in Tasks, NEW id \in TurnIds, GraceFires(t, id) PROVE HooksAreTheTurns'
  <2>1. /\ UNCHANGED <<running, inbox, control>> /\ GraceExpired(id) /\ TakesUp(t, id)
        /\ past' = [past EXCEPT !.strayed = @ \/ FALSE]
    BY <1>15 DEF GraceFires, Spawn, TakesUp, GetsInLine, harness
  <2>2. GoesOn
    BY <1>1, <2>1, SessionGoesOn
  <2>3. /\ turn'.id # 0 => (turn'.ended <=> turn.ended)
        /\ out'.nudge > 0 => turn.id = id
    <3>1. CASE GraceNudges(id)
      BY <1>1, <3>1 DEF GraceNudges, StillUnreported, Turn
    <3>2. CASE GraceResolves(id)
      BY <3>2 DEF GraceResolves, Nothing, NoTurn, FreshTurn
    <3>3. CASE GraceMoot(id)
      BY <3>3 DEF GraceMoot, Nothing
    <3> QED BY <2>1, <3>1, <3>2, <3>3 DEF GraceExpired
  <2>4. out'.nudge > 0 => id \in Opened
    BY <2>3, TurnIdsAssumption DEF HooksAreTheTurns, InFlight
  <2>5. \A u \in Tasks : tasks'[u].nudge => tasks'[u].turn \in Opened
    BY <1>11, <2>1, <2>4
  <2>6. past.strayed => past'.strayed
    BY <1>1, <2>1 DEF PastState
  <2> QED BY <1>3, <1>4, <2>1, <2>2, <2>3, <2>5, <2>6
<1>16. CASE UNCHANGED allVars
  <2>1. /\ UNCHANGED <<turn, opened, past, running, inbox, control, tasks>>
    BY <1>16 DEF allVars, vars, async, harness, history
  <2> QED BY <1>1, <1>3, <1>4, <2>1, SessionGoesOn
<1> QED BY <1>2, <1>5, <1>6, <1>7, <1>8, <1>9, <1>10, <1>12, <1>13, <1>14, <1>15, <1>16
        DEF ServerNext

-----------------------------------------------------------------------------
LEMMA EffectsStep ==
  ASSUME ServerInv, ServerInv', EffectsInv, [ServerNext]_allVars
  PROVE  EffectsInv'
<1>1. HooksAreTheTurns'
  BY HooksStep DEF EffectsInv
<1>2. TypeOK'
  BY DEF ServerInv, TimersAreAccountedFor, ServerTypeOK
<1>3. CASE UNCHANGED allVars
  <2>1. UNCHANGED <<turn, record, control, tasks, disk, armed, running, ahead, past>>
    BY <1>3 DEF allVars, vars, async, harness, history
  <2>2. /\ Stays /\ (\A r \in Busy : Unmoved(r)) /\ (AgentWorks => AgentWorks')
        /\ past' \in PastState
    BY <2>1 DEF Stays, Busy, Unmoved, Persisting, ModeOf, SnapshotOf, BeatOf, AgentWorks, InFlight,
                EffectsInv, LineIsOrdered
  <2>3. LineIsOrdered'
    BY <2>2, LineStays DEF EffectsInv
  <2>4. SnapshotsFollow'
    <3> DEFINE P == {}
    <3>1. /\ \A p \in P : ~Persisting(p) /\ ~Persisting(p)'
          /\ Busy' \subseteq Busy /\ Busy \ P \subseteq Busy'
          /\ \A r \in Busy \ P : Unmoved(r)
          /\ \A q, r \in Busy \ P : <<q, r>> \in ahead' <=> <<q, r>> \in ahead
      BY <2>2 DEF Stays
    <3> HIDE DEF P
    <3> QED BY <2>1, <3>1, OthersFollow DEF EffectsInv
  <2>5. BeatsFollow'
    BY <2>1, <2>2, BeatsStay DEF EffectsInv, Unmoved
  <2> QED BY <1>1, <2>3, <2>4, <2>5 DEF EffectsInv
<1>4. CASE ServerNext
  <2>1. LineFollows'
    BY <1>2, <1>4, ControlFollows, HarnessFollows, TaskFollows DEF ServerNext
  <2> QED BY <1>1, <2>1 DEF EffectsInv, LineFollows
<1> QED BY <1>3, <1>4

(* Once all effects are executed, turn-state.json holds the session's      *)
(* record unless the last forced write failed, and the turn heartbeat      *)
(* beats only while the agent works unless a hook was taken for that of    *)
(* another turn: as long as no effect overtook another, which the code     *)
(* does not exclude.  For any number of tasks, and any order of the steps. *)
THEOREM EffectsLandInTheEnd == ServerSpec => []EffectsCatchUp
<1>1. ServerInit => EffectsInv
  <2> SUFFICES ASSUME ServerInit PROVE EffectsInv
    OBVIOUS
  <2>1. /\ control = AtRest /\ tasks = [t \in Tasks |-> Free] /\ disk = record /\ armed = FALSE
        /\ inbox = <<>> /\ running = 0 /\ ahead = {}
        /\ past = [overtaken |-> FALSE, strayed |-> FALSE, unwritten |-> FALSE] /\ turn.id = 0
    BY DEF ServerInit, Init, NoTurn, FreshTurn
  <2>2. Busy = {}
    BY <2>1 DEF Busy, AtRest, Free
  <2>3. LineIsOrdered /\ SnapshotsFollow /\ BeatsFollow
    BY <2>1, <2>2 DEF LineIsOrdered, SnapshotsFollow, ComesTo, BeatsFollow, PastState
  <2>4. HooksAreTheTurns
    BY <2>1 DEF HooksAreTheTurns, InFlight, AtRest, Free
  <2> QED BY <2>3, <2>4 DEF EffectsInv
<1>2. ServerInv /\ ServerInv' /\ EffectsInv /\ [ServerNext]_allVars => EffectsInv'
  BY EffectsStep
<1>3. EffectsInv => EffectsCatchUp
  <2> SUFFICES ASSUME EffectsInv, NothingPending, ~past.overtaken
               PROVE  (~past.unwritten => disk = record) /\ (running = 0 /\ ~past.strayed => ~armed)
    BY DEF EffectsCatchUp
  <2>1. Busy = {}
    BY DEF NothingPending, Busy
  <2> QED BY <2>1 DEF EffectsInv, SnapshotsFollow, ComesTo, BeatsFollow, AgentWorks
<1> QED BY <1>1, <1>2, <1>3, ServerSafe, PTL DEF ServerSpec
=============================================================================
