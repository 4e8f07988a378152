---------------------------- MODULE TurnSession ----------------------------
(***************************************************************************)
(* The guest server's turn-state machine: Session::step of                 *)
(* rust/katsuobushi-sandbox-guest/src/bin/server.rs.  One action per       *)
(* branch of the step: an event comes in, the session changes, and the     *)
(* Outcome says what the asynchronous layer has to do (GuestServer models  *)
(* that layer).  Timestamps are abstracted to whether they are set, report *)
(* texts are dropped.  The grace timers are the pending GraceExpired       *)
(* events the machine asked for.                                           *)
(*                                                                         *)
(* The environment is the most general one: any prompt, report or hook at  *)
(* any moment, resends of turns long gone included.                        *)
(***************************************************************************)
EXTENDS Naturals, Sequences

CONSTANTS
  TurnIds,          \* turn ids the host may allocate; 0 stands for None
  Statuses,         \* the report statuses in use
  MaxNudges,        \* KATSU_MAX_NUDGES, 5 unless overridden
  MaxReinjections,  \* MAX_REINJECTIONS, 2
  MaxOpens          \* bound of the model: how often a given id opens a turn

ASSUME TurnIdsAssumption == TurnIds \subseteq Nat \ {0}
ASSUME StatusesAssumption == Statuses \subseteq {"working", "info", "done", "blocked"}
ASSUME BudgetAssumption ==
  MaxNudges \in Nat /\ MaxReinjections \in Nat /\ MaxOpens \in Nat

VARIABLES
  turn,    \* the in-flight turn, id 0 between turns
  ready,   \* the SessionReady latch
  record,  \* the TurnState that is persisted to turn-state.json
  grace,   \* per id, the GraceExpired events still to come
  opened,  \* per id, how many turns it has opened (history)
  out      \* the Outcome of the last step

vars == <<turn, ready, record, grace, opened, out>>

-----------------------------------------------------------------------------
(* Types.                                                                  *)

MaybeId == TurnIds \cup {0}
Terminal == {"done", "blocked"}

Turn == [id : MaybeId, injected : BOOLEAN, accepted : BOOLEAN,
         terminal : BOOLEAN, ended : BOOLEAN,
         nudges : 0..MaxNudges, reinjections : 0..MaxReinjections]

FreshTurn(id) == [id |-> id, injected |-> FALSE, accepted |-> FALSE,
                  terminal |-> FALSE, ended |-> FALSE,
                  nudges |-> 0, reinjections |-> 0]

NoTurn == FreshTurn(0)

Phases == {"idle", "in-flight", "ended-ok"}

Record == [id : MaybeId, phase : Phases, accepted : BOOLEAN, ended : BOOLEAN]

Message ==
  [type : {"report"}, id : MaybeId, note : Statuses] \cup
  [type : {"accepted"}, id : TurnIds, note : {""}] \cup
  [type : {"completed"}, id : TurnIds, note : {"reported", "unreported"}] \cup
  [type : {"session-ready"}, id : {0}, note : {""}]

Relay(status, tag) == [type |-> "report", id |-> tag, note |-> status]
Accepted(id)       == [type |-> "accepted", id |-> id, note |-> ""]
Completed(id, how) == [type |-> "completed", id |-> id, note |-> how]
SessionIsReady     == [type |-> "session-ready", id |-> 0, note |-> ""]

Outcome == [inject : BOOLEAN, reinject : 0..MaxReinjections,
            msgs : Seq(Message), grace : {"none", "initial", "nudge"},
            nudge : 0..MaxNudges, persist : {"none", "throttled", "force"},
            beat : {"none", "arm", "silence"}]

Nothing == [inject |-> FALSE, reinject |-> 0, msgs |-> <<>>, grace |-> "none",
            nudge |-> 0, persist |-> "none", beat |-> "none"]

InFlight == turn.id # 0

-----------------------------------------------------------------------------
Init ==
  /\ turn = NoTurn
  /\ ready = FALSE
  /\ record = [id |-> 0, phase |-> "idle", accepted |-> FALSE, ended |-> FALSE]
  /\ grace = [i \in TurnIds |-> 0]
  /\ opened = [i \in TurnIds |-> 0]
  /\ out = Nothing

(***************************************************************************)
(* Prompt{turn_id}.  A resend of the current turn is delivered again when  *)
(* its injection never succeeded, or succeeded and nothing came of it;     *)
(* every other resend of it is dropped.  Any other id opens a new turn,    *)
(* whatever the current one was doing.                                     *)
(***************************************************************************)
Undelivered == ~turn.injected /\ ~turn.ended

\* Mutant: re-injections are not budgeted.
UnbegunUnbudgeted == turn.injected /\ ~turn.accepted /\ ~turn.ended

\* Mutant: only the budget is looked at.
UnbegunByBudget == turn.injected /\ turn.reinjections < MaxReinjections

Unbegun ==
  /\ turn.injected /\ ~turn.accepted /\ ~turn.ended
  /\ turn.reinjections < MaxReinjections

PromptRetry(id) ==
  /\ turn.id = id /\ Undelivered
  /\ out' = [Nothing EXCEPT !.inject = TRUE, !.persist = "throttled"]
  /\ UNCHANGED <<turn, ready, record, grace, opened>>

PromptReinject(id) ==
  /\ turn.id = id /\ Unbegun
  /\ turn' = [turn EXCEPT !.reinjections = @ + 1]
  /\ out' = [Nothing EXCEPT !.inject = TRUE, !.persist = "throttled",
                            !.reinject = turn.reinjections + 1]
  /\ UNCHANGED <<ready, record, grace, opened>>

PromptDropped(id) ==
  /\ turn.id = id /\ ~Undelivered /\ ~Unbegun
  /\ out' = Nothing
  /\ UNCHANGED <<turn, ready, record, grace, opened>>

PromptOpens(id) ==
  /\ turn.id # id
  /\ opened[id] < MaxOpens
  /\ opened' = [opened EXCEPT ![id] = @ + 1]
  /\ turn' = FreshTurn(id)
  /\ record' = [id |-> id, phase |-> "in-flight", accepted |-> FALSE, ended |-> FALSE]
  /\ out' = [Nothing EXCEPT !.inject = TRUE, !.persist = "force"]
  /\ UNCHANGED <<ready, grace>>

Prompt(id) ==
  PromptRetry(id) \/ PromptReinject(id) \/ PromptDropped(id) \/ PromptOpens(id)

\* The control task confirms that inject_prompt succeeded for id.
Injected(id) ==
  /\ turn' = IF turn.id = id THEN [turn EXCEPT !.injected = TRUE] ELSE turn
  /\ out' = Nothing
  /\ UNCHANGED <<ready, record, grace, opened>>

(***************************************************************************)
(* `report <status> <text> [turn_id]`.  A report without an id (tag 0) is  *)
(* taken to be about the current turn.                                     *)
(***************************************************************************)
Matches(tag) == InFlight /\ tag \in {0, turn.id}

\* Mutant: a terminal report in the grace window leaves the turn open.
ReportTerminalKeepsTurn(status, tag) ==
  /\ Matches(tag) /\ status \in Terminal
  /\ turn' = [turn EXCEPT !.terminal = TRUE, !.accepted = TRUE]
  /\ record' = [record EXCEPT !.phase = "ended-ok", !.accepted = TRUE, !.ended = TRUE]
  /\ out' = [Nothing EXCEPT
               !.msgs = IF turn.ended
                          THEN <<Relay(status, tag), Completed(turn.id, "reported")>>
                          ELSE <<Relay(status, tag)>>,
               !.beat = IF turn.accepted THEN "none" ELSE "arm",
               !.persist = "force"]
  /\ UNCHANGED <<ready, grace, opened>>

ReportTerminal(status, tag) ==
  /\ Matches(tag) /\ status \in Terminal
  /\ turn' = IF turn.ended
               THEN NoTurn
               ELSE [turn EXCEPT !.terminal = TRUE, !.accepted = TRUE]
  /\ record' = [record EXCEPT !.phase = "ended-ok", !.accepted = TRUE, !.ended = TRUE]
  /\ out' = [Nothing EXCEPT
               !.msgs = IF turn.ended
                          THEN <<Relay(status, tag), Completed(turn.id, "reported")>>
                          ELSE <<Relay(status, tag)>>,
               !.beat = IF turn.accepted THEN "none" ELSE "arm",
               !.persist = "force"]
  /\ UNCHANGED <<ready, grace, opened>>

ReportBegins(status, tag) ==
  /\ Matches(tag) /\ status \notin Terminal /\ ~turn.accepted
  /\ turn' = [turn EXCEPT !.accepted = TRUE]
  /\ record' = [record EXCEPT !.accepted = TRUE]
  /\ out' = [Nothing EXCEPT !.msgs = <<Accepted(turn.id), Relay(status, tag)>>,
                            !.beat = "arm", !.persist = "force"]
  /\ UNCHANGED <<ready, grace, opened>>

ReportRelayed(status, tag) ==
  /\ ~Matches(tag) \/ (status \notin Terminal /\ turn.accepted)
  /\ out' = [Nothing EXCEPT !.msgs = <<Relay(status, tag)>>, !.persist = "throttled"]
  /\ UNCHANGED <<turn, ready, record, grace, opened>>

Report(status, tag) ==
  ReportTerminal(status, tag) \/ ReportBegins(status, tag) \/ ReportRelayed(status, tag)

(***************************************************************************)
(* `report hook <event>`: the harness's SessionStart, UserPromptSubmit and *)
(* Stop hooks.  A hook line carries no turn id; whatever turn is in flight *)
(* takes it.                                                               *)
(***************************************************************************)
HookSessionReady ==
  /\ ready' = TRUE
  /\ out' = [Nothing EXCEPT !.msgs = <<SessionIsReady>>, !.persist = "throttled"]
  /\ UNCHANGED <<turn, record, grace, opened>>

\* Mutant: the acceptance is not written to the record.
HookBeginsForgetsRecord ==
  /\ InFlight /\ ~turn.accepted
  /\ turn' = [turn EXCEPT !.accepted = TRUE]
  /\ out' = [Nothing EXCEPT !.msgs = <<Accepted(turn.id)>>,
                            !.beat = "arm", !.persist = "force"]
  /\ UNCHANGED <<ready, record, grace, opened>>

HookBegins ==
  /\ InFlight /\ ~turn.accepted
  /\ turn' = [turn EXCEPT !.accepted = TRUE]
  /\ record' = [record EXCEPT !.accepted = TRUE]
  /\ out' = [Nothing EXCEPT !.msgs = <<Accepted(turn.id)>>,
                            !.beat = "arm", !.persist = "force"]
  /\ UNCHANGED <<ready, grace, opened>>

HookBegunAlready ==
  /\ ~InFlight \/ turn.accepted
  /\ out' = [Nothing EXCEPT !.persist = "throttled"]
  /\ UNCHANGED <<turn, ready, record, grace, opened>>

HookTurnAccepted == HookBegins \/ HookBegunAlready

StopConcludes ==
  /\ InFlight /\ turn.terminal
  /\ turn' = NoTurn
  /\ record' = [record EXCEPT !.phase = "ended-ok", !.ended = TRUE]
  /\ out' = [Nothing EXCEPT !.msgs = <<Completed(turn.id, "reported")>>,
                            !.beat = "silence", !.persist = "force"]
  /\ UNCHANGED <<ready, grace, opened>>

StopOpensGrace ==
  /\ InFlight /\ ~turn.terminal /\ ~turn.ended
  /\ turn' = [turn EXCEPT !.ended = TRUE]
  /\ record' = [record EXCEPT !.ended = TRUE]
  /\ grace' = [grace EXCEPT ![turn.id] = @ + 1]
  /\ out' = [Nothing EXCEPT !.grace = "initial", !.beat = "silence", !.persist = "force"]
  /\ UNCHANGED <<ready, opened>>

\* Mutant: every Stop of an ended turn starts another grace loop.
StopAgainRearms ==
  /\ InFlight /\ ~turn.terminal /\ turn.ended
  /\ grace' = [grace EXCEPT ![turn.id] = @ + 1]
  /\ out' = [Nothing EXCEPT !.grace = "initial", !.beat = "silence", !.persist = "force"]
  /\ UNCHANGED <<turn, ready, record, opened>>

StopAgain ==
  /\ InFlight /\ ~turn.terminal /\ turn.ended
  /\ out' = [Nothing EXCEPT !.beat = "silence", !.persist = "force"]
  /\ UNCHANGED <<turn, ready, record, grace, opened>>

StopBetweenTurns ==
  /\ ~InFlight
  /\ out' = Nothing
  /\ UNCHANGED <<turn, ready, record, grace, opened>>

HookTurnEnded == StopConcludes \/ StopOpensGrace \/ StopAgain \/ StopBetweenTurns

(***************************************************************************)
(* GraceExpired{turn_id}: the timer a Stop or a nudge asked for fires.     *)
(***************************************************************************)
StillUnreported(id) == turn.id = id /\ turn.ended /\ ~turn.terminal

\* Mutant: the grace loop ends after the first nudge.
GraceNudgesOnce(id) ==
  /\ grace[id] > 0 /\ StillUnreported(id) /\ turn.nudges < MaxNudges
  /\ turn' = [turn EXCEPT !.nudges = @ + 1]
  /\ grace' = [grace EXCEPT ![id] = @ - 1]
  /\ out' = [Nothing EXCEPT !.nudge = turn.nudges + 1, !.persist = "force"]
  /\ UNCHANGED <<ready, record, opened>>

\* The event is consumed and the same loop is asked for another one.
GraceNudges(id) ==
  /\ grace[id] > 0 /\ StillUnreported(id) /\ turn.nudges < MaxNudges
  /\ turn' = [turn EXCEPT !.nudges = @ + 1]
  /\ out' = [Nothing EXCEPT !.nudge = turn.nudges + 1, !.grace = "nudge",
                            !.persist = "force"]
  /\ UNCHANGED <<ready, record, grace, opened>>

\* Mutant: the budget check is off by one.
GraceResolvesEarly(id) ==
  /\ grace[id] > 0 /\ StillUnreported(id) /\ turn.nudges + 1 >= MaxNudges
  /\ turn' = NoTurn
  /\ record' = [record EXCEPT !.phase = "idle", !.ended = TRUE]
  /\ grace' = [grace EXCEPT ![id] = @ - 1]
  /\ out' = [Nothing EXCEPT !.msgs = <<Completed(id, "unreported")>>, !.persist = "force"]
  /\ UNCHANGED <<ready, opened>>

GraceResolves(id) ==
  /\ grace[id] > 0 /\ StillUnreported(id) /\ turn.nudges >= MaxNudges
  /\ turn' = NoTurn
  /\ record' = [record EXCEPT !.phase = "idle", !.ended = TRUE]
  /\ grace' = [grace EXCEPT ![id] = @ - 1]
  /\ out' = [Nothing EXCEPT !.msgs = <<Completed(id, "unreported")>>, !.persist = "force"]
  /\ UNCHANGED <<ready, opened>>

GraceMoot(id) ==
  /\ grace[id] > 0 /\ ~StillUnreported(id)
  /\ grace' = [grace EXCEPT ![id] = @ - 1]
  /\ out' = Nothing
  /\ UNCHANGED <<turn, ready, record, opened>>

GraceExpired(id) == GraceNudges(id) \/ GraceResolves(id) \/ GraceMoot(id)

-----------------------------------------------------------------------------
Next ==
  \/ \E id \in TurnIds : Prompt(id) \/ Injected(id) \/ GraceExpired(id)
  \/ \E status \in Statuses, tag \in MaybeId : Report(status, tag)
  \/ HookSessionReady \/ HookTurnAccepted \/ HookTurnEnded

Spec == Init /\ [][Next]_vars

(* Timers fire: tokio's sleep completes, and the loop then takes the lock. *)
FairSpec == Spec /\ \A id \in TurnIds : WF_vars(GraceExpired(id))

-----------------------------------------------------------------------------
(* Types of the session and of the Outcome; the nudge and re-injection     *)
(* counters stay within their budgets.                                     *)
TypeOK ==
  /\ turn \in Turn
  /\ ready \in BOOLEAN
  /\ record \in Record
  /\ grace \in [TurnIds -> Nat]
  /\ opened \in [TurnIds -> Nat]
  /\ out \in Outcome

(* The record `sandbox status` reads tells the truth about the machine: it *)
(* names the turn in flight and says how far that turn is, and it never    *)
(* says "in-flight" when the machine holds no turn (it is the last verdict *)
(* then).  Six branches of Session::step update the two separately.        *)
RecordTracksTurn ==
  /\ InFlight =>
       /\ record.id = turn.id
       /\ record.accepted = turn.accepted
       /\ record.ended = (turn.ended \/ turn.terminal)
       /\ record.phase = IF turn.terminal THEN "ended-ok" ELSE "in-flight"
  /\ ~InFlight => record.phase # "in-flight"

(* No turn is stranded: as long as a turn that stopped without a terminal  *)
(* report is held open, a grace timer for it is still to fire.  Nothing    *)
(* else would ever close it, and every resend of it is dropped.            *)
StoppedTurnIsWatched ==
  InFlight /\ turn.ended => ~turn.terminal /\ grace[turn.id] > 0

(* A turn starts at most one grace loop, however often the agent stops     *)
(* while it is being nudged: two loops would spend the nudge budget twice  *)
(* as fast (the comment on the later-Stop branch).  An id that is opened   *)
(* again by a late resend is a new turn.                                   *)
OneGraceLoopPerTurn ==
  \A id \in TurnIds :
    grace[id] <= IF turn.id = id /\ ~turn.ended THEN opened[id] - 1 ELSE opened[id]

(* A turn that stopped is always concluded or superseded in the end,       *)
(* because the nudge budget is finite and the grace loop re-arms itself.   *)
StoppedTurnResolves ==
  \A id \in TurnIds :
    (turn.id = id /\ turn.ended) ~> ~(turn.id = id /\ turn.ended)

(***************************************************************************)
(* The machine implements the promise of TurnLifecycle.                    *)
(***************************************************************************)
Stage ==
  IF ~InFlight          THEN "none"     ELSE
  IF turn.ended         THEN "stopped"  ELSE
  IF turn.terminal      THEN "reported" ELSE
  IF turn.accepted      THEN "begun"    ELSE "open"

Announces(how) == \E i \in DOMAIN out.msgs :
                    out.msgs[i].type = "completed" /\ out.msgs[i].note = how

Verdict ==
  IF Announces("reported")   THEN "reported"   ELSE
  IF Announces("unreported") THEN "unreported" ELSE "none"

Lifecycle == INSTANCE TurnLifecycle
               WITH Patience <- MaxNudges, stage <- Stage,
                    reminders <- turn.nudges, verdict <- Verdict

(* Every turn gets at most one verdict; "reported" only once the agent has *)
(* both stopped and made a terminal report, "unreported" only after a stop *)
(* that MaxNudges reminders left without one.                              *)
KeepsThePromise == Lifecycle!Spec
=============================================================================
