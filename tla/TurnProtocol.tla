---------------------------- MODULE TurnProtocol ----------------------------
(***************************************************************************)
(* One prompt after another, end to end: the host's drive loop             *)
(* (katsuobushi-controller/src/sandbox/prompt.rs), the control connection, *)
(* the guest's turn-state machine (TurnSession) behind its control task,   *)
(* and the harness.                                                        *)
(*                                                                         *)
(* There is no clock: a deadline may pass whenever it is armed, which      *)
(* covers every assignment of delays.  A drive may also be abandoned at    *)
(* any moment (heartbeats missing, connection closed, interrupted by the   *)
(* user).  The guest's effects are taken to happen with the step that asks *)
(* for them; GuestServer studies what happens when they are late.          *)
(***************************************************************************)
EXTENDS TurnSession, FiniteSets, SequencesExt

CONSTANTS
  Retries,     \* deliveryRetries
  UntilModes,  \* the values of --until-report in use
  Tags,        \* whether a report names its turn: a set; the agent is asked for none
  MaxReports,  \* bound of the model: reports the harness makes
  MaxAborts,   \* bound of the model: drives that are abandoned
  MaxMisses    \* bound of the model: injections that fail or get lost

ASSUME ProtocolAssumption ==
  /\ Retries \in Nat /\ MaxReports \in Nat /\ MaxAborts \in Nat /\ MaxMisses \in Nat
  /\ UntilModes \subseteq BOOLEAN /\ Tags \subseteq BOOLEAN

VARIABLES
  drive,     \* the host's drive loop
  verdict,   \* how the drive ended, once it has
  toHost,    \* lines on their way to the host
  toGuest,   \* prompts on their way to the guest; 0 is the end of a connection
  backlog,   \* connections the guest has yet to accept
  writer,    \* the connection the guest writes to, 0 when there is none
  control,   \* what serve_control is doing
  inbox,     \* notifications the harness was handed
  running,   \* the notification the harness is working on
  deed,      \* per turn id, what came of it at the harness (history): `stopped` is the
             \* drive that was the last to have begun when the agent stopped it, `lent`
             \* and `spoke` when it last reported on it without an id, with a terminal
             \* status or another
  used       \* how much of each bound is used up

hostVars == <<drive, verdict>>
wire == <<toHost, toGuest, backlog, writer>>
harness == <<inbox, running, deed>>
sysVars == <<vars, hostVars, wire, control, harness, used>>

-----------------------------------------------------------------------------
Eof == 0
Notification == [turn : TurnIds, nudge : BOOLEAN]
Idle == [turn |-> 0, nudge |-> FALSE]

NoDrive == [pc |-> "off", id |-> 0, until |-> FALSE, accepted |-> FALSE,
            resends |-> 0, rearmed |-> FALSE]

Driving == drive.pc \in {"gate", "stream"}
LastTurn == drive.id

ProtocolInit ==
  /\ Init
  /\ drive = NoDrive
  /\ verdict = "none"
  /\ toHost = <<>> /\ toGuest = <<>> /\ backlog = <<>> /\ writer = 0
  /\ control = [pc |-> "idle", turn |-> 0]
  /\ inbox = <<>> /\ running = Idle
  /\ deed = [i \in TurnIds |-> [stopped |-> 0, claimed |-> FALSE, lent |-> 0, spoke |-> 0]]
  /\ used = [reports |-> 0, aborts |-> 0, misses |-> 0]

\* What the guest says reaches the host while its connection is the one the
\* drive reads; otherwise the write fails or goes to nobody.
Say(msgs) ==
  toHost' = IF Driving /\ writer = drive.id THEN toHost \o msgs ELSE toHost

NoStep == UNCHANGED <<turn, ready, record, grace, opened>> /\ out' = Nothing

-----------------------------------------------------------------------------
(* The host: drive.                                                        *)

\* prompt_core: a fresh turn id, a connection, the ready-gate.
DriveStarts(until) ==
  /\ drive.pc = "off" /\ LastTurn + 1 \in TurnIds
  /\ drive' = [NoDrive EXCEPT !.pc = "gate", !.id = LastTurn + 1, !.until = until]
  /\ verdict' = "none"
  /\ backlog' = Append(backlog, LastTurn + 1)
  /\ toHost' = <<>>
  /\ NoStep /\ UNCHANGED <<toGuest, writer, control, harness, used>>

\* The gate opens: SessionReady came (and is consumed), or the deadline
\* passed, or some other line came: that line is stashed, and being the
\* first in toHost it is the first one the stream handles.
GateOpens ==
  /\ drive.pc = "gate"
  /\ drive' = [drive EXCEPT !.pc = "stream"]
  /\ toGuest' = Append(toGuest, drive.id)
  /\ toHost' = IF toHost # <<>> /\ Head(toHost) = SessionIsReady
                 THEN Tail(toHost) ELSE toHost
  /\ NoStep /\ UNCHANGED <<verdict, backlog, writer, control, harness, used>>

\* The drive returns: its end of the connection is closed.
Ends(how) ==
  /\ drive' = [NoDrive EXCEPT !.id = drive.id]
  /\ verdict' = how
  /\ toGuest' = Append(toGuest, Eof)
  /\ toHost' = <<>>

\* The drive goes on, with the line consumed.
Continues(d) ==
  /\ drive' = d
  /\ toHost' = Tail(toHost)
  /\ UNCHANGED <<verdict, toGuest>>

\* handle_phase1_line, one disjunct per kind of line.
Own(m) == m.id = drive.id

\* Mutant: a terminal report ends the drive whatever turn it names.
AnyReport(m) ==
  /\ m.type = "report"
  /\ IF m.note \in Terminal
       THEN Ends("done")
       ELSE Continues([drive EXCEPT !.accepted = TRUE])

LineReport(m) ==
  /\ m.type = "report" /\ m.id \in {0, drive.id}
  /\ IF m.note \in Terminal
       THEN Ends("done")
       ELSE Continues([drive EXCEPT !.accepted = TRUE])

LineAccepted(m) ==
  /\ m.type = "accepted" /\ Own(m)
  /\ Continues([drive EXCEPT !.accepted = TRUE])

LineCompleted(m) ==
  /\ m.type = "completed" /\ Own(m)
  /\ CASE m.note = "reported" -> Ends("clean")
       [] m.note # "reported" /\ drive.until -> Continues([drive EXCEPT !.rearmed = TRUE])
       [] OTHER -> Ends("stopped")

LineTolerated(m) ==
  /\ \/ m.type = "report" /\ m.id \notin {0, drive.id}
     \/ m.type \in {"accepted", "completed"} /\ ~Own(m)
     \/ m.type = "session-ready"
  /\ Continues(drive)

DriveReads ==
  /\ drive.pc = "stream" /\ toHost # <<>>
  /\ LET m == Head(toHost) IN
       LineReport(m) \/ LineAccepted(m) \/ LineCompleted(m) \/ LineTolerated(m)
  /\ NoStep /\ UNCHANGED <<backlog, writer, control, harness, used>>

\* Mutant: the resend counter is not kept within its budget.
ResendsOnceMore ==
  /\ drive.pc = "stream" /\ ~drive.accepted
  /\ IF drive.resends <= Retries
       THEN /\ drive' = [drive EXCEPT !.resends = @ + 1]
            /\ toGuest' = Append(toGuest, drive.id)
            /\ UNCHANGED <<verdict, toHost>>
       ELSE Ends("wedged")
  /\ NoStep /\ UNCHANGED <<backlog, writer, control, harness, used>>

\* The delivery deadline: resend, or give up on a harness taken to be wedged.
DeliveryDeadline ==
  /\ drive.pc = "stream" /\ ~drive.accepted
  /\ IF drive.resends < Retries
       THEN /\ drive' = [drive EXCEPT !.resends = @ + 1]
            /\ toGuest' = Append(toGuest, drive.id)
            /\ UNCHANGED <<verdict, toHost>>
       ELSE Ends("wedged")
  /\ NoStep /\ UNCHANGED <<backlog, writer, control, harness, used>>

\* Mutant: the guard of the delivery deadline on the re-armed one.
RearmedUnlessAccepted ==
  /\ drive.pc = "stream" /\ drive.rearmed /\ ~drive.accepted
  /\ Ends("unreported")
  /\ NoStep /\ UNCHANGED <<backlog, writer, control, harness, used>>

RearmedDeadline ==
  /\ drive.pc = "stream" /\ drive.rearmed
  /\ Ends("unreported")
  /\ NoStep /\ UNCHANGED <<backlog, writer, control, harness, used>>

\* Heartbeat deadline, end of file, interrupt.
DriveAborts ==
  /\ Driving /\ used.aborts < MaxAborts
  /\ Ends("lost")
  /\ used' = [used EXCEPT !.aborts = @ + 1]
  /\ NoStep /\ UNCHANGED <<backlog, writer, control, harness>>

Host ==
  \/ \E until \in UntilModes : DriveStarts(until)
  \/ GateOpens \/ DriveReads \/ DeliveryDeadline \/ RearmedDeadline \/ DriveAborts

-----------------------------------------------------------------------------
(* The guest: run_control serves one connection at a time.                 *)

Accepts ==
  /\ writer = 0 /\ backlog # <<>> /\ control.pc = "idle"
  /\ writer' = Head(backlog) /\ backlog' = Tail(backlog)
  /\ toHost' = IF Driving /\ drive.id = Head(backlog) /\ ready
                 THEN Append(toHost, SessionIsReady) ELSE toHost
  /\ NoStep /\ UNCHANGED <<hostVars, toGuest, control, harness, used>>

HangUp ==
  /\ writer # 0 /\ control.pc = "idle" /\ toGuest # <<>> /\ Head(toGuest) = Eof
  /\ writer' = 0 /\ toGuest' = Tail(toGuest)
  /\ NoStep /\ UNCHANGED <<hostVars, toHost, backlog, control, harness, used>>

ReadsPrompt ==
  /\ writer # 0 /\ control.pc = "idle" /\ toGuest # <<>> /\ Head(toGuest) # Eof
  /\ Prompt(Head(toGuest))
  /\ toGuest' = Tail(toGuest)
  /\ control' = IF out'.inject THEN [pc |-> "injecting", turn |-> Head(toGuest)] ELSE control
  /\ UNCHANGED <<hostVars, toHost, backlog, writer, harness, used>>

TransportTakesIt ==
  /\ control.pc = "injecting"
  /\ control' = [control EXCEPT !.pc = "confirming"]

InjectLands ==
  /\ TransportTakesIt
  /\ inbox' = Append(inbox, [turn |-> control.turn, nudge |-> FALSE])
  /\ NoStep /\ UNCHANGED <<hostVars, wire, running, deed, used>>

\* The harness loses what the transport took.
InjectGetsLost ==
  /\ used.misses < MaxMisses
  /\ TransportTakesIt
  /\ used' = [used EXCEPT !.misses = @ + 1]
  /\ NoStep /\ UNCHANGED <<hostVars, wire, harness>>

InjectFails ==
  /\ control.pc = "injecting" /\ used.misses < MaxMisses
  /\ control' = [pc |-> "idle", turn |-> 0]
  /\ used' = [used EXCEPT !.misses = @ + 1]
  /\ NoStep /\ UNCHANGED <<hostVars, wire, harness>>

Confirms ==
  /\ control.pc = "confirming"
  /\ Injected(control.turn)
  /\ control' = [pc |-> "idle", turn |-> 0]
  /\ UNCHANGED <<hostVars, wire, harness, used>>

\* A grace timer fires; a nudge is handed to the harness.
GraceFires(id) ==
  /\ GraceExpired(id)
  /\ Say(out'.msgs)
  /\ inbox' = IF out'.nudge > 0 THEN Append(inbox, [turn |-> id, nudge |-> TRUE]) ELSE inbox
  /\ UNCHANGED <<hostVars, toGuest, backlog, writer, control, running, deed, used>>

Guest ==
  \/ Accepts \/ HangUp \/ ReadsPrompt \/ InjectLands \/ InjectGetsLost \/ InjectFails
  \/ Confirms
  \/ \E id \in TurnIds : GraceFires(id)

-----------------------------------------------------------------------------
(* The harness.                                                            *)

ArmsSession ==
  /\ ~ready
  /\ HookSessionReady
  /\ Say(out'.msgs)
  /\ UNCHANGED <<hostVars, toGuest, backlog, writer, control, harness, used>>

Begins ==
  /\ ready /\ running = Idle /\ inbox # <<>>
  /\ running' = Head(inbox) /\ inbox' = Tail(inbox)
  /\ HookTurnAccepted
  /\ Say(out'.msgs)
  /\ UNCHANGED <<hostVars, toGuest, backlog, writer, control, deed, used>>

Told(d, status, tagged) ==
  IF status \in Terminal
    THEN [d EXCEPT !.claimed = TRUE, !.lent = IF tagged THEN @ ELSE drive.id]
    ELSE [d EXCEPT !.spoke = IF tagged THEN @ ELSE drive.id]

Reports(status, tagged) ==
  /\ running # Idle /\ used.reports < MaxReports
  /\ used' = [used EXCEPT !.reports = @ + 1]
  /\ Report(status, IF tagged THEN running.turn ELSE 0)
  /\ Say(out'.msgs)
  /\ deed' = [deed EXCEPT ![running.turn] = Told(@, status, tagged)]
  /\ UNCHANGED <<hostVars, toGuest, backlog, writer, control, inbox, running>>

Stops ==
  /\ running # Idle
  /\ running' = Idle
  /\ deed' = [deed EXCEPT ![running.turn].stopped = drive.id]
  /\ HookTurnEnded
  /\ Say(out'.msgs)
  /\ UNCHANGED <<hostVars, toGuest, backlog, writer, control, inbox, used>>

Harness ==
  \/ ArmsSession \/ Begins \/ Stops
  \/ \E status \in Statuses, tagged \in Tags : Reports(status, tagged)

-----------------------------------------------------------------------------
ProtocolNext == Host \/ Guest \/ Harness
ProtocolSpec == ProtocolInit /\ [][ProtocolNext]_sysVars

(***************************************************************************)
(* Tasks and timers run, and the harness, once handed something, begins    *)
(* and in the end stops.  Nothing is assumed about starting drives,        *)
(* reporting, arming, or aborting.                                         *)
(***************************************************************************)
FairProtocolSpec ==
  /\ ProtocolSpec
  /\ WF_sysVars(GateOpens) /\ WF_sysVars(DriveReads)
  /\ WF_sysVars(DeliveryDeadline) /\ WF_sysVars(RearmedDeadline)
  /\ WF_sysVars(Accepts) /\ WF_sysVars(HangUp) /\ WF_sysVars(ReadsPrompt)
  /\ WF_sysVars(InjectLands) /\ WF_sysVars(Confirms)
  /\ \A id \in TurnIds : WF_sysVars(GraceFires(id))
  /\ WF_sysVars(ArmsSession) /\ WF_sysVars(Begins) /\ WF_sysVars(Stops)

-----------------------------------------------------------------------------
Outcomes == {"none", "done", "clean", "stopped", "wedged", "unreported", "lost"}

(* Types of both ends and of the lines between them; the host resends a    *)
(* prompt at most Retries times.                                           *)
ProtocolTypeOK ==
  /\ TypeOK
  /\ drive \in [pc : {"off", "gate", "stream"}, id : MaybeId, until : BOOLEAN,
                accepted : BOOLEAN, resends : 0..Retries, rearmed : BOOLEAN]
  /\ verdict \in Outcomes
  /\ toHost \in Seq(Message) /\ toGuest \in Seq(MaybeId) /\ backlog \in Seq(TurnIds)
  /\ writer \in MaybeId
  /\ control \in [pc : {"idle", "injecting", "confirming"}, turn : MaybeId]
  /\ inbox \in Seq(Notification) /\ running \in Notification \cup {Idle}

(* A drive ends well only when the agent made a terminal report about its  *)
(* turn, or, since the drive began, one about an earlier turn that named   *)
(* none, as the agent is asked to (server.rs: nudge_text).  What was said  *)
(* before the drive began, and what names another turn, arriving late or   *)
(* replayed, neither concludes the turn nor ends the drive.                *)
SuccessIsEarned ==
  verdict \in {"done", "clean"} =>
    deed[drive.id].claimed \/ \E j \in TurnIds : j < drive.id /\ deed[j].lent >= drive.id

(* "Re-running an executed turn is worse than failing to deliver one"      *)
(* (Session::step): a turn that the agent has stopped is not injected      *)
(* again, except by a resend that the session, having concluded or         *)
(* superseded the turn meanwhile, takes for a new turn.                    *)
RerunsOnlyAsNewTurn ==
  [][control.pc = "idle" /\ control'.pc = "injecting" /\ deed[control'.turn].stopped # 0
       => opened'[control'.turn] > 1]_sysVars

(* A drive does not wait forever: whatever is lost, it ends with a verdict *)
(* or an error as long as the agent does not run forever.  The exception   *)
(* is a drive that took a report on an earlier turn, naming none, for the  *)
(* acknowledgement of its prompt: it resends no more, and if the prompt    *)
(* was lost, heartbeats keep it waiting.                                   *)
Misled == drive.accepted /\ \E j \in TurnIds : j < drive.id /\ deed[j].spoke >= drive.id

DriveReturns == Driving ~> (~Driving \/ Misled)

(* A drive ends with "the agent stopped without a terminal report"         *)
(* (DriveEvent::Stopped) only when, since it began, the agent has stopped: *)
(* its own turn, or one abandoned before, whose Stop the guest takes for   *)
(* that of the turn in flight as the hook names none.  A completion that   *)
(* is late or left over from an earlier drive does not end it.             *)
StoppedMeansAStop ==
  verdict = "stopped" => \E j \in TurnIds : j <= drive.id /\ deed[j].stopped >= drive.id

(* What a drive returns is so.                                             *)
VerdictsAreTrue == SuccessIsEarned /\ StoppedMeansAStop
=============================================================================
