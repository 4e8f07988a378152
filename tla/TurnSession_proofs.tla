------------------------- MODULE TurnSession_proofs -------------------------
(***************************************************************************)
(* Proofs about the turn-state machine, for every set of turn ids and      *)
(* every nudge and re-injection budget.                                    *)
(***************************************************************************)
EXTENDS TurnSession, TLAPS

(* What the machine says to the host is a message.                         *)
LEMMA RelayTyped ==
  ASSUME NEW status \in Statuses, NEW tag \in MaybeId
  PROVE  Relay(status, tag) \in Message
  BY DEF Relay, Message

(* What it says of a turn that began or was concluded.                     *)
LEMMA NewsTyped ==
  ASSUME NEW id \in TurnIds
  PROVE  /\ Accepted(id) \in Message
         /\ Completed(id, "reported") \in Message
         /\ Completed(id, "unreported") \in Message
  BY DEF Accepted, Completed, Message

(* What it says of a session that is ready.                                *)
LEMMA ReadyTyped == SessionIsReady \in Message
  BY DEF SessionIsReady, Message

(* The outcome that asks for nothing.                                      *)
LEMMA NothingIsTyped == Nothing \in Outcome
  BY BudgetAssumption DEF Nothing, Outcome

(* The initial state is well typed.                                        *)
LEMMA InitTyped == Init => TypeOK
<1> SUFFICES ASSUME Init PROVE TypeOK
  OBVIOUS
<1>1. turn \in Turn
  BY BudgetAssumption DEF Init, Turn, NoTurn, FreshTurn, MaybeId
<1>2. record \in Record
  BY DEF Init, Record, MaybeId, Phases
<1>3. out \in Outcome
  BY NothingIsTyped DEF Init
<1>4. QED
  BY <1>1, <1>2, <1>3 DEF Init, TypeOK

(* An outcome carries one message                                          *)
LEMMA OneMessage == ASSUME NEW m \in Message PROVE <<m>> \in Seq(Message)
  OBVIOUS

(* or two.                                                                 *)
LEMMA TwoMessages ==
  ASSUME NEW m \in Message, NEW n \in Message PROVE <<m, n>> \in Seq(Message)
  OBVIOUS

(* An outcome that talks to the host.                                      *)
LEMMA TalkingTyped ==
  ASSUME NEW m \in Seq(Message), NEW p \in {"throttled", "force"},
         NEW b \in {"none", "arm", "silence"}
  PROVE  /\ [Nothing EXCEPT !.msgs = m, !.persist = p] \in Outcome
         /\ [Nothing EXCEPT !.msgs = m, !.beat = b, !.persist = p] \in Outcome
  BY NothingIsTyped DEF Outcome

(* Clearing the turn.                                                      *)
LEMMA NoTurnIsTyped == NoTurn \in Turn
  BY BudgetAssumption DEF NoTurn, FreshTurn, Turn, MaybeId

(***************************************************************************)
(* One step for each branch of Session::step, and under it one for each    *)
(* variable the branch can disturb.                                        *)
(***************************************************************************)
LEMMA StepTyped == TypeOK /\ [Next]_vars => TypeOK'
<1> SUFFICES ASSUME TypeOK, [Next]_vars PROVE TypeOK'
  OBVIOUS
<1> USE TurnIdsAssumption, StatusesAssumption, BudgetAssumption
<1>1. ASSUME NEW id \in TurnIds, PromptRetry(id) PROVE TypeOK'
  <2>1. turn' \in Turn
    BY <1>1 DEF PromptRetry, TypeOK, Turn, MaybeId
  <2>2. record' \in Record
    BY <1>1 DEF PromptRetry, TypeOK, Record, Turn, MaybeId, Phases
  <2>3. /\ ready' \in BOOLEAN
        /\ grace' \in [TurnIds -> Nat] /\ opened' \in [TurnIds -> Nat]
    BY <1>1 DEF PromptRetry, TypeOK, Turn, MaybeId, InFlight
  <2>4. out' \in Outcome
    BY <1>1, NothingIsTyped DEF PromptRetry, Outcome
  <2> QED BY <2>1, <2>2, <2>3, <2>4 DEF TypeOK
<1>2. ASSUME NEW id \in TurnIds, PromptReinject(id) PROVE TypeOK'
  <2>1. turn' \in Turn
    BY <1>2 DEF PromptReinject, TypeOK, Turn, MaybeId, Unbegun
  <2>2. record' \in Record
    BY <1>2 DEF PromptReinject, TypeOK, Record, Turn, MaybeId, Phases
  <2>3. /\ ready' \in BOOLEAN
        /\ grace' \in [TurnIds -> Nat] /\ opened' \in [TurnIds -> Nat]
    BY <1>2 DEF PromptReinject, TypeOK, Turn, MaybeId, InFlight
  <2>4. out' \in Outcome
    <3>1. turn.reinjections + 1 \in 0..MaxReinjections
      BY <1>2 DEF PromptReinject, TypeOK, Turn, Unbegun
    <3> QED BY <1>2, <3>1, NothingIsTyped DEF PromptReinject, Outcome
  <2> QED BY <2>1, <2>2, <2>3, <2>4 DEF TypeOK
<1>3. ASSUME NEW id \in TurnIds, PromptDropped(id) PROVE TypeOK'
  <2>1. turn' \in Turn
    BY <1>3 DEF PromptDropped, TypeOK, Turn, MaybeId
  <2>2. record' \in Record
    BY <1>3 DEF PromptDropped, TypeOK, Record, Turn, MaybeId, Phases
  <2>3. /\ ready' \in BOOLEAN
        /\ grace' \in [TurnIds -> Nat] /\ opened' \in [TurnIds -> Nat]
    BY <1>3 DEF PromptDropped, TypeOK, Turn, MaybeId, InFlight
  <2>4. out' \in Outcome
    BY <1>3, NothingIsTyped DEF PromptDropped, Outcome
  <2> QED BY <2>1, <2>2, <2>3, <2>4 DEF TypeOK
<1>4. ASSUME NEW id \in TurnIds, PromptOpens(id) PROVE TypeOK'
  <2>1. turn' \in Turn
    BY <1>4 DEF PromptOpens, TypeOK, Turn, MaybeId, FreshTurn
  <2>2. record' \in Record
    BY <1>4 DEF PromptOpens, TypeOK, Record, Turn, MaybeId, Phases
  <2>3. /\ ready' \in BOOLEAN
        /\ grace' \in [TurnIds -> Nat] /\ opened' \in [TurnIds -> Nat]
    BY <1>4 DEF PromptOpens, TypeOK, Turn, MaybeId, InFlight
  <2>4. out' \in Outcome
    BY <1>4, NothingIsTyped DEF PromptOpens, Outcome
  <2> QED BY <2>1, <2>2, <2>3, <2>4 DEF TypeOK
<1>5. ASSUME NEW id \in TurnIds, Injected(id) PROVE TypeOK'
  <2>1. turn' \in Turn
    BY <1>5 DEF Injected, TypeOK, Turn, MaybeId
  <2>2. record' \in Record
    BY <1>5 DEF Injected, TypeOK, Record, Turn, MaybeId, Phases
  <2>3. /\ ready' \in BOOLEAN
        /\ grace' \in [TurnIds -> Nat] /\ opened' \in [TurnIds -> Nat]
    BY <1>5 DEF Injected, TypeOK, Turn, MaybeId, InFlight
  <2>4. out' \in Outcome
    BY <1>5, NothingIsTyped DEF Injected, Outcome
  <2> QED BY <2>1, <2>2, <2>3, <2>4 DEF TypeOK
<1>6. ASSUME NEW id \in TurnIds, GraceNudges(id) PROVE TypeOK'
  <2>1. turn' \in Turn
    BY <1>6 DEF GraceNudges, TypeOK, Turn, MaybeId
  <2>2. record' \in Record
    BY <1>6 DEF GraceNudges, TypeOK, Record, Turn, MaybeId, Phases
  <2>3. /\ ready' \in BOOLEAN
        /\ grace' \in [TurnIds -> Nat] /\ opened' \in [TurnIds -> Nat]
    BY <1>6 DEF GraceNudges, TypeOK, Turn, MaybeId, InFlight
  <2>4. out' \in Outcome
    <3>1. turn.nudges + 1 \in 0..MaxNudges
      BY <1>6 DEF GraceNudges, TypeOK, Turn, Unbegun
    <3> QED BY <1>6, <3>1, NothingIsTyped DEF GraceNudges, Outcome
  <2> QED BY <2>1, <2>2, <2>3, <2>4 DEF TypeOK
<1>7. ASSUME NEW id \in TurnIds, GraceResolves(id) PROVE TypeOK'
  <2>1. turn' \in Turn
    BY <1>7, NoTurnIsTyped DEF GraceResolves, TypeOK, Turn, MaybeId
  <2>2. record' \in Record
    BY <1>7 DEF GraceResolves, TypeOK, Record, Turn, MaybeId, Phases
  <2>3. /\ ready' \in BOOLEAN
        /\ grace' \in [TurnIds -> Nat] /\ opened' \in [TurnIds -> Nat]
    BY <1>7 DEF GraceResolves, TypeOK, Turn, MaybeId, InFlight
  <2>4. out' \in Outcome
    <3> DEFINE m == <<Completed(id, "unreported")>>
    <3>2. m \in Seq(Message)
      BY RelayTyped, NewsTyped, ReadyTyped, OneMessage, TwoMessages
    <3>3. out' = [Nothing EXCEPT !.msgs = m, !.persist = "force"]
      BY <1>7 DEF GraceResolves
    <3> HIDE DEF m
    <3> QED BY <3>2, <3>3, TalkingTyped
  <2> QED BY <2>1, <2>2, <2>3, <2>4 DEF TypeOK
<1>8. ASSUME NEW id \in TurnIds, GraceMoot(id) PROVE TypeOK'
  <2>1. turn' \in Turn
    BY <1>8 DEF GraceMoot, TypeOK, Turn, MaybeId
  <2>2. record' \in Record
    BY <1>8 DEF GraceMoot, TypeOK, Record, Turn, MaybeId, Phases
  <2>3. /\ ready' \in BOOLEAN
        /\ grace' \in [TurnIds -> Nat] /\ opened' \in [TurnIds -> Nat]
    BY <1>8 DEF GraceMoot, TypeOK, Turn, MaybeId, InFlight
  <2>4. out' \in Outcome
    BY <1>8, NothingIsTyped DEF GraceMoot, Outcome
  <2> QED BY <2>1, <2>2, <2>3, <2>4 DEF TypeOK
<1>9. ASSUME NEW status \in Statuses, NEW tag \in MaybeId, ReportTerminal(status, tag) PROVE TypeOK'
  <2>1. turn' \in Turn
    BY <1>9, NoTurnIsTyped DEF ReportTerminal, TypeOK, Turn, MaybeId
  <2>2. record' \in Record
    BY <1>9 DEF ReportTerminal, TypeOK, Record, Turn, MaybeId, Phases
  <2>3. /\ ready' \in BOOLEAN
        /\ grace' \in [TurnIds -> Nat] /\ opened' \in [TurnIds -> Nat]
    BY <1>9 DEF ReportTerminal, TypeOK, Turn, MaybeId, InFlight
  <2>4. out' \in Outcome
    <3> DEFINE m == IF turn.ended
                THEN <<Relay(status, tag), Completed(turn.id, "reported")>>
                ELSE <<Relay(status, tag)>>
    <3>1. turn.id \in TurnIds
      BY <1>9 DEF ReportTerminal, TypeOK, Turn, MaybeId, InFlight, Matches
    <3>2. m \in Seq(Message)
      BY <3>1, RelayTyped, NewsTyped, ReadyTyped, OneMessage, TwoMessages
    <3>3. out' = [Nothing EXCEPT !.msgs = m, !.beat = IF turn.accepted THEN "none" ELSE "arm", !.persist = "force"]
      BY <1>9 DEF ReportTerminal
    <3> HIDE DEF m
    <3> QED BY <3>2, <3>3, TalkingTyped
  <2> QED BY <2>1, <2>2, <2>3, <2>4 DEF TypeOK
<1>10. ASSUME NEW status \in Statuses, NEW tag \in MaybeId, ReportBegins(status, tag) PROVE TypeOK'
  <2>1. turn' \in Turn
    BY <1>10 DEF ReportBegins, TypeOK, Turn, MaybeId
  <2>2. record' \in Record
    BY <1>10 DEF ReportBegins, TypeOK, Record, Turn, MaybeId, Phases
  <2>3. /\ ready' \in BOOLEAN
        /\ grace' \in [TurnIds -> Nat] /\ opened' \in [TurnIds -> Nat]
    BY <1>10 DEF ReportBegins, TypeOK, Turn, MaybeId, InFlight
  <2>4. out' \in Outcome
    <3> DEFINE m == <<Accepted(turn.id), Relay(status, tag)>>
    <3>1. turn.id \in TurnIds
      BY <1>10 DEF ReportBegins, TypeOK, Turn, MaybeId, InFlight, Matches
    <3>2. m \in Seq(Message)
      BY <3>1, RelayTyped, NewsTyped, ReadyTyped, OneMessage, TwoMessages
    <3>3. out' = [Nothing EXCEPT !.msgs = m, !.beat = "arm", !.persist = "force"]
      BY <1>10 DEF ReportBegins
    <3> HIDE DEF m
    <3> QED BY <3>2, <3>3, TalkingTyped
  <2> QED BY <2>1, <2>2, <2>3, <2>4 DEF TypeOK
<1>11. ASSUME NEW status \in Statuses, NEW tag \in MaybeId, ReportRelayed(status, tag) PROVE TypeOK'
  <2>1. turn' \in Turn
    BY <1>11 DEF ReportRelayed, TypeOK, Turn, MaybeId
  <2>2. record' \in Record
    BY <1>11 DEF ReportRelayed, TypeOK, Record, Turn, MaybeId, Phases
  <2>3. /\ ready' \in BOOLEAN
        /\ grace' \in [TurnIds -> Nat] /\ opened' \in [TurnIds -> Nat]
    BY <1>11 DEF ReportRelayed, TypeOK, Turn, MaybeId, InFlight
  <2>4. out' \in Outcome
    <3> DEFINE m == <<Relay(status, tag)>>
    <3>2. m \in Seq(Message)
      BY RelayTyped, NewsTyped, ReadyTyped, OneMessage, TwoMessages
    <3>3. out' = [Nothing EXCEPT !.msgs = m, !.persist = "throttled"]
      BY <1>11 DEF ReportRelayed
    <3> HIDE DEF m
    <3> QED BY <3>2, <3>3, TalkingTyped
  <2> QED BY <2>1, <2>2, <2>3, <2>4 DEF TypeOK
<1>12. ASSUME HookSessionReady PROVE TypeOK'
  <2>1. turn' \in Turn
    BY <1>12 DEF HookSessionReady, TypeOK, Turn, MaybeId
  <2>2. record' \in Record
    BY <1>12 DEF HookSessionReady, TypeOK, Record, Turn, MaybeId, Phases
  <2>3. /\ ready' \in BOOLEAN
        /\ grace' \in [TurnIds -> Nat] /\ opened' \in [TurnIds -> Nat]
    BY <1>12 DEF HookSessionReady, TypeOK, Turn, MaybeId, InFlight
  <2>4. out' \in Outcome
    <3> DEFINE m == <<SessionIsReady>>
    <3>2. m \in Seq(Message)
      BY RelayTyped, NewsTyped, ReadyTyped, OneMessage, TwoMessages
    <3>3. out' = [Nothing EXCEPT !.msgs = m, !.persist = "throttled"]
      BY <1>12 DEF HookSessionReady
    <3> HIDE DEF m
    <3> QED BY <3>2, <3>3, TalkingTyped
  <2> QED BY <2>1, <2>2, <2>3, <2>4 DEF TypeOK
<1>13. ASSUME HookBegins PROVE TypeOK'
  <2>1. turn' \in Turn
    BY <1>13 DEF HookBegins, TypeOK, Turn, MaybeId
  <2>2. record' \in Record
    BY <1>13 DEF HookBegins, TypeOK, Record, Turn, MaybeId, Phases
  <2>3. /\ ready' \in BOOLEAN
        /\ grace' \in [TurnIds -> Nat] /\ opened' \in [TurnIds -> Nat]
    BY <1>13 DEF HookBegins, TypeOK, Turn, MaybeId, InFlight
  <2>4. out' \in Outcome
    <3> DEFINE m == <<Accepted(turn.id)>>
    <3>1. turn.id \in TurnIds
      BY <1>13 DEF HookBegins, TypeOK, Turn, MaybeId, InFlight, Matches
    <3>2. m \in Seq(Message)
      BY <3>1, RelayTyped, NewsTyped, ReadyTyped, OneMessage, TwoMessages
    <3>3. out' = [Nothing EXCEPT !.msgs = m, !.beat = "arm", !.persist = "force"]
      BY <1>13 DEF HookBegins
    <3> HIDE DEF m
    <3> QED BY <3>2, <3>3, TalkingTyped
  <2> QED BY <2>1, <2>2, <2>3, <2>4 DEF TypeOK
<1>14. ASSUME HookBegunAlready PROVE TypeOK'
  <2>1. turn' \in Turn
    BY <1>14 DEF HookBegunAlready, TypeOK, Turn, MaybeId
  <2>2. record' \in Record
    BY <1>14 DEF HookBegunAlready, TypeOK, Record, Turn, MaybeId, Phases
  <2>3. /\ ready' \in BOOLEAN
        /\ grace' \in [TurnIds -> Nat] /\ opened' \in [TurnIds -> Nat]
    BY <1>14 DEF HookBegunAlready, TypeOK, Turn, MaybeId, InFlight
  <2>4. out' \in Outcome
    BY <1>14, NothingIsTyped DEF HookBegunAlready, Outcome
  <2> QED BY <2>1, <2>2, <2>3, <2>4 DEF TypeOK
<1>15. ASSUME StopConcludes PROVE TypeOK'
  <2>1. turn' \in Turn
    BY <1>15, NoTurnIsTyped DEF StopConcludes, TypeOK, Turn, MaybeId
  <2>2. record' \in Record
    BY <1>15 DEF StopConcludes, TypeOK, Record, Turn, MaybeId, Phases
  <2>3. /\ ready' \in BOOLEAN
        /\ grace' \in [TurnIds -> Nat] /\ opened' \in [TurnIds -> Nat]
    BY <1>15 DEF StopConcludes, TypeOK, Turn, MaybeId, InFlight
  <2>4. out' \in Outcome
    <3> DEFINE m == <<Completed(turn.id, "reported")>>
    <3>1. turn.id \in TurnIds
      BY <1>15 DEF StopConcludes, TypeOK, Turn, MaybeId, InFlight, Matches
    <3>2. m \in Seq(Message)
      BY <3>1, RelayTyped, NewsTyped, ReadyTyped, OneMessage, TwoMessages
    <3>3. out' = [Nothing EXCEPT !.msgs = m, !.beat = "silence", !.persist = "force"]
      BY <1>15 DEF StopConcludes
    <3> HIDE DEF m
    <3> QED BY <3>2, <3>3, TalkingTyped
  <2> QED BY <2>1, <2>2, <2>3, <2>4 DEF TypeOK
<1>16. ASSUME StopOpensGrace PROVE TypeOK'
  <2>1. turn' \in Turn
    BY <1>16 DEF StopOpensGrace, TypeOK, Turn, MaybeId
  <2>2. record' \in Record
    BY <1>16 DEF StopOpensGrace, TypeOK, Record, Turn, MaybeId, Phases
  <2>3. /\ ready' \in BOOLEAN
        /\ grace' \in [TurnIds -> Nat] /\ opened' \in [TurnIds -> Nat]
    BY <1>16 DEF StopOpensGrace, TypeOK, Turn, MaybeId, InFlight
  <2>4. out' \in Outcome
    BY <1>16, NothingIsTyped DEF StopOpensGrace, Outcome
  <2> QED BY <2>1, <2>2, <2>3, <2>4 DEF TypeOK
<1>17. ASSUME StopAgain PROVE TypeOK'
  <2>1. turn' \in Turn
    BY <1>17 DEF StopAgain, TypeOK, Turn, MaybeId
  <2>2. record' \in Record
    BY <1>17 DEF StopAgain, TypeOK, Record, Turn, MaybeId, Phases
  <2>3. /\ ready' \in BOOLEAN
        /\ grace' \in [TurnIds -> Nat] /\ opened' \in [TurnIds -> Nat]
    BY <1>17 DEF StopAgain, TypeOK, Turn, MaybeId, InFlight
  <2>4. out' \in Outcome
    BY <1>17, NothingIsTyped DEF StopAgain, Outcome
  <2> QED BY <2>1, <2>2, <2>3, <2>4 DEF TypeOK
<1>18. ASSUME StopBetweenTurns PROVE TypeOK'
  <2>1. turn' \in Turn
    BY <1>18 DEF StopBetweenTurns, TypeOK, Turn, MaybeId
  <2>2. record' \in Record
    BY <1>18 DEF StopBetweenTurns, TypeOK, Record, Turn, MaybeId, Phases
  <2>3. /\ ready' \in BOOLEAN
        /\ grace' \in [TurnIds -> Nat] /\ opened' \in [TurnIds -> Nat]
    BY <1>18 DEF StopBetweenTurns, TypeOK, Turn, MaybeId, InFlight
  <2>4. out' \in Outcome
    BY <1>18, NothingIsTyped DEF StopBetweenTurns, Outcome
  <2> QED BY <2>1, <2>2, <2>3, <2>4 DEF TypeOK
<1>19. CASE UNCHANGED vars
  BY <1>19 DEF vars, TypeOK
<1> QED
  BY <1>1, <1>2, <1>3, <1>4, <1>5, <1>6, <1>7, <1>8, <1>9, <1>10, <1>11, <1>12, <1>13, <1>14, <1>15, <1>16, <1>17, <1>18, <1>19
  DEF Next, Prompt, Report, HookTurnAccepted, HookTurnEnded, GraceExpired

(* Theorem: the machine's state is well typed; in particular the nudge and *)
(* re-injection counters never pass their budgets.                         *)
THEOREM TypeCorrect == Spec => []TypeOK
<1>1. Init => TypeOK
  BY InitTyped
<1>2. TypeOK /\ [Next]_vars => TypeOK'
  BY StepTyped
<1> QED
  BY <1>1, <1>2, PTL DEF Spec


(***************************************************************************)
(* What the steps do to the turn in flight.  Every step but a prompt lets  *)
(* it go on or closes it, and takes nothing back.                          *)
(***************************************************************************)
GoesOn ==
  /\ opened' = opened
  /\ turn'.id = turn.id \/ turn'.id = 0
  /\ turn'.id # 0 => /\ turn'.reinjections = turn.reinjections
                     /\ turn.ended => turn'.ended
                     /\ turn.accepted => turn'.accepted
                     /\ turn.injected => turn'.injected

LEMMA SessionGoesOn ==
  ASSUME TypeOK,
         \/ UNCHANGED <<turn, opened>>
         \/ HookSessionReady \/ HookTurnAccepted \/ HookTurnEnded
         \/ \E id \in TurnIds : Injected(id) \/ GraceExpired(id)
         \/ \E status \in Statuses, tag \in MaybeId : Report(status, tag)
  PROVE  GoesOn
<1> USE DEF TypeOK, Turn, GoesOn
<1>1. CASE UNCHANGED <<turn, opened>>
  BY <1>1
<1>2. CASE HookSessionReady
  BY <1>2 DEF HookSessionReady
<1>3. CASE HookTurnAccepted
  BY <1>3 DEF HookTurnAccepted, HookBegins, HookBegunAlready
<1>4. CASE HookTurnEnded
  <2>1. CASE StopConcludes
    BY <2>1 DEF StopConcludes, NoTurn, FreshTurn
  <2>2. CASE StopOpensGrace
    BY <2>2 DEF StopOpensGrace
  <2>3. CASE StopAgain \/ StopBetweenTurns
    BY <2>3 DEF StopAgain, StopBetweenTurns
  <2> QED BY <1>4, <2>1, <2>2, <2>3 DEF HookTurnEnded
<1>5. ASSUME NEW id \in TurnIds, Injected(id) PROVE GoesOn
  BY <1>5 DEF Injected
<1>6. ASSUME NEW id \in TurnIds, GraceExpired(id) PROVE GoesOn
  <2>1. CASE GraceNudges(id)
    BY <2>1 DEF GraceNudges
  <2>2. CASE GraceResolves(id)
    BY <2>2 DEF GraceResolves, NoTurn, FreshTurn
  <2>3. CASE GraceMoot(id)
    BY <2>3 DEF GraceMoot
  <2> QED BY <1>6, <2>1, <2>2, <2>3 DEF GraceExpired
<1>7. ASSUME NEW status \in Statuses, NEW tag \in MaybeId, Report(status, tag) PROVE GoesOn
  <2>1. CASE ReportTerminal(status, tag)
    <3>1. /\ opened' = opened
          /\ turn' = IF turn.ended THEN NoTurn ELSE [turn EXCEPT !.terminal = TRUE, !.accepted = TRUE]
      BY <2>1 DEF ReportTerminal
    <3> QED BY <3>1 DEF NoTurn, FreshTurn
  <2>2. CASE ReportBegins(status, tag)
    BY <2>2 DEF ReportBegins
  <2>3. CASE ReportRelayed(status, tag)
    BY <2>3 DEF ReportRelayed
  <2> QED BY <1>7, <2>1, <2>2, <2>3 DEF Report
<1> QED BY <1>1, <1>2, <1>3, <1>4, <1>5, <1>6, <1>7

(* Only a prompt and a confirmation touch what was injected.               *)
LEMMA InjectedIsKept ==
  ASSUME TypeOK,
         \/ UNCHANGED turn \/ HookTurnAccepted \/ HookTurnEnded
         \/ \E id \in TurnIds : GraceExpired(id)
         \/ \E status \in Statuses, tag \in MaybeId : Report(status, tag)
  PROVE  turn'.injected => turn.injected
<1> USE DEF TypeOK, Turn
<1>1. CASE UNCHANGED turn
  BY <1>1
<1>2. CASE HookTurnAccepted
  BY <1>2 DEF HookTurnAccepted, HookBegins, HookBegunAlready
<1>3. CASE HookTurnEnded
  <2>1. CASE StopConcludes
    BY <2>1 DEF StopConcludes, NoTurn, FreshTurn
  <2>2. CASE StopOpensGrace
    BY <2>2 DEF StopOpensGrace
  <2>3. CASE StopAgain \/ StopBetweenTurns
    BY <2>3 DEF StopAgain, StopBetweenTurns
  <2> QED BY <1>3, <2>1, <2>2, <2>3 DEF HookTurnEnded
<1>4. ASSUME NEW id \in TurnIds, GraceExpired(id) PROVE turn'.injected => turn.injected
  <2>1. CASE GraceNudges(id)
    BY <2>1 DEF GraceNudges
  <2>2. CASE GraceResolves(id)
    BY <2>2 DEF GraceResolves, NoTurn, FreshTurn
  <2>3. CASE GraceMoot(id)
    BY <2>3 DEF GraceMoot
  <2> QED BY <1>4, <2>1, <2>2, <2>3 DEF GraceExpired
<1>5. ASSUME NEW status \in Statuses, NEW tag \in MaybeId, Report(status, tag)
      PROVE  turn'.injected => turn.injected
  <2>1. CASE ReportTerminal(status, tag)
    <3>1. turn' = IF turn.ended THEN NoTurn ELSE [turn EXCEPT !.terminal = TRUE, !.accepted = TRUE]
      BY <2>1 DEF ReportTerminal
    <3> QED BY <3>1 DEF NoTurn, FreshTurn
  <2>2. CASE ReportBegins(status, tag)
    BY <2>2 DEF ReportBegins
  <2>3. CASE ReportRelayed(status, tag)
    BY <2>3 DEF ReportRelayed
  <2> QED BY <1>5, <2>1, <2>2, <2>3 DEF Report
<1> QED BY <1>1, <1>2, <1>3, <1>4, <1>5

(* A prompt leaves its own turn in flight: the one that was, or a new one. *)
LEMMA PromptTakesTheTurn ==
  ASSUME TypeOK, NEW id \in TurnIds, Prompt(id)
  PROVE  /\ turn'.id = id /\ opened'[id] \in Nat
         /\ \A k \in TurnIds : opened[k] <= opened'[k]
         /\ turn.id = id =>
              /\ opened' = opened /\ turn'.ended = turn.ended /\ turn'.terminal = turn.terminal
              /\ turn'.accepted = turn.accepted /\ turn'.injected = turn.injected
              /\ IF out'.inject /\ turn.injected
                   THEN turn'.reinjections = turn.reinjections + 1
                   ELSE turn'.reinjections = turn.reinjections
         /\ turn.id # id =>
              /\ opened' = [opened EXCEPT ![id] = @ + 1] /\ opened'[id] = opened[id] + 1
              /\ ~turn'.ended /\ ~turn'.terminal /\ ~turn'.injected
              /\ out'.inject /\ turn'.reinjections = 0
<1> USE DEF TypeOK, Turn
<1>1. CASE PromptRetry(id)
  BY <1>1 DEF PromptRetry, Undelivered
<1>2. CASE PromptReinject(id)
  <2>1. /\ turn.id = id /\ turn.injected /\ turn' = [turn EXCEPT !.reinjections = @ + 1]
        /\ opened' = opened
    BY <1>2 DEF PromptReinject, Unbegun
  <2>2. out'.inject
    BY <1>2 DEF PromptReinject, Nothing
  <2>3. /\ turn'.id = turn.id /\ turn'.ended = turn.ended /\ turn'.terminal = turn.terminal
        /\ turn'.accepted = turn.accepted /\ turn'.injected = turn.injected
        /\ turn'.reinjections = turn.reinjections + 1
    BY <2>1
  <2>4. opened'[id] \in Nat /\ \A k \in TurnIds : opened[k] <= opened'[k]
    BY <2>1
  <2> QED BY <2>1, <2>2, <2>3, <2>4
<1>3. CASE PromptDropped(id)
  BY <1>3 DEF PromptDropped, Nothing
<1>4. CASE PromptOpens(id)
  <2>1. turn.id # id /\ turn' = FreshTurn(id) /\ opened' = [opened EXCEPT ![id] = @ + 1]
    BY <1>4 DEF PromptOpens
  <2>2. /\ turn'.id = id /\ ~turn'.ended /\ ~turn'.terminal /\ ~turn'.injected
        /\ turn'.reinjections = 0
    BY <2>1 DEF FreshTurn
  <2>3. opened'[id] = opened[id] + 1 /\ \A k \in TurnIds : opened[k] <= opened'[k]
    BY <2>1
  <2>4. out'.inject
    BY <1>4 DEF PromptOpens, Nothing
  <2> QED BY <2>1, <2>2, <2>3, <2>4
<1> QED BY <1>1, <1>2, <1>3, <1>4 DEF Prompt

(***************************************************************************)
(* Safety.  The three invariants hold each other up: a stopped turn is     *)
(* watched only because a terminal report never leaves a stopped turn      *)
(* open, and a grace loop is started at most once because the stop that    *)
(* starts it is the one that marks the turn ended.                         *)
(***************************************************************************)
IInv == TypeOK /\ RecordTracksTurn /\ StoppedTurnIsWatched /\ OneGraceLoopPerTurn

(* The initial state satisfies the inductive invariant.                    *)
LEMMA InitSafe == Init => IInv
<1> SUFFICES ASSUME Init PROVE IInv
  OBVIOUS
<1>1. TypeOK
  BY InitTyped
<1>2. RecordTracksTurn
  BY DEF Init, RecordTracksTurn, InFlight, NoTurn, FreshTurn
<1>3. StoppedTurnIsWatched
  BY DEF Init, StoppedTurnIsWatched, InFlight, NoTurn, FreshTurn
<1>4. OneGraceLoopPerTurn
  BY TurnIdsAssumption DEF Init, OneGraceLoopPerTurn, NoTurn, FreshTurn
<1> QED
  BY <1>1, <1>2, <1>3, <1>4 DEF IInv

(* Every branch of the step preserves it.                                  *)
LEMMA StepSafe == IInv /\ [Next]_vars => IInv'
<1> SUFFICES ASSUME IInv, [Next]_vars PROVE IInv'
  OBVIOUS
<1> USE TurnIdsAssumption, BudgetAssumption
<1>t. TypeOK'
  BY StepTyped DEF IInv
<1> SUFFICES /\ RecordTracksTurn' /\ StoppedTurnIsWatched'
             /\ OneGraceLoopPerTurn'
  BY <1>t DEF IInv
<1>1. ASSUME NEW id \in TurnIds, PromptRetry(id)
     PROVE  RecordTracksTurn' /\ StoppedTurnIsWatched' /\ OneGraceLoopPerTurn'
  <2>1. RecordTracksTurn'
    BY <1>1 DEF PromptRetry, IInv, TypeOK, Turn, MaybeId, InFlight, RecordTracksTurn, Record
  <2>2. StoppedTurnIsWatched'
    BY <1>1 DEF PromptRetry, IInv, TypeOK, Turn, MaybeId, InFlight, StoppedTurnIsWatched
  <2>3. OneGraceLoopPerTurn'
    BY <1>1 DEF PromptRetry, IInv, TypeOK, Turn, MaybeId, InFlight, OneGraceLoopPerTurn
  <2> QED BY <2>1, <2>2, <2>3
<1>2. ASSUME NEW id \in TurnIds, PromptReinject(id)
     PROVE  RecordTracksTurn' /\ StoppedTurnIsWatched' /\ OneGraceLoopPerTurn'
  <2>1. RecordTracksTurn'
    BY <1>2 DEF PromptReinject, IInv, TypeOK, Turn, MaybeId, InFlight, RecordTracksTurn, Record
  <2>2. StoppedTurnIsWatched'
    BY <1>2 DEF PromptReinject, IInv, TypeOK, Turn, MaybeId, InFlight, StoppedTurnIsWatched
  <2>3. OneGraceLoopPerTurn'
    BY <1>2 DEF PromptReinject, IInv, TypeOK, Turn, MaybeId, InFlight, OneGraceLoopPerTurn
  <2> QED BY <2>1, <2>2, <2>3
<1>3. ASSUME NEW id \in TurnIds, PromptDropped(id)
     PROVE  RecordTracksTurn' /\ StoppedTurnIsWatched' /\ OneGraceLoopPerTurn'
  <2>1. RecordTracksTurn'
    BY <1>3 DEF PromptDropped, IInv, TypeOK, Turn, MaybeId, InFlight, RecordTracksTurn, Record
  <2>2. StoppedTurnIsWatched'
    BY <1>3 DEF PromptDropped, IInv, TypeOK, Turn, MaybeId, InFlight, StoppedTurnIsWatched
  <2>3. OneGraceLoopPerTurn'
    BY <1>3 DEF PromptDropped, IInv, TypeOK, Turn, MaybeId, InFlight, OneGraceLoopPerTurn
  <2> QED BY <2>1, <2>2, <2>3
<1>4. ASSUME NEW id \in TurnIds, PromptOpens(id)
     PROVE  RecordTracksTurn' /\ StoppedTurnIsWatched' /\ OneGraceLoopPerTurn'
  <2>1. RecordTracksTurn'
    BY <1>4 DEF PromptOpens, IInv, TypeOK, Turn, MaybeId, InFlight, RecordTracksTurn, Record, FreshTurn
  <2>2. StoppedTurnIsWatched'
    BY <1>4 DEF PromptOpens, IInv, TypeOK, Turn, MaybeId, InFlight, StoppedTurnIsWatched, FreshTurn
  <2>3. OneGraceLoopPerTurn'
    BY <1>4 DEF PromptOpens, IInv, TypeOK, Turn, MaybeId, InFlight, OneGraceLoopPerTurn, FreshTurn
  <2> QED BY <2>1, <2>2, <2>3
<1>5. ASSUME NEW id \in TurnIds, Injected(id)
     PROVE  RecordTracksTurn' /\ StoppedTurnIsWatched' /\ OneGraceLoopPerTurn'
  <2>1. RecordTracksTurn'
    BY <1>5 DEF Injected, IInv, TypeOK, Turn, MaybeId, InFlight, RecordTracksTurn, Record
  <2>2. StoppedTurnIsWatched'
    BY <1>5 DEF Injected, IInv, TypeOK, Turn, MaybeId, InFlight, StoppedTurnIsWatched
  <2>3. OneGraceLoopPerTurn'
    BY <1>5 DEF Injected, IInv, TypeOK, Turn, MaybeId, InFlight, OneGraceLoopPerTurn
  <2> QED BY <2>1, <2>2, <2>3
<1>6. ASSUME NEW id \in TurnIds, GraceNudges(id)
     PROVE  RecordTracksTurn' /\ StoppedTurnIsWatched' /\ OneGraceLoopPerTurn'
  <2>1. RecordTracksTurn'
    BY <1>6 DEF GraceNudges, IInv, TypeOK, Turn, MaybeId, InFlight, RecordTracksTurn, Record, StillUnreported
  <2>2. StoppedTurnIsWatched'
    BY <1>6 DEF GraceNudges, IInv, TypeOK, Turn, MaybeId, InFlight, StoppedTurnIsWatched, StillUnreported
  <2>3. OneGraceLoopPerTurn'
    BY <1>6 DEF GraceNudges, IInv, TypeOK, Turn, MaybeId, InFlight, OneGraceLoopPerTurn, StillUnreported
  <2> QED BY <2>1, <2>2, <2>3
<1>7. ASSUME NEW id \in TurnIds, GraceResolves(id)
     PROVE  RecordTracksTurn' /\ StoppedTurnIsWatched' /\ OneGraceLoopPerTurn'
  <2>1. RecordTracksTurn'
    BY <1>7 DEF GraceResolves, IInv, TypeOK, Turn, MaybeId, InFlight, RecordTracksTurn, Record, NoTurn, FreshTurn, StillUnreported
  <2>2. StoppedTurnIsWatched'
    BY <1>7 DEF GraceResolves, IInv, TypeOK, Turn, MaybeId, InFlight, StoppedTurnIsWatched, NoTurn, FreshTurn, StillUnreported
  <2>3. OneGraceLoopPerTurn'
    BY <1>7 DEF GraceResolves, IInv, TypeOK, Turn, MaybeId, InFlight, OneGraceLoopPerTurn, NoTurn, FreshTurn, StillUnreported
  <2> QED BY <2>1, <2>2, <2>3
<1>8. ASSUME NEW id \in TurnIds, GraceMoot(id)
     PROVE  RecordTracksTurn' /\ StoppedTurnIsWatched' /\ OneGraceLoopPerTurn'
  <2>1. RecordTracksTurn'
    BY <1>8 DEF GraceMoot, IInv, TypeOK, Turn, MaybeId, InFlight, RecordTracksTurn, Record, StillUnreported
  <2>2. StoppedTurnIsWatched'
    BY <1>8 DEF GraceMoot, IInv, TypeOK, Turn, MaybeId, InFlight, StoppedTurnIsWatched, StillUnreported
  <2>3. OneGraceLoopPerTurn'
    BY <1>8 DEF GraceMoot, IInv, TypeOK, Turn, MaybeId, InFlight, OneGraceLoopPerTurn, StillUnreported
  <2> QED BY <2>1, <2>2, <2>3
<1>9. ASSUME NEW status \in Statuses, NEW tag \in MaybeId, ReportTerminal(status, tag)
     PROVE  RecordTracksTurn' /\ StoppedTurnIsWatched' /\ OneGraceLoopPerTurn'
  <2>1. RecordTracksTurn'
    BY <1>9 DEF ReportTerminal, IInv, TypeOK, Turn, MaybeId, InFlight, RecordTracksTurn, Record, NoTurn, FreshTurn, Matches
  <2>2. StoppedTurnIsWatched'
    BY <1>9 DEF ReportTerminal, IInv, TypeOK, Turn, MaybeId, InFlight, StoppedTurnIsWatched, NoTurn, FreshTurn, Matches
  <2>3. OneGraceLoopPerTurn'
    BY <1>9 DEF ReportTerminal, IInv, TypeOK, Turn, MaybeId, InFlight, OneGraceLoopPerTurn, NoTurn, FreshTurn, Matches
  <2> QED BY <2>1, <2>2, <2>3
<1>10. ASSUME NEW status \in Statuses, NEW tag \in MaybeId, ReportBegins(status, tag)
     PROVE  RecordTracksTurn' /\ StoppedTurnIsWatched' /\ OneGraceLoopPerTurn'
  <2>1. RecordTracksTurn'
    BY <1>10 DEF ReportBegins, IInv, TypeOK, Turn, MaybeId, InFlight, RecordTracksTurn, Record, Matches
  <2>2. StoppedTurnIsWatched'
    BY <1>10 DEF ReportBegins, IInv, TypeOK, Turn, MaybeId, InFlight, StoppedTurnIsWatched, Matches
  <2>3. OneGraceLoopPerTurn'
    BY <1>10 DEF ReportBegins, IInv, TypeOK, Turn, MaybeId, InFlight, OneGraceLoopPerTurn, Matches
  <2> QED BY <2>1, <2>2, <2>3
<1>11. ASSUME NEW status \in Statuses, NEW tag \in MaybeId, ReportRelayed(status, tag)
     PROVE  RecordTracksTurn' /\ StoppedTurnIsWatched' /\ OneGraceLoopPerTurn'
  <2>1. RecordTracksTurn'
    BY <1>11 DEF ReportRelayed, IInv, TypeOK, Turn, MaybeId, InFlight, RecordTracksTurn, Record, Matches
  <2>2. StoppedTurnIsWatched'
    BY <1>11 DEF ReportRelayed, IInv, TypeOK, Turn, MaybeId, InFlight, StoppedTurnIsWatched, Matches
  <2>3. OneGraceLoopPerTurn'
    BY <1>11 DEF ReportRelayed, IInv, TypeOK, Turn, MaybeId, InFlight, OneGraceLoopPerTurn, Matches
  <2> QED BY <2>1, <2>2, <2>3
<1>12. ASSUME HookSessionReady
     PROVE  RecordTracksTurn' /\ StoppedTurnIsWatched' /\ OneGraceLoopPerTurn'
  <2>1. RecordTracksTurn'
    BY <1>12 DEF HookSessionReady, IInv, TypeOK, Turn, MaybeId, InFlight, RecordTracksTurn, Record
  <2>2. StoppedTurnIsWatched'
    BY <1>12 DEF HookSessionReady, IInv, TypeOK, Turn, MaybeId, InFlight, StoppedTurnIsWatched
  <2>3. OneGraceLoopPerTurn'
    BY <1>12 DEF HookSessionReady, IInv, TypeOK, Turn, MaybeId, InFlight, OneGraceLoopPerTurn
  <2> QED BY <2>1, <2>2, <2>3
<1>13. ASSUME HookBegins
     PROVE  RecordTracksTurn' /\ StoppedTurnIsWatched' /\ OneGraceLoopPerTurn'
  <2>1. RecordTracksTurn'
    BY <1>13 DEF HookBegins, IInv, TypeOK, Turn, MaybeId, InFlight, RecordTracksTurn, Record
  <2>2. StoppedTurnIsWatched'
    BY <1>13 DEF HookBegins, IInv, TypeOK, Turn, MaybeId, InFlight, StoppedTurnIsWatched
  <2>3. OneGraceLoopPerTurn'
    BY <1>13 DEF HookBegins, IInv, TypeOK, Turn, MaybeId, InFlight, OneGraceLoopPerTurn
  <2> QED BY <2>1, <2>2, <2>3
<1>14. ASSUME HookBegunAlready
     PROVE  RecordTracksTurn' /\ StoppedTurnIsWatched' /\ OneGraceLoopPerTurn'
  <2>1. RecordTracksTurn'
    BY <1>14 DEF HookBegunAlready, IInv, TypeOK, Turn, MaybeId, InFlight, RecordTracksTurn, Record
  <2>2. StoppedTurnIsWatched'
    BY <1>14 DEF HookBegunAlready, IInv, TypeOK, Turn, MaybeId, InFlight, StoppedTurnIsWatched
  <2>3. OneGraceLoopPerTurn'
    BY <1>14 DEF HookBegunAlready, IInv, TypeOK, Turn, MaybeId, InFlight, OneGraceLoopPerTurn
  <2> QED BY <2>1, <2>2, <2>3
<1>15. ASSUME StopConcludes
     PROVE  RecordTracksTurn' /\ StoppedTurnIsWatched' /\ OneGraceLoopPerTurn'
  <2>1. RecordTracksTurn'
    BY <1>15 DEF StopConcludes, IInv, TypeOK, Turn, MaybeId, InFlight, RecordTracksTurn, Record, NoTurn, FreshTurn
  <2>2. StoppedTurnIsWatched'
    BY <1>15 DEF StopConcludes, IInv, TypeOK, Turn, MaybeId, InFlight, StoppedTurnIsWatched, NoTurn, FreshTurn
  <2>3. OneGraceLoopPerTurn'
    BY <1>15 DEF StopConcludes, IInv, TypeOK, Turn, MaybeId, InFlight, OneGraceLoopPerTurn, NoTurn, FreshTurn
  <2> QED BY <2>1, <2>2, <2>3
<1>16. ASSUME StopOpensGrace
     PROVE  RecordTracksTurn' /\ StoppedTurnIsWatched' /\ OneGraceLoopPerTurn'
  <2>1. RecordTracksTurn'
    BY <1>16 DEF StopOpensGrace, IInv, TypeOK, Turn, MaybeId, InFlight, RecordTracksTurn, Record
  <2>2. StoppedTurnIsWatched'
    BY <1>16 DEF StopOpensGrace, IInv, TypeOK, Turn, MaybeId, InFlight, StoppedTurnIsWatched
  <2>3. OneGraceLoopPerTurn'
    BY <1>16 DEF StopOpensGrace, IInv, TypeOK, Turn, MaybeId, InFlight, OneGraceLoopPerTurn
  <2> QED BY <2>1, <2>2, <2>3
<1>17. ASSUME StopAgain
     PROVE  RecordTracksTurn' /\ StoppedTurnIsWatched' /\ OneGraceLoopPerTurn'
  <2>1. RecordTracksTurn'
    BY <1>17 DEF StopAgain, IInv, TypeOK, Turn, MaybeId, InFlight, RecordTracksTurn, Record
  <2>2. StoppedTurnIsWatched'
    BY <1>17 DEF StopAgain, IInv, TypeOK, Turn, MaybeId, InFlight, StoppedTurnIsWatched
  <2>3. OneGraceLoopPerTurn'
    BY <1>17 DEF StopAgain, IInv, TypeOK, Turn, MaybeId, InFlight, OneGraceLoopPerTurn
  <2> QED BY <2>1, <2>2, <2>3
<1>18. ASSUME StopBetweenTurns
     PROVE  RecordTracksTurn' /\ StoppedTurnIsWatched' /\ OneGraceLoopPerTurn'
  <2>1. RecordTracksTurn'
    BY <1>18 DEF StopBetweenTurns, IInv, TypeOK, Turn, MaybeId, InFlight, RecordTracksTurn, Record
  <2>2. StoppedTurnIsWatched'
    BY <1>18 DEF StopBetweenTurns, IInv, TypeOK, Turn, MaybeId, InFlight, StoppedTurnIsWatched
  <2>3. OneGraceLoopPerTurn'
    BY <1>18 DEF StopBetweenTurns, IInv, TypeOK, Turn, MaybeId, InFlight, OneGraceLoopPerTurn
  <2> QED BY <2>1, <2>2, <2>3
<1>19. CASE UNCHANGED vars
  BY <1>19 DEF vars, IInv, RecordTracksTurn, StoppedTurnIsWatched, OneGraceLoopPerTurn, InFlight
<1> QED
  BY <1>1, <1>2, <1>3, <1>4, <1>5, <1>6, <1>7, <1>8, <1>9, <1>10, <1>11, <1>12, <1>13, <1>14, <1>15, <1>16, <1>17, <1>18, <1>19
  DEF Next, Prompt, Report, HookTurnAccepted, HookTurnEnded, GraceExpired

(* The inductive invariant holds throughout.                               *)
LEMMA Safe == Spec => []IInv
<1> QED
  BY InitSafe, StepSafe, PTL DEF Spec

(* Theorem: turn-state.json's record always agrees with the machine.       *)
THEOREM RecordIsTruthful == Spec => []RecordTracksTurn
<1>1. IInv => RecordTracksTurn
  BY DEF IInv
<1> QED
  BY <1>1, Safe, PTL

(* Theorem: no stopped turn is ever left without a grace timer.            *)
THEOREM NoTurnIsStranded == Spec => []StoppedTurnIsWatched
<1>1. IInv => StoppedTurnIsWatched
  BY DEF IInv
<1> QED
  BY <1>1, Safe, PTL

(* Theorem: no turn is ever nudged by two grace loops of its own.          *)
THEOREM GraceLoopsAreNotDoubled == Spec => []OneGraceLoopPerTurn
<1>1. IInv => OneGraceLoopPerTurn
  BY DEF IInv
<1> QED
  BY <1>1, Safe, PTL


-----------------------------------------------------------------------------
(***************************************************************************)
(* The machine implements TurnLifecycle: initial states map to initial     *)
(* states, and every branch of Session::step maps to a step of the         *)
(* abstract turn or to one that the host sees nothing of.                  *)
(***************************************************************************)

(* A step without a message announces no verdict.                          *)
LEMMA SilenceIsNoVerdict ==
  ASSUME out'.msgs = <<>> PROVE Verdict' = "none"
  BY DEF Verdict, Announces

(* Neither does one whose messages are something else than completions.    *)
LEMMA OtherNewsIsNoVerdict ==
  ASSUME NEW a, NEW b, a.type # "completed", b.type # "completed",
         out'.msgs = <<a>> \/ out'.msgs = <<a, b>>
  PROVE  Verdict' = "none"
  BY DEF Verdict, Announces

(* A completion, alone or after a relayed report, announces its verdict.   *)
LEMMA CompletionIsTheVerdict ==
  ASSUME NEW a, NEW id, NEW how \in {"reported", "unreported"},
         a.type # "completed",
         \/ out'.msgs = <<Completed(id, how)>>
         \/ out'.msgs = <<a, Completed(id, how)>>
  PROVE  Verdict' = how
<1>1. CASE out'.msgs = <<Completed(id, how)>>
  BY <1>1 DEF Verdict, Announces, Completed
<1>2. CASE out'.msgs = <<a, Completed(id, how)>>
  <2>1. out'.msgs[2] = Completed(id, how) /\ 2 \in DOMAIN out'.msgs
    BY <1>2
  <2>2. \A i \in DOMAIN out'.msgs : i = 1 \/ i = 2
    BY <1>2
  <2>3. out'.msgs[1] = a
    BY <1>2
  <2> QED
    BY <2>1, <2>2, <2>3 DEF Verdict, Announces, Completed
<1> QED
  BY <1>1, <1>2

(* Initial states map to initial states.                                   *)
LEMMA InitRefines == Init => Lifecycle!Init
<1> SUFFICES ASSUME Init PROVE Lifecycle!Init
  OBVIOUS
<1>1. Stage = "none"
  BY DEF Init, Stage, InFlight, NoTurn, FreshTurn
<1>2. turn.nudges = 0
  BY DEF Init, NoTurn, FreshTurn
<1>3. Verdict = "none"
  BY DEF Init, Nothing, Verdict, Announces
<1> QED
  BY <1>1, <1>2, <1>3 DEF Lifecycle!Init

(* Every step maps to a step or a stutter.                                 *)
LEMMA StepRefines == IInv /\ [Next]_vars => [Lifecycle!Next]_(Lifecycle!vars)
<1> SUFFICES ASSUME IInv, [Next]_vars PROVE [Lifecycle!Next]_(Lifecycle!vars)
  OBVIOUS
<1> USE TurnIdsAssumption, BudgetAssumption
<1>1. ASSUME NEW id \in TurnIds, PromptRetry(id) PROVE Lifecycle!Next
  <2>1. Verdict' = "none"
    BY <1>1, SilenceIsNoVerdict DEF PromptRetry, Nothing
  <2>2. Stage' = Stage /\ turn'.nudges = turn.nudges
    BY <1>1 DEF PromptRetry, IInv, TypeOK, Turn, MaybeId, InFlight, Stage
  <2>3. Lifecycle!Other
    BY <2>1, <2>2 DEF Lifecycle!Other, Lifecycle!Silently
  <2> QED BY <2>3 DEF Lifecycle!Next
<1>2. ASSUME NEW id \in TurnIds, PromptReinject(id) PROVE Lifecycle!Next
  <2>1. Verdict' = "none"
    BY <1>2, SilenceIsNoVerdict DEF PromptReinject, Nothing
  <2>2. Stage' = Stage /\ turn'.nudges = turn.nudges
    BY <1>2 DEF PromptReinject, IInv, TypeOK, Turn, MaybeId, InFlight, Stage
  <2>3. Lifecycle!Other
    BY <2>1, <2>2 DEF Lifecycle!Other, Lifecycle!Silently
  <2> QED BY <2>3 DEF Lifecycle!Next
<1>3. ASSUME NEW id \in TurnIds, PromptDropped(id) PROVE Lifecycle!Next
  <2>1. Verdict' = "none"
    BY <1>3, SilenceIsNoVerdict DEF PromptDropped, Nothing
  <2>2. Stage' = Stage /\ turn'.nudges = turn.nudges
    BY <1>3 DEF PromptDropped, IInv, TypeOK, Turn, MaybeId, InFlight, Stage
  <2>3. Lifecycle!Other
    BY <2>1, <2>2 DEF Lifecycle!Other, Lifecycle!Silently
  <2> QED BY <2>3 DEF Lifecycle!Next
<1>4. ASSUME NEW id \in TurnIds, PromptOpens(id) PROVE Lifecycle!Next
  <2>1. Verdict' = "none"
    BY <1>4, SilenceIsNoVerdict DEF PromptOpens, Nothing
  <2>2. Stage' = "open" /\ turn'.nudges = 0
    BY <1>4 DEF PromptOpens, IInv, TypeOK, Turn, MaybeId, InFlight, Stage, FreshTurn
  <2>3. Lifecycle!Open
    BY <2>1, <2>2 DEF Lifecycle!Open, Lifecycle!Silently
  <2> QED BY <2>3 DEF Lifecycle!Next
<1>5. ASSUME NEW id \in TurnIds, Injected(id) PROVE Lifecycle!Next
  <2>1. Verdict' = "none"
    BY <1>5, SilenceIsNoVerdict DEF Injected, Nothing
  <2>2. Stage' = Stage /\ turn'.nudges = turn.nudges
    BY <1>5 DEF Injected, IInv, TypeOK, Turn, MaybeId, InFlight, Stage
  <2>3. Lifecycle!Other
    BY <2>1, <2>2 DEF Lifecycle!Other, Lifecycle!Silently
  <2> QED BY <2>3 DEF Lifecycle!Next
<1>6. ASSUME NEW id \in TurnIds, GraceNudges(id) PROVE Lifecycle!Next
  <2>1. Verdict' = "none"
    BY <1>6, SilenceIsNoVerdict DEF GraceNudges, Nothing
  <2>2. /\ Stage = "stopped" /\ Stage' = Stage
        /\ turn.nudges < MaxNudges /\ turn'.nudges = turn.nudges + 1
    BY <1>6 DEF GraceNudges, IInv, TypeOK, Turn, MaybeId, InFlight, Stage, StillUnreported, StoppedTurnIsWatched
  <2>3. Lifecycle!Remind
    BY <2>1, <2>2 DEF Lifecycle!Remind, Lifecycle!Silently
  <2> QED BY <2>3 DEF Lifecycle!Next
<1>7. ASSUME NEW id \in TurnIds, GraceResolves(id) PROVE Lifecycle!Next
  <2>1. out'.msgs = <<Completed(id, "unreported")>>
    BY <1>7 DEF GraceResolves, Nothing
  <2>2. Verdict' = "unreported"
    BY <2>1 DEF Verdict, Announces, Completed
  <2>3. Stage = "stopped" /\ turn.nudges = MaxNudges
    BY <1>7 DEF GraceResolves, IInv, TypeOK, Turn, MaybeId, InFlight, Stage, StillUnreported, NoTurn, FreshTurn, StoppedTurnIsWatched
  <2>4. Stage' = "none" /\ turn'.nudges = 0
    BY <1>7 DEF GraceResolves, Stage, InFlight, NoTurn, FreshTurn
  <2>5. Lifecycle!ConcludeUnreported
    BY <2>2, <2>3, <2>4 DEF Lifecycle!ConcludeUnreported
  <2> QED BY <2>5 DEF Lifecycle!Next
<1>8. ASSUME NEW id \in TurnIds, GraceMoot(id) PROVE Lifecycle!Next
  <2>1. Verdict' = "none"
    BY <1>8, SilenceIsNoVerdict DEF GraceMoot, Nothing
  <2>2. Stage' = Stage /\ turn'.nudges = turn.nudges
    BY <1>8 DEF GraceMoot, IInv, TypeOK, Turn, MaybeId, InFlight, Stage, StillUnreported, StoppedTurnIsWatched
  <2>3. Lifecycle!Other
    BY <2>1, <2>2 DEF Lifecycle!Other, Lifecycle!Silently
  <2> QED BY <2>3 DEF Lifecycle!Next
<1>9. ASSUME NEW status \in Statuses, NEW tag \in MaybeId, ReportTerminal(status, tag) PROVE Lifecycle!Next
  <2>1. CASE turn.ended
    <3>1. out'.msgs = <<Relay(status, tag), Completed(turn.id, "reported")>>
      BY <1>9, <2>1 DEF ReportTerminal, Nothing
    <3>2. Verdict' = "reported"
      BY <3>1, CompletionIsTheVerdict DEF Relay
    <3>3. Stage = "stopped" /\ Stage' = "none" /\ turn'.nudges = 0
      BY <1>9, <2>1 DEF ReportTerminal, IInv, TypeOK, Turn, MaybeId, InFlight, Stage, Matches, NoTurn, FreshTurn
    <3>4. Lifecycle!ConcludeReported
      BY <3>2, <3>3 DEF Lifecycle!ConcludeReported
    <3> QED BY <3>4 DEF Lifecycle!Next
  <2>2. CASE ~turn.ended
    <3>1. out'.msgs = <<Relay(status, tag)>>
      BY <1>9, <2>2 DEF ReportTerminal, Nothing
    <3>2. Verdict' = "none"
      BY <3>1, OtherNewsIsNoVerdict DEF Relay
    <3>3. /\ Stage \in {"open", "begun", "reported"} /\ Stage' = "reported"
          /\ turn'.nudges = turn.nudges
      BY <1>9, <2>2 DEF ReportTerminal, IInv, TypeOK, Turn, MaybeId, InFlight, Stage, Matches, NoTurn, FreshTurn
    <3>4. Lifecycle!Report \/ Lifecycle!Other
      BY <3>2, <3>3 DEF Lifecycle!Report, Lifecycle!Other, Lifecycle!Silently
    <3> QED BY <3>4 DEF Lifecycle!Next
  <2> QED BY <2>1, <2>2
<1>10. ASSUME NEW status \in Statuses, NEW tag \in MaybeId, ReportBegins(status, tag) PROVE Lifecycle!Next
  <2>1. Verdict' = "none"
    <3>1. out'.msgs = <<Accepted(turn.id), Relay(status, tag)>>
      BY <1>10 DEF ReportBegins, Nothing
    <3>2. \A r : Accepted(r).type # "completed"
      BY DEF Accepted
    <3>3. Relay(status, tag).type # "completed"
      BY DEF Relay
    <3> QED BY <3>1, <3>2, <3>3, OtherNewsIsNoVerdict
  <2>2. turn'.nudges = turn.nudges
    BY <1>10 DEF ReportBegins, IInv, TypeOK, Turn, MaybeId, InFlight, Stage, Matches
  <2>3. CASE Stage = "open"
    <3>1. Stage' = "begun"
      BY <1>10, <2>3 DEF ReportBegins, IInv, TypeOK, Turn, MaybeId, InFlight, Stage, Matches
    <3>2. Lifecycle!Begin
      BY <2>1, <2>2, <2>3, <3>1 DEF Lifecycle!Begin, Lifecycle!Silently
    <3> QED BY <3>2 DEF Lifecycle!Next
  <2>4. CASE Stage # "open"
    <3>1. Stage' = Stage
      BY <1>10, <2>4 DEF ReportBegins, IInv, TypeOK, Turn, MaybeId, InFlight, Stage, Matches
    <3>2. Lifecycle!Other
      BY <2>1, <2>2, <3>1 DEF Lifecycle!Other, Lifecycle!Silently
    <3> QED BY <3>2 DEF Lifecycle!Next
  <2> QED BY <2>3, <2>4
<1>11. ASSUME NEW status \in Statuses, NEW tag \in MaybeId, ReportRelayed(status, tag) PROVE Lifecycle!Next
  <2>1. Verdict' = "none"
    <3>1. out'.msgs = <<Relay(status, tag)>>
      BY <1>11 DEF ReportRelayed, Nothing
    <3>2. Relay(status, tag).type # "completed"
      BY DEF Relay
    <3> QED BY <3>1, <3>2, OtherNewsIsNoVerdict
  <2>2. Stage' = Stage /\ turn'.nudges = turn.nudges
    BY <1>11 DEF ReportRelayed, IInv, TypeOK, Turn, MaybeId, InFlight, Stage, Matches
  <2>3. Lifecycle!Other
    BY <2>1, <2>2 DEF Lifecycle!Other, Lifecycle!Silently
  <2> QED BY <2>3 DEF Lifecycle!Next
<1>12. ASSUME HookSessionReady PROVE Lifecycle!Next
  <2>1. Verdict' = "none"
    <3>1. out'.msgs = <<SessionIsReady>>
      BY <1>12 DEF HookSessionReady, Nothing
    <3>2. SessionIsReady.type # "completed"
      BY DEF SessionIsReady
    <3> QED BY <3>1, <3>2, OtherNewsIsNoVerdict
  <2>2. Stage' = Stage /\ turn'.nudges = turn.nudges
    BY <1>12 DEF HookSessionReady, IInv, TypeOK, Turn, MaybeId, InFlight, Stage
  <2>3. Lifecycle!Other
    BY <2>1, <2>2 DEF Lifecycle!Other, Lifecycle!Silently
  <2> QED BY <2>3 DEF Lifecycle!Next
<1>13. ASSUME HookBegins PROVE Lifecycle!Next
  <2>1. Verdict' = "none"
    <3>1. out'.msgs = <<Accepted(turn.id)>>
      BY <1>13 DEF HookBegins, Nothing
    <3>2. \A r : Accepted(r).type # "completed"
      BY DEF Accepted
    <3>3. Accepted(turn.id).type # "completed"
      BY DEF Accepted
    <3> QED BY <3>1, <3>2, <3>3, OtherNewsIsNoVerdict
  <2>2. turn'.nudges = turn.nudges
    BY <1>13 DEF HookBegins, IInv, TypeOK, Turn, MaybeId, InFlight, Stage
  <2>3. CASE Stage = "open"
    <3>1. Stage' = "begun"
      BY <1>13, <2>3 DEF HookBegins, IInv, TypeOK, Turn, MaybeId, InFlight, Stage
    <3>2. Lifecycle!Begin
      BY <2>1, <2>2, <2>3, <3>1 DEF Lifecycle!Begin, Lifecycle!Silently
    <3> QED BY <3>2 DEF Lifecycle!Next
  <2>4. CASE Stage # "open"
    <3>1. Stage' = Stage
      BY <1>13, <2>4 DEF HookBegins, IInv, TypeOK, Turn, MaybeId, InFlight, Stage
    <3>2. Lifecycle!Other
      BY <2>1, <2>2, <3>1 DEF Lifecycle!Other, Lifecycle!Silently
    <3> QED BY <3>2 DEF Lifecycle!Next
  <2> QED BY <2>3, <2>4
<1>14. ASSUME HookBegunAlready PROVE Lifecycle!Next
  <2>1. Verdict' = "none"
    BY <1>14, SilenceIsNoVerdict DEF HookBegunAlready, Nothing
  <2>2. Stage' = Stage /\ turn'.nudges = turn.nudges
    BY <1>14 DEF HookBegunAlready, IInv, TypeOK, Turn, MaybeId, InFlight, Stage
  <2>3. Lifecycle!Other
    BY <2>1, <2>2 DEF Lifecycle!Other, Lifecycle!Silently
  <2> QED BY <2>3 DEF Lifecycle!Next
<1>15. ASSUME StopConcludes PROVE Lifecycle!Next
  <2>1. out'.msgs = <<Completed(turn.id, "reported")>>
    BY <1>15 DEF StopConcludes, Nothing
  <2>2. Verdict' = "reported"
    BY <2>1 DEF Verdict, Announces, Completed
  <2>3. Stage = "reported"
    BY <1>15 DEF StopConcludes, IInv, TypeOK, Turn, MaybeId, InFlight, Stage, NoTurn, FreshTurn, StoppedTurnIsWatched
  <2>4. Stage' = "none" /\ turn'.nudges = 0
    BY <1>15 DEF StopConcludes, Stage, InFlight, NoTurn, FreshTurn
  <2>5. Lifecycle!ConcludeReported
    BY <2>2, <2>3, <2>4 DEF Lifecycle!ConcludeReported
  <2> QED BY <2>5 DEF Lifecycle!Next
<1>16. ASSUME StopOpensGrace PROVE Lifecycle!Next
  <2>1. Verdict' = "none"
    BY <1>16, SilenceIsNoVerdict DEF StopOpensGrace, Nothing
  <2>2. /\ Stage \in {"open", "begun"} /\ Stage' = "stopped"
        /\ turn'.nudges = turn.nudges
    BY <1>16 DEF StopOpensGrace, IInv, TypeOK, Turn, MaybeId, InFlight, Stage
  <2>3. Lifecycle!Stop
    BY <2>1, <2>2 DEF Lifecycle!Stop, Lifecycle!Silently
  <2> QED BY <2>3 DEF Lifecycle!Next
<1>17. ASSUME StopAgain PROVE Lifecycle!Next
  <2>1. Verdict' = "none"
    BY <1>17, SilenceIsNoVerdict DEF StopAgain, Nothing
  <2>2. Stage' = Stage /\ turn'.nudges = turn.nudges
    BY <1>17 DEF StopAgain, IInv, TypeOK, Turn, MaybeId, InFlight, Stage, StoppedTurnIsWatched
  <2>3. Lifecycle!Other
    BY <2>1, <2>2 DEF Lifecycle!Other, Lifecycle!Silently
  <2> QED BY <2>3 DEF Lifecycle!Next
<1>18. ASSUME StopBetweenTurns PROVE Lifecycle!Next
  <2>1. Verdict' = "none"
    BY <1>18, SilenceIsNoVerdict DEF StopBetweenTurns, Nothing
  <2>2. Stage' = Stage /\ turn'.nudges = turn.nudges
    BY <1>18 DEF StopBetweenTurns, IInv, TypeOK, Turn, MaybeId, InFlight, Stage
  <2>3. Lifecycle!Other
    BY <2>1, <2>2 DEF Lifecycle!Other, Lifecycle!Silently
  <2> QED BY <2>3 DEF Lifecycle!Next
<1>19. CASE UNCHANGED vars
  BY <1>19 DEF vars, Lifecycle!vars, Stage, Verdict, Announces, InFlight
<1> QED
  BY <1>1, <1>2, <1>3, <1>4, <1>5, <1>6, <1>7, <1>8, <1>9, <1>10, <1>11, <1>12, <1>13, <1>14, <1>15, <1>16, <1>17, <1>18, <1>19
  DEF Next, Prompt, Report, HookTurnAccepted, HookTurnEnded, GraceExpired

(* Theorem: the guest's turn-state machine keeps the promise: one verdict  *)
(* per turn, "reported" only after both a stop and a terminal report, and  *)
(* "unreported" only after a stop and the whole nudge budget.              *)
THEOREM MachineKeepsThePromise == Spec => KeepsThePromise
<1> QED
  BY InitRefines, StepRefines, Safe, PTL DEF Spec, KeepsThePromise, Lifecycle!Spec
=============================================================================
