--------------------------- MODULE TurnLifecycle ---------------------------
(***************************************************************************)
(* What the guest server promises the host about a turn, with everything   *)
(* that implements the promise left out.  A turn is opened by a prompt,    *)
(* may begin, and is concluded in exactly one of two ways: "reported" when *)
(* the agent both made a terminal report and stopped, in either order, and *)
(* "unreported" when the agent stopped, made no terminal report, and was   *)
(* reminded Patience times in vain.  A prompt for another turn supersedes  *)
(* an open turn without a verdict.                                         *)
(*                                                                         *)
(* TurnSession implements this specification: see Lifecycle there.         *)
(***************************************************************************)
EXTENDS Naturals

CONSTANT Patience   \* how many reminders a stopped turn gets

VARIABLES
  stage,      \* how far the current turn has come
  reminders,  \* reminders already sent to the current turn
  verdict     \* the verdict announced by the last step, if it announced one

vars == <<stage, reminders, verdict>>

Stages == {"none", "open", "begun", "reported", "stopped"}
Verdicts == {"none", "reported", "unreported"}

(* Types of the abstract lifecycle; the reminders stay within patience.    *)
TypeOK ==
  /\ stage \in Stages
  /\ reminders \in 0..Patience
  /\ verdict \in Verdicts

Init == stage = "none" /\ reminders = 0 /\ verdict = "none"

Silently == verdict' = "none"

Open ==
  /\ stage' = "open"
  /\ reminders' = 0
  /\ Silently

Begin ==
  /\ stage = "open"
  /\ stage' = "begun"
  /\ Silently /\ UNCHANGED reminders

Report ==
  /\ stage \in {"open", "begun"}
  /\ stage' = "reported"
  /\ Silently /\ UNCHANGED reminders

Stop ==
  /\ stage \in {"open", "begun"}
  /\ stage' = "stopped"
  /\ Silently /\ UNCHANGED reminders

Remind ==
  /\ stage = "stopped" /\ reminders < Patience
  /\ reminders' = reminders + 1
  /\ Silently /\ UNCHANGED stage

ConcludeReported ==
  /\ stage \in {"reported", "stopped"}
  /\ stage' = "none" /\ reminders' = 0
  /\ verdict' = "reported"

ConcludeUnreported ==
  /\ stage = "stopped" /\ reminders = Patience
  /\ stage' = "none" /\ reminders' = 0
  /\ verdict' = "unreported"

\* Steps the host sees nothing of; they also end the announcement of a verdict.
Other == Silently /\ UNCHANGED <<stage, reminders>>

Next ==
  \/ Open \/ Begin \/ Report \/ Stop \/ Remind
  \/ ConcludeReported \/ ConcludeUnreported
  \/ Other

Spec == Init /\ [][Next]_vars
=============================================================================
