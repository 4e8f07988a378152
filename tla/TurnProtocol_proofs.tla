------------------------ MODULE TurnProtocol_proofs ------------------------
(***************************************************************************)
(* Proofs about a drive and the guest it prompts, for any number of turns, *)
(* retries, losses, abandoned drives and reports: what a drive returns is  *)
(* so, and a turn the agent has stopped is injected again only as a new    *)
(* one.                                                                    *)
(*                                                                         *)
(* Neither is inductive: a verdict is as good as the line it was read off, *)
(* which was written by the guest while another drive may have been on,    *)
(* about a turn that was prompted before that.  ProtocolInv says of every  *)
(* line, prompt and notification that is on its way what makes it sound.   *)
(***************************************************************************)
EXTENDS TurnProtocol, TurnSession_proofs, SequenceTheorems

DriveState == [pc : {"off", "gate", "stream"}, id : MaybeId, until : BOOLEAN,
               accepted : BOOLEAN, resends : 0..Retries, rearmed : BOOLEAN]
Deed == [stopped : MaybeId, claimed : BOOLEAN, lent : MaybeId, spoke : MaybeId]

ProtocolTypes ==
  /\ ProtocolTypeOK
  /\ deed \in [TurnIds -> Deed]
  /\ control.pc # "idle" => control.turn \in TurnIds
  /\ running # Idle => running.turn \in TurnIds

-----------------------------------------------------------------------------
(* Prompts travel in order: an id that the guest, its control task or the  *)
(* harness is at is not above one on its way, nor above the turn in flight.*)
InOrder(s) == \A i, j \in 1..Len(s) : i < j /\ s[j] # Eof => s[i] <= s[j]
Upto(k, s) == \A i \in 1..Len(s) : s[i] # Eof => k <= s[i]

Past(k) ==
  /\ k <= drive.id
  /\ Upto(k, toGuest)
  /\ k # 0 => opened[k] > 0
  /\ InFlight => k <= turn.id

Handed == {n \in Notification : Past(n.turn)}

PromptsInOrder ==
  /\ InOrder(toGuest) /\ \A i \in 1..Len(toGuest) : toGuest[i] <= drive.id
  /\ Past(turn.id) /\ Past(control.turn) /\ Past(running.turn)
  /\ inbox \in Seq(Handed)

(* What the agent has stopped is ended, superseded or concluded.           *)
StopsShow ==
  \A id \in TurnIds :
    /\ deed[id].stopped <= drive.id
    /\ deed[id].stopped # 0 =>
         opened[id] > 0 /\ (opened[id] = 1 /\ turn.id = id => turn.ended)

(* What is said of a turn, by the guest and then by the drive, has come    *)
(* about.  A report that names no turn is taken for one on the drive's.    *)
StoppedSince(id) == \E j \in TurnIds : j <= id /\ deed[j].stopped >= id
Earned(id) ==
  id \in TurnIds /\ (deed[id].claimed \/ \E j \in TurnIds : j < id /\ deed[j].lent >= id)
Meant(tag) == IF tag = 0 THEN drive.id ELSE tag

Truths ==
  {m \in Message :
     /\ m.type = "report" /\ m.note \in Terminal => Earned(Meant(m.id))
     /\ m.type = "completed" /\ m.note = "reported" => Earned(m.id)
     /\ m.type = "completed" /\ m.note = "unreported" => StoppedSince(m.id)}

TurnIsTrue ==
  InFlight => (turn.ended => StoppedSince(turn.id)) /\ (turn.terminal => Earned(turn.id))

VerdictIsTrue ==
  /\ verdict \in {"done", "clean"} => Earned(drive.id)
  /\ verdict = "stopped" => StoppedSince(drive.id)

LentSoFar == \A id \in TurnIds : deed[id].lent <= drive.id

LinesAreTrue == TurnIsTrue /\ toHost \in Seq(Truths) /\ VerdictIsTrue /\ LentSoFar

ProtocolInv == ProtocolTypes /\ PromptsInOrder /\ StopsShow /\ LinesAreTrue

-----------------------------------------------------------------------------
(* Ids are naturals, so that prompts can be put in order.                  *)
LEMMA IdsAreNaturals == MaybeId \subseteq Nat /\ TurnIds \subseteq MaybeId /\ 0 \notin TurnIds
  BY TurnIdsAssumption DEF MaybeId

(* A sequence with one more element.                                       *)
LEMMA AppendIsTyped ==
  ASSUME NEW S, NEW s \in Seq(S), NEW e \in S
  PROVE  Append(s, e) \in Seq(S)
  OBVIOUS

(* A prompt that is not below those before it keeps the order.             *)
LEMMA OrderGrows ==
  ASSUME NEW s \in Seq(MaybeId), NEW e \in MaybeId, InOrder(s),
         e # Eof => \A i \in 1..Len(s) : s[i] <= e
  PROVE  InOrder(Append(s, e))
<1> SUFFICES ASSUME NEW i \in 1..Len(Append(s, e)), NEW j \in 1..Len(Append(s, e)),
                    i < j, Append(s, e)[j] # Eof
             PROVE  Append(s, e)[i] <= Append(s, e)[j]
  BY DEF InOrder
<1>1. Len(s) \in Nat /\ i \in 1..Len(s) /\ Append(s, e)[i] = s[i]
  OBVIOUS
<1>2. CASE j \in 1..Len(s)
  BY <1>1, <1>2 DEF InOrder
<1>3. CASE j = Len(s) + 1
  BY <1>1, <1>3
<1> QED BY <1>1, <1>2, <1>3

(* An id that is not above those on their way nor above the next one.      *)
LEMMA UptoGrows ==
  ASSUME NEW s \in Seq(MaybeId), NEW e \in MaybeId, NEW k \in MaybeId, Upto(k, s),
         e # Eof => k <= e
  PROVE  Upto(k, Append(s, e))
<1> SUFFICES ASSUME NEW i \in 1..Len(Append(s, e)), Append(s, e)[i] # Eof
             PROVE  k <= Append(s, e)[i]
  BY DEF Upto
<1>1. CASE i \in 1..Len(s)
  BY <1>1 DEF Upto
<1>2. CASE i = Len(s) + 1
  BY <1>2
<1> QED BY <1>1, <1>2

(* The first element is taken off: the rest is in order, and above it.     *)
LEMMA OrderShrinks ==
  ASSUME NEW s \in Seq(MaybeId), s # <<>>, InOrder(s)
  PROVE  InOrder(Tail(s)) /\ Upto(Head(s), Tail(s))
<1>1. /\ Len(s) \in Nat /\ Len(Tail(s)) = Len(s) - 1 /\ Head(s) = s[1]
      /\ \A i \in 1..Len(Tail(s)) : Tail(s)[i] = s[i+1] /\ i+1 \in 1..Len(s)
  OBVIOUS
<1>2. InOrder(Tail(s))
  BY <1>1 DEF InOrder
<1>3. Upto(Head(s), Tail(s))
  BY <1>1 DEF InOrder, Upto
<1> QED BY <1>2, <1>3

LEMMA UptoShrinks ==
  ASSUME NEW s \in Seq(MaybeId), s # <<>>, NEW k \in MaybeId, Upto(k, s)
  PROVE  Upto(k, Tail(s)) /\ (Head(s) # Eof => k <= Head(s))
<1>1. /\ Len(s) \in Nat /\ Len(s) > 0 /\ Len(Tail(s)) = Len(s) - 1 /\ Head(s) = s[1]
      /\ \A i \in 1..Len(Tail(s)) : Tail(s)[i] = s[i+1] /\ i+1 \in 1..Len(s)
  OBVIOUS
<1>2. Upto(k, Tail(s))
  BY <1>1 DEF Upto
<1>3. Head(s) # Eof => k <= Head(s)
  BY <1>1 DEF Upto
<1> QED BY <1>2, <1>3

-----------------------------------------------------------------------------
(* What a step may do to the prompts: the host sends the drive's id or the *)
(* end of its connection, the guest takes the first one, and a turn that   *)
(* comes into flight is the one that was read.                             *)
Arrives(k) ==
  /\ toGuest # <<>> /\ k = Head(toGuest) /\ k # Eof /\ toGuest' = Tail(toGuest)
  /\ opened'[k] > 0 /\ turn'.id = k

Travels ==
  /\ drive.id <= drive'.id
  /\ \A k \in TurnIds : opened[k] <= opened'[k]
  /\ \/ toGuest' = toGuest \/ toGuest' = Append(toGuest, Eof)
     \/ toGuest' = Append(toGuest, drive'.id)
     \/ toGuest # <<>> /\ toGuest' = Tail(toGuest)
  /\ turn'.id = turn.id \/ turn'.id = 0 \/ Arrives(turn'.id)

LEMMA PromptsStayInOrder ==
  ASSUME ProtocolTypes, ProtocolTypes', PromptsInOrder, Travels
  PROVE  /\ InOrder(toGuest)' /\ (\A i \in 1..Len(toGuest) : toGuest[i] <= drive.id)'
         /\ \A k \in MaybeId : Past(k) => Past(k)'
         /\ Past(0)'
         /\ \A k : Arrives(k) => Past(k)'
<1>1. /\ toGuest \in Seq(MaybeId) /\ toGuest' \in Seq(MaybeId)
      /\ drive.id \in MaybeId /\ drive'.id \in MaybeId
      /\ turn.id \in MaybeId /\ turn'.id \in MaybeId /\ 0 \in MaybeId
      /\ opened \in [TurnIds -> Nat] /\ opened' \in [TurnIds -> Nat]
  BY DEF ProtocolTypes, ProtocolTypeOK, TypeOK, Turn, MaybeId
<1>n. drive.id \in Nat /\ drive'.id \in Nat /\ drive.id <= drive'.id /\ \A k \in MaybeId : k \in Nat
  BY <1>1, IdsAreNaturals DEF Travels
<1>2. /\ InOrder(toGuest) /\ \A i \in 1..Len(toGuest) : toGuest[i] <= drive.id
      /\ \A i \in 1..Len(toGuest) : toGuest[i] \in Nat
  BY <1>1, IdsAreNaturals, ElementOfSeq DEF PromptsInOrder
<1>3. /\ InOrder(toGuest') /\ \A i \in 1..Len(toGuest') : toGuest'[i] <= drive'.id
      /\ \A k \in MaybeId : Past(k) => Upto(k, toGuest')
  <2>1. CASE toGuest' = toGuest
    BY <1>n, <1>1, <1>2, <2>1 DEF Past
  <2>2. ASSUME NEW e \in {Eof, drive'.id}, toGuest' = Append(toGuest, e)
        PROVE  /\ InOrder(toGuest') /\ \A i \in 1..Len(toGuest') : toGuest'[i] <= drive'.id
               /\ \A k \in MaybeId : Past(k) => Upto(k, toGuest')
    <3>1. e \in MaybeId /\ \A i \in 1..Len(toGuest) : toGuest[i] <= drive'.id
      BY <1>n, <1>1, <1>2 DEF Eof
    <3>2. InOrder(toGuest')
      BY <1>1, <1>2, <2>2, <3>1, OrderGrows
    <3>3. \A i \in 1..Len(toGuest') : toGuest'[i] <= drive'.id
      BY <1>n, <1>1, <2>2, <3>1 DEF Eof
    <3>4. \A k \in MaybeId : Past(k) => k <= drive'.id
      BY <1>n DEF Past
    <3>5. \A k \in MaybeId : Past(k) => Upto(k, toGuest')
      BY <1>1, <2>2, <3>1, <3>4, UptoGrows DEF Past
    <3> QED BY <3>2, <3>3, <3>5
  <2>3. CASE toGuest # <<>> /\ toGuest' = Tail(toGuest)
    <3>1. InOrder(toGuest') /\ \A k \in MaybeId : Past(k) => Upto(k, toGuest')
      BY <1>1, <1>2, <2>3, OrderShrinks, UptoShrinks DEF Past
    <3>2. \A i \in 1..Len(toGuest') : toGuest'[i] <= drive'.id
      <4>1. \A i \in 1..Len(toGuest') : toGuest'[i] = toGuest[i+1] /\ i+1 \in 1..Len(toGuest)
        BY <1>1, <2>3
      <4> QED BY <1>n, <1>1, <1>2, <4>1
    <3> QED BY <3>1, <3>2
  <2> QED BY <2>1, <2>2, <2>3 DEF Travels
<1>4. \A k \in MaybeId : Past(k) => Past(k)'
  <2> SUFFICES ASSUME NEW k \in MaybeId, Past(k) PROVE Past(k)'
    OBVIOUS
  <2>1. k <= drive'.id
    BY <1>n DEF Past
  <2>2. k # 0 => opened'[k] > 0
    <3>1. k # 0 => k \in TurnIds /\ opened[k] > 0
      BY DEF MaybeId, Past
    <3> QED BY <1>1, <3>1 DEF Travels
  <2>3. InFlight' => k <= turn'.id
    <3>1. CASE turn'.id = turn.id
      BY <3>1 DEF InFlight, Past
    <3>2. CASE turn'.id = 0
      BY <3>2 DEF InFlight
    <3>3. CASE Arrives(turn'.id)
      BY <1>1, <3>3, UptoShrinks DEF Arrives, Past
    <3> QED BY <3>1, <3>2, <3>3 DEF Travels
  <2> QED BY <1>3, <2>1, <2>2, <2>3 DEF Past
<1>5. Past(0)'
  <2>1. \A i \in 1..Len(toGuest') : toGuest'[i] \in Nat
    BY <1>1, <1>n, ElementOfSeq
  <2> QED BY <1>n, <2>1, <1>1 DEF Past, Upto, InFlight
<1>6. ASSUME NEW k, Arrives(k) PROVE Past(k)'
  <2>1. k \in MaybeId /\ k <= drive'.id
    <3>1. k = toGuest[1] /\ 1 \in 1..Len(toGuest) /\ k \in MaybeId
      BY <1>1, <1>6 DEF Arrives
    <3> QED BY <1>n, <1>1, <1>2, <3>1
  <2>2. Upto(k, toGuest')
    BY <1>1, <1>2, <1>6, OrderShrinks DEF Arrives
  <2>3. k <= turn'.id
    BY <1>6, <1>n, <2>1 DEF Arrives
  <2> QED BY <1>6, <2>1, <2>2, <2>3 DEF Past, Arrives
<1> QED BY <1>3, <1>4, <1>5, <1>6

-----------------------------------------------------------------------------
(* The session stays typed over every step of the system.                  *)
LEMMA SessionTyped == ASSUME TypeOK, [Next]_vars \/ NoStep PROVE TypeOK'
<1>1. CASE [Next]_vars
  BY <1>1, StepTyped
<1>2. CASE NoStep
  BY <1>2, NothingIsTyped DEF NoStep, TypeOK
<1> QED BY <1>1, <1>2

(* What the agent has stopped still shows, when the agent stops nothing.   *)
LEMMA StopsStillShow ==
  ASSUME ProtocolTypes, ProtocolTypes', StopsShow, drive.id <= drive'.id,
         \A id \in TurnIds : deed'[id].stopped = deed[id].stopped,
         \/ GoesOn
         \/ \E k \in TurnIds : Prompt(k)
  PROVE  StopsShow'
<1> SUFFICES ASSUME NEW id \in TurnIds
             PROVE  /\ deed[id].stopped <= drive'.id
                    /\ deed[id].stopped # 0 =>
                         opened'[id] > 0 /\ (opened'[id] = 1 /\ turn'.id = id => turn'.ended)
  BY DEF StopsShow
<1>1. /\ deed[id].stopped \in Nat /\ drive.id \in Nat /\ drive'.id \in Nat
      /\ opened[id] \in Nat /\ opened'[id] \in Nat /\ id # 0
      /\ deed[id].stopped <= drive.id /\ TypeOK
      /\ deed[id].stopped # 0 => opened[id] > 0 /\ (opened[id] = 1 /\ turn.id = id => turn.ended)
  BY IdsAreNaturals DEF ProtocolTypes, ProtocolTypeOK, TypeOK, Deed, StopsShow
<1>2. CASE GoesOn
  BY <1>1, <1>2 DEF GoesOn
<1>3. ASSUME NEW k \in TurnIds, Prompt(k), deed[id].stopped # 0
      PROVE  opened'[id] > 0 /\ (opened'[id] = 1 /\ turn'.id = id => turn'.ended)
  BY <1>1, <1>3, PromptTakesTheTurn
<1> QED BY <1>1, <1>2, <1>3

-----------------------------------------------------------------------------
(* What the agent has done: claims and stops only come to be.              *)
Matures ==
  \A id \in TurnIds :
    /\ deed[id].claimed => deed'[id].claimed
    /\ deed[id].stopped <= deed'[id].stopped
    /\ deed[id].lent <= deed'[id].lent /\ deed'[id].lent \in {deed[id].lent, drive.id}

(* Nothing that is recorded of a turn is taken back, when it stays.        *)
LEMMA NothingMatures ==
  ASSUME ProtocolTypes,
         \A id \in TurnIds : /\ deed'[id].claimed = deed[id].claimed
                             /\ deed'[id].stopped = deed[id].stopped
                             /\ deed'[id].lent = deed[id].lent
  PROVE  Matures
<1>1. \A id \in TurnIds : deed[id].stopped \in Nat /\ deed[id].lent \in Nat
  BY IdsAreNaturals DEF ProtocolTypes, Deed
<1> QED BY <1>1 DEF Matures

(* What was true to say stays so, of a report without an id as long as the *)
(* drive is the same.                                                      *)
LEMMA TruthsStay ==
  ASSUME ProtocolTypes, deed' \in [TurnIds -> Deed], Matures
  PROVE  /\ \A id : Earned(id) => Earned(id)'
         /\ \A id \in TurnIds : StoppedSince(id) => StoppedSince(id)'
         /\ drive'.id = drive.id => \A s \in Seq(Truths) : s \in Seq(Truths')
<1>1. \A id \in TurnIds : /\ id \in Nat /\ deed[id].stopped \in Nat /\ deed'[id].stopped \in Nat
                         /\ deed[id].lent \in Nat /\ deed'[id].lent \in Nat
  BY IdsAreNaturals DEF ProtocolTypes, Deed
<1>2. \A id : Earned(id) => Earned(id)'
  BY <1>1 DEF Earned, Matures
<1>3. \A id \in TurnIds : StoppedSince(id) => StoppedSince(id)'
  BY <1>1 DEF StoppedSince, Matures
<1>4. drive'.id = drive.id => Truths \subseteq Truths'
  <2> SUFFICES ASSUME drive'.id = drive.id, NEW m \in Truths PROVE m \in Truths'
    OBVIOUS
  <2>1. m \in Message /\ (m.type = "completed" => m.id \in TurnIds)
    BY DEF Truths, Message
  <2>2. Meant(m.id)' = Meant(m.id)
    BY DEF Meant
  <2> QED BY <1>2, <1>3, <2>1, <2>2 DEF Truths
<1>5. drive'.id = drive.id => \A s \in Seq(Truths) : s \in Seq(Truths')
  BY <1>4, SeqMonotonic
<1> QED BY <1>2, <1>3, <1>5

(* The lines and the verdict stay true over a step that adds true ones.    *)
LEMMA LinesStayTrue ==
  ASSUME ProtocolTypes, ProtocolTypes', LinesAreTrue, Matures, TurnIsTrue',
         drive.id <= drive'.id,
         \/ toHost' = <<>>
         \/ /\ drive'.id = drive.id
            /\ \/ toHost' = toHost
               \/ toHost # <<>> /\ toHost' = Tail(toHost)
               \/ \E msgs \in Seq(Truths') : toHost' = toHost \o msgs,
         VerdictIsTrue' \/ (verdict' = verdict /\ drive'.id = drive.id)
  PROVE  LinesAreTrue'
<1>t. /\ deed' \in [TurnIds -> Deed] /\ drive.id \in MaybeId /\ drive'.id \in MaybeId
      /\ deed \in [TurnIds -> Deed]
  BY DEF ProtocolTypes, ProtocolTypeOK
<1>2. toHost' \in Seq(Truths')
  <2>1. CASE toHost' = <<>>
    BY <2>1
  <2>2. CASE drive'.id = drive.id
    <3>1. toHost \in Seq(Truths')
      BY <1>t, <2>2, TruthsStay DEF LinesAreTrue
    <3>2. CASE toHost # <<>> /\ toHost' = Tail(toHost)
      BY <3>1, <3>2
    <3>3. ASSUME NEW msgs \in Seq(Truths'), toHost' = toHost \o msgs PROVE toHost' \in Seq(Truths')
      BY <3>1, <3>3, ConcatProperties
    <3> QED BY <2>1, <3>1, <3>2, <3>3
  <2> QED BY <2>1, <2>2
<1>3. VerdictIsTrue'
  <2>1. ASSUME verdict' = verdict, drive'.id = drive.id PROVE VerdictIsTrue'
    <3>1. Earned(drive.id) => Earned(drive.id)'
      BY <1>t, <2>1, TruthsStay DEF Earned
    <3>2. StoppedSince(drive.id) => StoppedSince(drive.id)'
      <4>1. \A j \in TurnIds : deed[j].stopped \in Nat /\ deed'[j].stopped \in Nat
        BY <1>t, IdsAreNaturals DEF Deed
      <4>2. drive.id \in Nat
        BY <1>t, IdsAreNaturals
      <4> QED BY <2>1, <4>1, <4>2 DEF StoppedSince, Matures
    <3> QED BY <2>1, <3>1, <3>2 DEF LinesAreTrue, VerdictIsTrue
  <2> QED BY <2>1
<1>4. LentSoFar'
  <2>1. drive.id \in Nat /\ drive'.id \in Nat /\ \A id \in TurnIds : deed[id].lent \in Nat
    BY <1>t, IdsAreNaturals DEF Deed
  <2> QED BY <2>1 DEF LinesAreTrue, LentSoFar, Matures
<1> QED BY <1>2, <1>3, <1>4 DEF LinesAreTrue

-----------------------------------------------------------------------------
(* Prompts stay in order over a step that moves them as steps do.          *)
LEMMA PromptsStay ==
  ASSUME ProtocolTypes, ProtocolTypes', PromptsInOrder, Travels,
         \/ control'.turn = control.turn \/ control'.turn = 0 \/ Arrives(control'.turn),
         \/ running'.turn = running.turn \/ running'.turn = 0
         \/ inbox # <<>> /\ running' = Head(inbox),
         \/ inbox' = inbox
         \/ inbox # <<>> /\ inbox' = Tail(inbox)
         \/ \E n \in Notification :
              (n.turn = control.turn \/ n.turn = turn.id) /\ inbox' = Append(inbox, n)
  PROVE  PromptsInOrder'
<1>1. /\ turn.id \in MaybeId /\ control.turn \in MaybeId /\ running.turn \in MaybeId
      /\ inbox \in Seq(Handed) /\ Past(turn.id) /\ Past(control.turn) /\ Past(running.turn)
  BY DEF ProtocolTypes, ProtocolTypeOK, TypeOK, Turn, Notification, Idle, MaybeId, PromptsInOrder
<1>2. /\ InOrder(toGuest)' /\ (\A i \in 1..Len(toGuest) : toGuest[i] <= drive.id)'
      /\ \A k \in MaybeId : Past(k) => Past(k)'
      /\ Past(0)'
      /\ \A k : Arrives(k) => Past(k)'
  BY PromptsStayInOrder
<1>3. Handed \subseteq Handed'
  BY <1>2, IdsAreNaturals DEF Handed, Notification
<1>4. inbox \in Seq(Handed')
  BY <1>1, <1>3, SeqMonotonic
<1>5. Past(turn.id)'
  <2>1. \A k : k = turn'.id => (k = turn.id \/ k = 0 \/ Arrives(k))
    BY DEF Travels
  <2>2. \A k : k = turn'.id /\ Past(k)' => Past(turn.id)'
    BY DEF Past
  <2> QED BY <1>1, <1>2, <2>1, <2>2
<1>6. Past(control.turn)'
  <2>1. \A k : k = control'.turn /\ Past(k)' => Past(control.turn)'
    BY DEF Past
  <2> QED BY <1>1, <1>2, <2>1
<1>7. Past(running.turn)'
  <2>1. \A k : k = running'.turn /\ Past(k)' => Past(running.turn)'
    BY DEF Past
  <2>2. ASSUME inbox # <<>>, running' = Head(inbox) PROVE Past(running.turn)'
    <3>1. Head(inbox) \in Handed'
      BY <1>4, <2>2, HeadTailProperties
    <3> QED BY <2>1, <2>2, <3>1 DEF Handed
  <2> QED BY <1>1, <1>2, <2>1, <2>2
<1>8. inbox' \in Seq(Handed')
  <2>1. CASE inbox # <<>> /\ inbox' = Tail(inbox)
    BY <1>4, <2>1
  <2>2. ASSUME NEW n \in Notification, n.turn = control.turn \/ n.turn = turn.id,
               inbox' = Append(inbox, n)
        PROVE  inbox' \in Seq(Handed')
    <3>1. n \in Handed'
      BY <1>1, <1>2, <2>2 DEF Handed
    <3> QED BY <1>4, <2>2, <3>1, AppendIsTyped
  <2> QED BY <1>4, <2>1, <2>2
<1> QED BY <1>2, <1>5, <1>6, <1>7, <1>8 DEF PromptsInOrder

(* The steps in which the session and the harness rest: the host's own,    *)
(* and those in which the guest opens and closes its end of a connection.  *)
LEMMA WireKeepsInv ==
  ASSUME ProtocolInv, NoStep, UNCHANGED <<control, harness>>,
         drive' \in DriveState, drive.id <= drive'.id,
         drive'.id # drive.id => toHost' = <<>>,
         \/ toGuest' = toGuest \/ toGuest' = Append(toGuest, Eof)
         \/ toGuest' = Append(toGuest, drive'.id)
         \/ toGuest # <<>> /\ toGuest' = Tail(toGuest),
         backlog' \in Seq(TurnIds), writer' \in MaybeId,
         \/ toHost' = toHost \/ toHost' = <<>>
         \/ toHost # <<>> /\ toHost' = Tail(toHost)
         \/ toHost' = Append(toHost, SessionIsReady),
         verdict' \in Outcomes,
         VerdictIsTrue' \/ (verdict' = verdict /\ drive'.id = drive.id)
  PROVE  ProtocolInv'
<1> USE DEF ProtocolInv
<1>1. TypeOK'
  BY SessionTyped DEF ProtocolTypes, ProtocolTypeOK
<1>2. toHost' \in Seq(Message)
  <2>1. toHost \in Seq(Message)
    BY DEF ProtocolTypes, ProtocolTypeOK
  <2>2. CASE toHost # <<>> /\ toHost' = Tail(toHost)
    BY <2>1, <2>2
  <2>3. CASE toHost' = Append(toHost, SessionIsReady)
    BY <2>1, <2>3, ReadyTyped, AppendIsTyped
  <2>4. <<>> \in Seq(Message)
    OBVIOUS
  <2> QED BY <2>1, <2>2, <2>3, <2>4
<1>3. toGuest' \in Seq(MaybeId)
  <2>1. toGuest \in Seq(MaybeId) /\ Eof \in MaybeId /\ drive'.id \in MaybeId
    BY DEF ProtocolTypes, ProtocolTypeOK, Eof, MaybeId, DriveState
  <2>2. CASE toGuest # <<>> /\ toGuest' = Tail(toGuest)
    BY <2>1, <2>2
  <2>3. Append(toGuest, Eof) \in Seq(MaybeId) /\ Append(toGuest, drive'.id) \in Seq(MaybeId)
    BY <2>1, AppendIsTyped
  <2> QED BY <2>1, <2>2, <2>3
<1>4. ProtocolTypes'
  <2>1. ProtocolTypeOK'
    BY <1>1, <1>2, <1>3 DEF ProtocolTypes, ProtocolTypeOK, DriveState, harness
  <2> QED BY <2>1 DEF ProtocolTypes, harness
<1>5. GoesOn
  BY SessionGoesOn DEF NoStep, ProtocolTypes, ProtocolTypeOK
<1>6. PromptsInOrder'
  <2>1. \A k \in TurnIds : opened[k] \in Nat
    BY DEF ProtocolTypes, ProtocolTypeOK, TypeOK
  <2>2. Travels
    BY <1>5, <2>1 DEF GoesOn, Travels
  <2> QED BY <1>4, <2>2, PromptsStay DEF harness
<1>7. StopsShow'
  BY <1>4, <1>5, StopsStillShow DEF harness
<1>8. Matures
  BY NothingMatures DEF harness
<1>9. TurnIsTrue'
  BY DEF NoStep, harness, LinesAreTrue, TurnIsTrue, InFlight, StoppedSince, Earned
<1>10. LinesAreTrue'
  <2>1. toHost' = Append(toHost, SessionIsReady)
          => \E msgs \in Seq(Truths') : toHost' = toHost \o msgs
    <3>1. <<SessionIsReady>> \in Seq(Truths')
      <4>1. SessionIsReady \in Truths'
        BY ReadyTyped DEF SessionIsReady, Truths
      <4> QED BY <4>1
    <3>2. Append(toHost, SessionIsReady) = toHost \o <<SessionIsReady>>
      BY ReadyTyped, AppendIsConcat DEF ProtocolTypes, ProtocolTypeOK
    <3> QED BY <3>1, <3>2
  <2> QED BY <1>4, <1>8, <1>9, <2>1, LinesStayTrue
<1> QED BY <1>4, <1>6, <1>7, <1>10

(* A drive that returns.                                                   *)
LEMMA EndsKeepsInv ==
  ASSUME ProtocolInv, NoStep, UNCHANGED <<backlog, writer, control, harness>>,
         NEW v \in Outcomes, Ends(v),
         v \in {"done", "clean"} => Earned(drive.id),
         v = "stopped" => StoppedSince(drive.id)
  PROVE  ProtocolInv'
<1>1. /\ drive' = [NoDrive EXCEPT !.id = drive.id] /\ toGuest' = Append(toGuest, Eof) /\ toHost' = <<>>
      /\ verdict' = v
  BY DEF Ends
<1>2. drive \in DriveState /\ drive.id \in MaybeId
      /\ backlog \in Seq(TurnIds) /\ writer \in MaybeId
  BY DEF ProtocolInv, ProtocolTypes, ProtocolTypeOK, DriveState
<1>3. drive' \in DriveState /\ drive'.id = drive.id /\ drive.id <= drive'.id
  <2>1. drive' = [pc |-> "off", id |-> drive.id, until |-> FALSE, accepted |-> FALSE,
                  resends |-> 0, rearmed |-> FALSE]
    BY <1>1 DEF NoDrive
  <2>2. 0 \in 0..Retries
    BY ProtocolAssumption
  <2>3. drive.id \in Nat
    BY <1>2, IdsAreNaturals
  <2> QED BY <1>2, <2>1, <2>2, <2>3 DEF DriveState
<1>4. VerdictIsTrue'
  BY <1>1, <1>3 DEF VerdictIsTrue, Earned, StoppedSince, harness
<1> QED BY <1>1, <1>2, <1>3, <1>4, WireKeepsInv

(* A drive that goes on, with the line consumed.                           *)
LEMMA ContinuesKeepsInv ==
  ASSUME ProtocolInv, NoStep, UNCHANGED <<backlog, writer, control, harness>>,
         NEW d \in DriveState, d.id = drive.id, toHost # <<>>, Continues(d)
  PROVE  ProtocolInv'
<1>1. drive' = d /\ toHost' = Tail(toHost) /\ UNCHANGED <<verdict, toGuest>>
  BY DEF Continues
<1>2. drive \in DriveState /\ verdict \in Outcomes
      /\ backlog \in Seq(TurnIds) /\ writer \in MaybeId /\ drive.id \in Nat
  BY IdsAreNaturals DEF ProtocolInv, ProtocolTypes, ProtocolTypeOK, DriveState
<1> QED BY <1>1, <1>2, WireKeepsInv

-----------------------------------------------------------------------------
(* The host's steps.                                                       *)
LEMMA DriveReadsKeepsInv == ASSUME ProtocolInv, DriveReads PROVE ProtocolInv'
<1> DEFINE m == Head(toHost)
<1>1. /\ toHost # <<>> /\ NoStep /\ UNCHANGED <<backlog, writer, control, harness>>
      /\ LineReport(m) \/ LineAccepted(m) \/ LineCompleted(m) \/ LineTolerated(m)
  BY DEF DriveReads
<1>2. m \in Truths
  BY <1>1, HeadTailProperties DEF ProtocolInv, LinesAreTrue
<1>3. drive \in DriveState
  BY DEF ProtocolInv, ProtocolTypes, ProtocolTypeOK, DriveState
<1>4. /\ [drive EXCEPT !.accepted = TRUE] \in DriveState
      /\ [drive EXCEPT !.accepted = TRUE].id = drive.id
      /\ [drive EXCEPT !.rearmed = TRUE] \in DriveState
      /\ [drive EXCEPT !.rearmed = TRUE].id = drive.id
  BY <1>3 DEF DriveState
<1> HIDE DEF m
<1>5. CASE LineReport(m)
  <2>1. CASE m.note \in Terminal /\ Ends("done")
    <3>1. Earned(Meant(m.id))
      BY <1>2, <1>5, <2>1 DEF Truths, LineReport
    <3>2. Meant(m.id) = drive.id
      BY <1>5 DEF LineReport, Meant
    <3> QED BY <1>1, <2>1, <3>1, <3>2, EndsKeepsInv DEF Outcomes
  <2>2. CASE Continues([drive EXCEPT !.accepted = TRUE])
    BY <1>1, <1>4, <2>2, ContinuesKeepsInv
  <2> QED BY <1>5, <2>1, <2>2 DEF LineReport
<1>6. CASE LineAccepted(m)
  BY <1>1, <1>4, <1>6, ContinuesKeepsInv DEF LineAccepted
<1>7. CASE LineCompleted(m)
  <2>1. m.type = "completed" /\ m.id = drive.id /\ m.note \in {"reported", "unreported"}
    BY <1>2, <1>7 DEF LineCompleted, Own, Truths, Message
  <2>2. CASE m.note = "reported" /\ Ends("clean")
    <3>1. Earned(drive.id)
      BY <1>2, <2>1, <2>2 DEF Truths
    <3> QED BY <1>1, <2>2, <3>1, EndsKeepsInv DEF Outcomes
  <2>3. CASE Continues([drive EXCEPT !.rearmed = TRUE])
    BY <1>1, <1>4, <2>3, ContinuesKeepsInv
  <2>4. CASE m.note = "unreported" /\ Ends("stopped")
    <3>1. StoppedSince(drive.id)
      BY <1>2, <2>1, <2>4 DEF Truths
    <3> QED BY <1>1, <2>4, <3>1, EndsKeepsInv DEF Outcomes
  <2> QED BY <1>7, <2>1, <2>2, <2>3, <2>4 DEF LineCompleted
<1>8. CASE LineTolerated(m)
  BY <1>1, <1>3, <1>8, ContinuesKeepsInv DEF LineTolerated
<1> QED BY <1>1, <1>5, <1>6, <1>7, <1>8

LEMMA HostKeepsInv == ASSUME ProtocolInv, Host PROVE ProtocolInv'
<1>1. /\ drive \in DriveState /\ drive.id \in Nat /\ drive.resends \in 0..Retries
      /\ verdict \in Outcomes /\ backlog \in Seq(TurnIds) /\ writer \in MaybeId
  BY IdsAreNaturals DEF ProtocolInv, ProtocolTypes, ProtocolTypeOK, DriveState
<1>2. ASSUME NEW until \in UntilModes, DriveStarts(until) PROVE ProtocolInv'
  <2>1. /\ LastTurn + 1 \in TurnIds /\ toHost' = <<>> /\ NoStep
        /\ drive' = [NoDrive EXCEPT !.pc = "gate", !.id = LastTurn + 1, !.until = until]
        /\ backlog' = Append(backlog, LastTurn + 1)
        /\ verdict' = "none" /\ UNCHANGED <<toGuest, writer, control, harness>>
    BY <1>2 DEF DriveStarts
  <2>2. drive' \in DriveState
    <3>1. drive' = [pc |-> "gate", id |-> LastTurn + 1, until |-> until, accepted |-> FALSE,
                    resends |-> 0, rearmed |-> FALSE]
      BY <2>1 DEF NoDrive
    <3>2. LastTurn + 1 \in MaybeId /\ until \in BOOLEAN /\ 0 \in 0..Retries
      BY <2>1, ProtocolAssumption DEF MaybeId
    <3> QED BY <3>1, <3>2 DEF DriveState
  <2>3. drive.id <= drive'.id
    BY <1>1, <2>1 DEF NoDrive, LastTurn
  <2>4. backlog' \in Seq(TurnIds)
    BY <1>1, <2>1, AppendIsTyped
  <2>5. VerdictIsTrue' /\ verdict' \in Outcomes
    BY <2>1 DEF VerdictIsTrue, Outcomes
  <2> QED BY <1>1, <2>1, <2>2, <2>3, <2>4, <2>5, WireKeepsInv
<1>3. CASE GateOpens
  <2>1. /\ drive' = [drive EXCEPT !.pc = "stream"] /\ toGuest' = Append(toGuest, drive.id)
        /\ toHost' = toHost \/ (toHost # <<>> /\ toHost' = Tail(toHost))
        /\ NoStep /\ UNCHANGED <<verdict, backlog, writer, control, harness>>
    BY <1>3 DEF GateOpens
  <2>2. drive' \in DriveState /\ drive'.id = drive.id /\ drive.id <= drive'.id
    BY <1>1, <2>1 DEF DriveState
  <2> QED BY <1>1, <2>1, <2>2, WireKeepsInv
<1>4. CASE DriveReads
  BY <1>4, DriveReadsKeepsInv
<1>5. CASE DeliveryDeadline
  <2>1. /\ NoStep /\ UNCHANGED <<backlog, writer, control, harness>>
        /\ \/ /\ drive.resends < Retries /\ drive' = [drive EXCEPT !.resends = @ + 1]
              /\ toGuest' = Append(toGuest, drive.id) /\ UNCHANGED <<verdict, toHost>>
           \/ Ends("wedged")
    BY <1>5 DEF DeliveryDeadline
  <2>2. CASE /\ drive.resends < Retries /\ drive' = [drive EXCEPT !.resends = @ + 1]
             /\ toGuest' = Append(toGuest, drive.id) /\ UNCHANGED <<verdict, toHost>>
    <3>1. drive' \in DriveState /\ drive'.id = drive.id /\ drive.id <= drive'.id
      <4>1. drive.resends + 1 \in 0..Retries
        BY <1>1, <2>2, ProtocolAssumption
      <4> QED BY <1>1, <2>2, <4>1, SMTT(20) DEF DriveState
    <3> QED BY <1>1, <2>1, <2>2, <3>1, WireKeepsInv
  <2>3. CASE Ends("wedged")
    BY <2>1, <2>3, EndsKeepsInv DEF Outcomes
  <2> QED BY <2>1, <2>2, <2>3
<1>6. CASE RearmedDeadline
  BY <1>6, EndsKeepsInv DEF RearmedDeadline, Outcomes
<1>7. CASE DriveAborts
  BY <1>7, EndsKeepsInv DEF DriveAborts, Outcomes
<1> QED BY <1>2, <1>3, <1>4, <1>5, <1>6, <1>7 DEF Host

-----------------------------------------------------------------------------
(* The guest's control task.                                               *)
LEMMA ReadsPromptKeepsInv == ASSUME ProtocolInv, ReadsPrompt PROVE ProtocolInv'
<1> USE DEF ProtocolInv
<1> DEFINE id == Head(toGuest)
<1>1. /\ toGuest # <<>> /\ id # 0 /\ Prompt(id) /\ toGuest' = Tail(toGuest)
      /\ control' = IF out'.inject THEN [pc |-> "injecting", turn |-> id] ELSE control
      /\ UNCHANGED <<hostVars, toHost, backlog, writer, harness>>
  BY DEF ReadsPrompt, Eof
<1>2. toGuest \in Seq(MaybeId) /\ TypeOK
  BY DEF ProtocolTypes, ProtocolTypeOK
<1>3. id \in TurnIds
  BY <1>1, <1>2 DEF MaybeId
<1> HIDE DEF id
<1>4. /\ turn'.id = id /\ opened'[id] \in Nat
      /\ \A k \in TurnIds : opened[k] <= opened'[k]
      /\ turn.id = id => opened' = opened /\ turn'.ended = turn.ended
                         /\ turn'.terminal = turn.terminal
      /\ turn.id # id => opened'[id] = opened[id] + 1 /\ ~turn'.ended /\ ~turn'.terminal
  BY <1>1, <1>2, <1>3, PromptTakesTheTurn
<1>5. ProtocolTypes'
  <2>1. TypeOK'
    BY <1>1, <1>2, <1>3, SessionTyped DEF Next
  <2>2. toGuest' \in Seq(MaybeId)
    BY <1>1, <1>2
  <2>3. /\ control' \in [pc : {"idle", "injecting", "confirming"}, turn : MaybeId]
        /\ control'.pc # "idle" => control'.turn \in TurnIds
    <3>1. CASE control' = control
      BY <3>1 DEF ProtocolTypes, ProtocolTypeOK
    <3>2. CASE control' = [pc |-> "injecting", turn |-> id]
      BY <1>3, <3>2, IdsAreNaturals
    <3> QED BY <1>1, <3>1, <3>2
  <2>4. ProtocolTypeOK'
    BY <1>1, <2>1, <2>2, <2>3 DEF ProtocolTypes, ProtocolTypeOK, hostVars, harness
  <2> QED BY <1>1, <2>3, <2>4 DEF ProtocolTypes, harness
<1>6. Arrives(id)
  <2>1. opened'[id] > 0
    <3>1. CASE turn.id = id
      BY <1>3, <1>4, <3>1, TurnIdsAssumption DEF PromptsInOrder, Past
    <3>2. CASE turn.id # id
      BY <1>2, <1>3, <1>4, <3>2 DEF TypeOK
    <3> QED BY <3>1, <3>2
  <2> QED BY <1>1, <1>4, <2>1 DEF Arrives, Eof, id
<1>7. PromptsInOrder'
  <2>1. drive' = drive /\ drive.id \in Nat
    BY <1>1, IdsAreNaturals DEF hostVars, ProtocolTypes, ProtocolTypeOK
  <2>2. Travels
    BY <1>1, <1>4, <1>6, <2>1 DEF Travels
  <2>3. control'.turn = control.turn \/ Arrives(control'.turn)
    BY <1>1, <1>6
  <2> QED BY <1>1, <1>5, <2>2, <2>3, PromptsStay DEF harness
<1>8. drive.id <= drive'.id
  <2>1. drive' = drive /\ drive.id \in Nat
    BY <1>1, IdsAreNaturals DEF hostVars, ProtocolTypes, ProtocolTypeOK
  <2> QED BY <2>1
<1>9. StopsShow'
  BY <1>1, <1>3, <1>5, <1>8, StopsStillShow DEF harness
<1>10. Matures
  BY <1>1, NothingMatures DEF ProtocolInv, harness
<1>11. TurnIsTrue'
  <2>1. CASE turn.id = id
    <3>1. (StoppedSince(turn.id) => StoppedSince(turn.id)') /\ (Earned(turn.id) => Earned(turn.id)')
      BY <1>1, <1>4, <2>1 DEF StoppedSince, Earned, harness
    <3> QED BY <1>4, <2>1, <3>1 DEF LinesAreTrue, TurnIsTrue, InFlight
  <2>2. CASE turn.id # id
    BY <1>4, <2>2 DEF TurnIsTrue
  <2> QED BY <2>1, <2>2
<1>12. LinesAreTrue'
  BY <1>1, <1>5, <1>8, <1>10, <1>11, LinesStayTrue DEF hostVars
<1> QED BY <1>5, <1>7, <1>9, <1>12

(* The steps in which the turn goes on, or is closed.  The host rests.     *)
LEMMA SessionKeepsInv ==
  ASSUME ProtocolInv, TypeOK', GoesOn, UNCHANGED <<hostVars, toGuest, backlog, writer>>,
         \/ toHost' = toHost /\ control'.turn \in {control.turn, 0}
         \/ Say(out'.msgs) /\ out'.msgs \in Seq(Truths') /\ control' = control,
         control' \in [pc : {"idle", "injecting", "confirming"}, turn : MaybeId],
         control'.pc # "idle" => control'.turn \in TurnIds,
         \/ running' = running \/ running' = Idle
         \/ inbox # <<>> /\ running' = Head(inbox),
         \/ inbox' = inbox
         \/ inbox # <<>> /\ inbox' = Tail(inbox)
         \/ \E n \in Notification :
              (n.turn = control.turn \/ n.turn = turn.id) /\ inbox' = Append(inbox, n),
         deed' \in [TurnIds -> Deed], Matures,
         (\A id \in TurnIds : deed'[id].stopped = deed[id].stopped) \/ StopsShow',
         TurnIsTrue'
  PROVE  ProtocolInv'
<1> USE DEF ProtocolInv
<1>1. toHost' \in Seq(Message)
  <2>1. toHost \in Seq(Message) /\ out'.msgs \in Seq(Message)
    BY DEF ProtocolTypes, ProtocolTypeOK, TypeOK, Outcome
  <2>2. toHost \o out'.msgs \in Seq(Message)
    BY <2>1, ConcatProperties
  <2> QED BY <2>1, <2>2 DEF Say
<1>2. inbox \in Seq(Notification) /\ running \in Notification \cup {Idle}
  BY DEF ProtocolTypes, ProtocolTypeOK
<1>3. inbox' \in Seq(Notification) /\ running' \in Notification \cup {Idle}
  <2>1. \A n \in Notification : Append(inbox, n) \in Seq(Notification)
    BY <1>2, AppendIsTyped
  <2>2. inbox # <<>> => Head(inbox) \in Notification /\ Tail(inbox) \in Seq(Notification)
    BY <1>2
  <2> QED BY <1>2, <2>1, <2>2
<1>4. ProtocolTypes'
  <2>1. ProtocolTypeOK'
    BY <1>1, <1>3 DEF ProtocolTypes, ProtocolTypeOK, hostVars
  <2>2. running' # Idle => running'.turn \in TurnIds
    BY <1>3 DEF Notification
  <2> QED BY <2>1, <2>2 DEF ProtocolTypes
<1>5. drive' = drive /\ drive.id \in Nat /\ \A k \in TurnIds : opened[k] \in Nat
  BY IdsAreNaturals DEF hostVars, ProtocolTypes, ProtocolTypeOK, TypeOK
<1>6. PromptsInOrder'
  <2>1. Travels
    BY <1>5 DEF GoesOn, Travels
  <2>2. running'.turn = running.turn \/ running'.turn = 0 \/ (inbox # <<>> /\ running' = Head(inbox))
    BY DEF Idle
  <2> QED BY <1>4, <2>1, <2>2, PromptsStay
<1>7. StopsShow'
  BY <1>4, <1>5, StopsStillShow
<1>8. LinesAreTrue'
  <2>1. toHost' = toHost \/ \E msgs \in Seq(Truths') : toHost' = toHost \o msgs
    BY DEF Say
  <2>2. drive.id <= drive'.id /\ drive'.id = drive.id /\ verdict' = verdict
    BY <1>5 DEF hostVars
  <2> QED BY <1>4, <2>1, <2>2, LinesStayTrue
<1> QED BY <1>4, <1>6, <1>7, <1>8

(* The turn in flight is as true as it was, when it is neither ended nor   *)
(* reported in the step.                                                   *)
LEMMA TurnStaysTrue ==
  ASSUME ProtocolInv, GoesOn, Matures,
         turn'.id # 0 => (turn'.ended => turn.ended) /\ (turn'.terminal => turn.terminal),
         deed' \in [TurnIds -> Deed]
  PROVE  TurnIsTrue'
<1> SUFFICES ASSUME turn'.id # 0
             PROVE  /\ turn'.ended => StoppedSince(turn.id)'
                    /\ turn'.terminal => Earned(turn.id)'
  BY DEF TurnIsTrue, InFlight
<1>1. turn'.id = turn.id /\ turn.id # 0
  BY DEF GoesOn
<1>d. deed' \in [TurnIds -> Deed]
  OBVIOUS
<1>2. \A j \in TurnIds : deed[j].stopped \in Nat /\ deed'[j].stopped \in Nat /\ j \in Nat
  BY IdsAreNaturals DEF ProtocolInv, ProtocolTypes, Deed
<1>3. turn.id \in Nat
  BY IdsAreNaturals DEF ProtocolInv, ProtocolTypes, ProtocolTypeOK, TypeOK, Turn
<1>4. StoppedSince(turn.id) => StoppedSince(turn.id)'
  BY <1>1, <1>2, <1>3 DEF StoppedSince, Matures
<1>5. Earned(turn.id) => Earned(turn.id)'
  <2>1. \A id : Earned(id) => Earned(id)'
    BY <1>d, TruthsStay DEF ProtocolInv
  <2>2. turn'.id = turn.id
    BY <1>1
  <2> QED BY <2>1, <2>2 DEF Earned
<1> QED BY <1>1, <1>4, <1>5 DEF ProtocolInv, LinesAreTrue, TurnIsTrue, InFlight

LEMMA DeliveryKeepsInv ==
  ASSUME ProtocolInv, InjectLands \/ InjectGetsLost \/ InjectFails \/ Confirms
  PROVE  ProtocolInv'
<1>1. /\ control \in [pc : {"idle", "injecting", "confirming"}, turn : MaybeId]
      /\ control.pc # "idle" => control.turn \in TurnIds
      /\ deed \in [TurnIds -> Deed] /\ TypeOK /\ 0 \in MaybeId
  BY DEF ProtocolInv, ProtocolTypes, ProtocolTypeOK, MaybeId
<1>2. CASE InjectLands \/ InjectGetsLost
  <2>1. /\ NoStep /\ UNCHANGED <<hostVars, wire, running, deed>> /\ control.pc = "injecting"
        /\ control' = [control EXCEPT !.pc = "confirming"]
        /\ \/ inbox' = inbox
           \/ inbox' = Append(inbox, [turn |-> control.turn, nudge |-> FALSE])
    BY <1>2 DEF InjectLands, InjectGetsLost, TransportTakesIt, harness
  <2>2. GoesOn /\ TypeOK'
    BY <1>1, <2>1, SessionGoesOn, SessionTyped DEF NoStep
  <2>3. /\ control'.turn = control.turn /\ control'.pc # "idle" => control'.turn \in TurnIds
        /\ control' \in [pc : {"idle", "injecting", "confirming"}, turn : MaybeId]
    BY <1>1, <2>1
  <2>5. Matures
    BY <2>1, NothingMatures DEF ProtocolInv
  <2>6. TurnIsTrue'
    BY <1>1, <2>1, <2>2, <2>5, TurnStaysTrue DEF NoStep
  <2>7. [turn |-> control.turn, nudge |-> FALSE] \in Notification
    BY <1>1, <2>1 DEF Notification
  <2> QED BY <1>1, <2>1, <2>2, <2>3, <2>5, <2>6, <2>7, SessionKeepsInv DEF wire
<1>3. CASE InjectFails \/ Confirms
  <2>1. /\ control.pc # "idle" /\ control' = [pc |-> "idle", turn |-> 0]
        /\ NoStep \/ Injected(control.turn)
        /\ UNCHANGED <<hostVars, wire, harness>>
    BY <1>3 DEF InjectFails, Confirms
  <2>2. GoesOn
    BY <1>1, <2>1, SessionGoesOn DEF NoStep
  <2>3. TypeOK'
    BY <1>1, <2>1, SessionTyped DEF Next
  <2>4. turn'.ended = turn.ended /\ turn'.terminal = turn.terminal
    BY <1>1, <2>1 DEF NoStep, Injected, TypeOK, Turn
  <2>5. Matures
    BY <2>1, NothingMatures DEF ProtocolInv, harness
  <2>6. TurnIsTrue'
    BY <1>1, <2>1, <2>2, <2>4, <2>5, TurnStaysTrue DEF harness
  <2>7. /\ control' \in [pc : {"idle", "injecting", "confirming"}, turn : MaybeId]
        /\ control'.pc = "idle" /\ control'.turn = 0
    BY <1>1, <2>1
  <2> QED BY <1>1, <2>1, <2>2, <2>3, <2>5, <2>6, <2>7, SessionKeepsInv DEF wire, harness
<1> QED BY <1>2, <1>3

(* A grace timer: what it says of the turn is that the agent stopped.      *)
LEMMA GraceFiresKeepsInv ==
  ASSUME ProtocolInv, NEW id \in TurnIds, GraceFires(id)
  PROVE  ProtocolInv'
<1>1. /\ GraceExpired(id) /\ Say(out'.msgs)
      /\ inbox' = IF out'.nudge > 0 THEN Append(inbox, [turn |-> id, nudge |-> TRUE]) ELSE inbox
      /\ UNCHANGED <<hostVars, toGuest, backlog, writer, control, running, deed>>
  BY DEF GraceFires
<1>2. /\ control \in [pc : {"idle", "injecting", "confirming"}, turn : MaybeId]
      /\ control.pc # "idle" => control.turn \in TurnIds
      /\ deed \in [TurnIds -> Deed] /\ TypeOK
  BY DEF ProtocolInv, ProtocolTypes, ProtocolTypeOK
<1>3. GoesOn /\ TypeOK'
  BY <1>1, <1>2, SessionGoesOn, SessionTyped DEF Next
<1>4. Matures
  BY <1>1, NothingMatures DEF ProtocolInv
<1>5. /\ out'.nudge > 0 => turn.id = id
      /\ turn'.id # 0 => (turn'.ended => turn.ended) /\ (turn'.terminal => turn.terminal)
      /\ out'.msgs = <<>> \/ (out'.msgs = <<Completed(id, "unreported")>> /\ turn.id = id /\ turn.ended)
  <2>1. CASE GraceNudges(id)
    BY <1>2, <2>1 DEF GraceNudges, StillUnreported, Nothing, TypeOK, Turn
  <2>2. CASE GraceResolves(id)
    <3>1. /\ turn.id = id /\ turn.ended /\ turn' = NoTurn
          /\ out' = [Nothing EXCEPT !.msgs = <<Completed(id, "unreported")>>, !.persist = "force"]
      BY <2>2 DEF GraceResolves, StillUnreported
    <3>2. out'.nudge = 0 /\ out'.msgs = <<Completed(id, "unreported")>>
      BY <3>1 DEF Nothing
    <3> QED BY <3>1, <3>2 DEF NoTurn, FreshTurn
  <2>3. CASE GraceMoot(id)
    BY <2>3 DEF GraceMoot, Nothing
  <2> QED BY <1>1, <2>1, <2>2, <2>3 DEF GraceExpired
<1>6. TurnIsTrue'
  BY <1>1, <1>2, <1>3, <1>4, <1>5, TurnStaysTrue
<1>7. out'.msgs \in Seq(Truths')
  <2>1. CASE out'.msgs = <<>>
    BY <2>1
  <2>2. CASE out'.msgs = <<Completed(id, "unreported")>> /\ turn.id = id /\ turn.ended
    <3>1. StoppedSince(id)
      BY <2>2, TurnIdsAssumption DEF ProtocolInv, LinesAreTrue, TurnIsTrue, InFlight
    <3>2. StoppedSince(id)'
      BY <1>1, <3>1 DEF StoppedSince
    <3>3. Completed(id, "unreported") \in Truths'
      BY <3>2, NewsTyped DEF Truths, Completed
    <3> QED BY <2>2, <3>3
  <2> QED BY <1>5, <2>1, <2>2
<1>8. \/ inbox' = inbox
      \/ \E n \in Notification :
           (n.turn = control.turn \/ n.turn = turn.id) /\ inbox' = Append(inbox, n)
  <2>1. [turn |-> id, nudge |-> TRUE] \in Notification /\ [turn |-> id, nudge |-> TRUE].turn = id
    BY DEF Notification
  <2> QED BY <1>1, <1>5, <2>1
<1> QED BY <1>1, <1>2, <1>3, <1>4, <1>6, <1>7, <1>8, SessionKeepsInv

LEMMA AcceptsKeepsInv == ASSUME ProtocolInv, Accepts \/ HangUp PROVE ProtocolInv'
<1>1. /\ drive \in DriveState /\ drive.id <= drive.id
      /\ verdict \in Outcomes /\ backlog \in Seq(TurnIds) /\ writer \in MaybeId
  <2>1. drive.id \in Nat
    BY IdsAreNaturals DEF ProtocolInv, ProtocolTypes, ProtocolTypeOK
  <2> QED BY <2>1 DEF ProtocolInv, ProtocolTypes, ProtocolTypeOK, DriveState
<1>2. CASE Accepts
  <2>1. /\ backlog # <<>> /\ writer' = Head(backlog) /\ backlog' = Tail(backlog)
        /\ toHost' = Append(toHost, SessionIsReady) \/ toHost' = toHost
        /\ NoStep /\ UNCHANGED <<hostVars, toGuest, control, harness>>
    BY <1>2 DEF Accepts
  <2>2. writer' \in MaybeId /\ backlog' \in Seq(TurnIds)
    BY <1>1, <2>1 DEF MaybeId
  <2> QED BY <1>1, <2>1, <2>2, WireKeepsInv DEF hostVars
<1>3. CASE HangUp
  <2>1. /\ writer' = 0 /\ toGuest # <<>> /\ toGuest' = Tail(toGuest)
        /\ NoStep /\ UNCHANGED <<hostVars, toHost, backlog, control, harness>>
    BY <1>3 DEF HangUp
  <2> QED BY <1>1, <2>1, WireKeepsInv DEF hostVars, MaybeId
<1> QED BY <1>2, <1>3

-----------------------------------------------------------------------------
(* The harness.                                                            *)
LEMMA BeginsKeepsInv == ASSUME ProtocolInv, ArmsSession \/ Begins PROVE ProtocolInv'
<1>1. /\ control \in [pc : {"idle", "injecting", "confirming"}, turn : MaybeId]
      /\ control.pc # "idle" => control.turn \in TurnIds
      /\ deed \in [TurnIds -> Deed] /\ TypeOK /\ turn.id \in MaybeId
  BY DEF ProtocolInv, ProtocolTypes, ProtocolTypeOK, TypeOK, Turn
<1>2. CASE ArmsSession
  <2>1. /\ HookSessionReady /\ Say(out'.msgs) /\ turn' = turn
        /\ UNCHANGED <<hostVars, toGuest, backlog, writer, control, harness>>
    BY <1>2 DEF ArmsSession, HookSessionReady
  <2>2. GoesOn /\ TypeOK'
    BY <1>1, <2>1, SessionGoesOn, SessionTyped DEF Next
  <2>3. out'.msgs = <<SessionIsReady>>
    BY <2>1 DEF HookSessionReady, Nothing
  <2>4. out'.msgs \in Seq(Truths')
    <3>1. SessionIsReady \in Truths'
      BY ReadyTyped DEF SessionIsReady, Truths
    <3> QED BY <2>3, <3>1
  <2>5. Matures
    BY <2>1, NothingMatures DEF ProtocolInv, harness
  <2>6. TurnIsTrue'
    BY <1>1, <2>1, <2>2, <2>5, TurnStaysTrue DEF harness
  <2> QED BY <1>1, <2>1, <2>2, <2>4, <2>5, <2>6, SessionKeepsInv DEF harness
<1>3. CASE Begins
  <2>1. /\ inbox # <<>> /\ running' = Head(inbox) /\ inbox' = Tail(inbox)
        /\ HookTurnAccepted /\ Say(out'.msgs)
        /\ UNCHANGED <<hostVars, toGuest, backlog, writer, control, deed>>
    BY <1>3 DEF Begins
  <2>2. GoesOn /\ TypeOK'
    BY <1>1, <2>1, SessionGoesOn, SessionTyped DEF Next
  <2>3. /\ turn'.ended = turn.ended /\ turn'.terminal = turn.terminal
        /\ out'.msgs = <<>> \/ (turn.id # 0 /\ out'.msgs = <<Accepted(turn.id)>>)
    <3>1. CASE HookBegins
      BY <1>1, <3>1 DEF HookBegins, InFlight, Nothing, TypeOK, Turn
    <3>2. CASE HookBegunAlready
      BY <3>2 DEF HookBegunAlready, Nothing
    <3> QED BY <2>1, <3>1, <3>2 DEF HookTurnAccepted
  <2>4. out'.msgs \in Seq(Truths')
    <3>1. CASE out'.msgs = <<>>
      BY <3>1
    <3>2. CASE turn.id # 0 /\ out'.msgs = <<Accepted(turn.id)>>
      <4>1. Accepted(turn.id) \in Truths'
        BY <1>1, <3>2, NewsTyped DEF Accepted, Truths, MaybeId
      <4> QED BY <3>2, <4>1
    <3> QED BY <2>3, <3>1, <3>2
  <2>5. Matures
    BY <2>1, NothingMatures DEF ProtocolInv
  <2>6. TurnIsTrue'
    BY <1>1, <2>1, <2>2, <2>3, <2>5, TurnStaysTrue
  <2> QED BY <1>1, <2>1, <2>2, <2>4, <2>5, <2>6, SessionKeepsInv
<1> QED BY <1>2, <1>3

(* A report: when it is terminal and names its turn, that turn's agent has *)
(* claimed it, whatever turn is in flight.                                 *)
LEMMA ReportsKeepsInv ==
  ASSUME ProtocolInv, NEW status \in Statuses, NEW tagged \in Tags, Reports(status, tagged)
  PROVE  ProtocolInv'
<1> DEFINE tag == IF tagged THEN running.turn ELSE 0
<1>1. /\ running # Idle /\ Report(status, tag) /\ Say(out'.msgs)
      /\ deed' = [deed EXCEPT ![running.turn] = Told(@, status, tagged)]
      /\ UNCHANGED <<hostVars, toGuest, backlog, writer, control, inbox, running>>
  BY DEF Reports
<1>2. /\ control \in [pc : {"idle", "injecting", "confirming"}, turn : MaybeId]
      /\ control.pc # "idle" => control.turn \in TurnIds
      /\ deed \in [TurnIds -> Deed] /\ TypeOK /\ turn.id \in MaybeId /\ running.turn \in TurnIds
      /\ drive.id \in MaybeId /\ drive' = drive
  BY <1>1 DEF ProtocolInv, ProtocolTypes, ProtocolTypeOK, TypeOK, Turn, hostVars
<1>3. /\ tag \in MaybeId /\ tag \in {0, running.turn}
      /\ tagged \in BOOLEAN /\ (tagged => tag = running.turn) /\ (~tagged => tag = 0)
  BY <1>2, ProtocolAssumption DEF MaybeId
<1> HIDE DEF tag
<1>n. running.turn \in Nat /\ drive.id \in Nat /\ \A k \in TurnIds : k \in Nat
  BY <1>2, IdsAreNaturals
<1>4. GoesOn /\ TypeOK'
  BY <1>1, <1>2, <1>3, SessionGoesOn, SessionTyped DEF Next
<1>5. /\ deed' \in [TurnIds -> Deed]
      /\ \A id \in TurnIds : /\ deed'[id].stopped = deed[id].stopped
                             /\ deed[id].claimed => deed'[id].claimed
                             /\ deed'[id].lent \in {deed[id].lent, drive.id}
      /\ status \in Terminal => deed'[running.turn].claimed
      /\ status \in Terminal /\ ~tagged => deed'[running.turn].lent = drive.id
  <2> DEFINE was == deed[running.turn]
             now == Told(was, status, tagged)
  <2>1. was \in Deed
    BY <1>2
  <2>2. deed' = [deed EXCEPT ![running.turn] = now]
    BY <1>1, <1>2
  <2>3. /\ now \in Deed /\ now.stopped = was.stopped /\ now.lent \in {was.lent, drive.id}
        /\ was.claimed => now.claimed
        /\ status \in Terminal => now.claimed /\ (~tagged => now.lent = drive.id)
    <3> HIDE DEF was
    <3>1. CASE status \in Terminal
      <4>1. now = [was EXCEPT !.claimed = TRUE, !.lent = IF tagged THEN was.lent ELSE drive.id]
        BY <2>1, <3>1 DEF Told, Deed
      <4> QED BY <1>2, <2>1, <3>1, <4>1 DEF Deed
    <3>2. CASE status \notin Terminal
      <4>1. now = [was EXCEPT !.spoke = IF tagged THEN was.spoke ELSE drive.id]
        BY <2>1, <3>2 DEF Told, Deed
      <4> QED BY <1>2, <2>1, <3>2, <4>1 DEF Deed
    <3> QED BY <3>1, <3>2
  <2> HIDE DEF now
  <2>4. /\ deed' \in [TurnIds -> Deed] /\ deed'[running.turn] = now
        /\ \A id \in TurnIds : id # running.turn => deed'[id] = deed[id]
    BY <1>2, <2>2, <2>3
  <2> QED BY <2>3, <2>4
<1>6. Matures
  <2>1. \A id \in TurnIds : /\ deed[id].stopped \in Nat /\ deed[id].lent \in Nat
                            /\ deed[id].lent <= drive.id
    BY <1>2, IdsAreNaturals DEF Deed, ProtocolInv, LinesAreTrue, LentSoFar
  <2>2. drive.id \in Nat
    BY <1>2, IdsAreNaturals
  <2> QED BY <1>5, <2>1, <2>2 DEF Matures
<1>7. ASSUME status \in Terminal, NEW id \in TurnIds, running.turn <= id, id <= drive.id,
             tag \in {0, id}
      PROVE  Earned(id)'
  <2>1. CASE id = running.turn
    BY <1>5, <1>7, <2>1 DEF Earned
  <2>2. CASE id # running.turn
    <3>1. tag = 0 /\ ~tagged
      BY <1>2, <1>3, <1>7, <2>2, TurnIdsAssumption
    <3>2. running.turn < id
      BY <1>n, <1>7, <2>2
    <3>3. deed'[running.turn].lent >= id
      BY <1>5, <1>7, <1>n, <3>1
    <3> QED BY <1>2, <3>2, <3>3 DEF Earned
  <2> QED BY <2>1, <2>2
<1>p. running.turn <= drive.id /\ (turn.id # 0 => running.turn <= turn.id /\ turn.id <= drive.id)
  BY DEF ProtocolInv, PromptsInOrder, Past, InFlight
<1>8. Relay(status, tag) \in Truths'
  <2>1. drive.id \in TurnIds /\ drive.id <= drive.id /\ running.turn <= running.turn
    <3>1. drive.id # 0
      BY <1>2, <1>n, <1>p, TurnIdsAssumption
    <3> QED BY <1>2, <1>n, <3>1 DEF MaybeId
  <2>2. ASSUME status \in Terminal, NEW id, id = Meant(tag) PROVE Earned(id)'
    <3>1. CASE tag = 0
      BY <1>7, <1>p, <2>1, <2>2, <3>1 DEF Meant
    <3>2. CASE tag # 0
      BY <1>2, <1>3, <1>7, <1>p, <2>1, <2>2, <3>2 DEF Meant
    <3> QED BY <3>1, <3>2
  <2>3. PICK m : m = Relay(status, tag)
    OBVIOUS
  <2>4. m \in Message
    BY <1>3, <2>3, RelayTyped
  <2>5. m.type = "report" /\ m.note = status /\ m.id = tag
    BY <2>3 DEF Relay
  <2>6. PICK id : id = Meant(m.id)
    OBVIOUS
  <2>7. id = Meant(m.id)'
    BY <1>2, <2>6 DEF Meant
  <2>8. m \in Truths'
    BY <2>2, <2>4, <2>5, <2>6, <2>7 DEF Truths
  <2> QED BY <2>3, <2>8
<1>9. TurnIsTrue' /\ out'.msgs \in Seq(Truths')
  <2>1. CASE ReportTerminal(status, tag)
    <3>1. /\ turn.id # 0 /\ tag \in {0, turn.id} /\ status \in Terminal
          /\ turn' = IF turn.ended THEN NoTurn ELSE [turn EXCEPT !.terminal = TRUE, !.accepted = TRUE]
      BY <2>1 DEF ReportTerminal, Matches, InFlight
    <3>2. out'.msgs = IF turn.ended THEN <<Relay(status, tag), Completed(turn.id, "reported")>>
                                    ELSE <<Relay(status, tag)>>
      BY <2>1 DEF ReportTerminal, Nothing
    <3>3. turn.id \in TurnIds /\ \A id : id = turn.id => Earned(id)'
      <4>1. turn.id \in TurnIds
        BY <1>2, <3>1 DEF MaybeId
      <4> QED BY <1>7, <1>p, <3>1, <4>1
    <3>4. TurnIsTrue'
      <4>1. CASE turn.ended
        BY <3>1, <4>1 DEF TurnIsTrue, InFlight, NoTurn, FreshTurn
      <4>2. CASE ~turn.ended
        <5>1. turn'.id = turn.id /\ ~turn'.ended
          BY <1>2, <3>1, <4>2 DEF TypeOK, Turn
        <5>2. \A id : id = turn.id => StoppedSince(id)' \/ ~turn'.ended
          BY <5>1
        <5> QED BY <3>3, <5>1, <5>2 DEF TurnIsTrue, Earned
      <4> QED BY <4>1, <4>2
    <3>5. Completed(turn.id, "reported") \in Truths'
      <4>1. \A id \in TurnIds : Earned(id)' => Completed(id, "reported") \in Truths'
        BY NewsTyped DEF Completed, Truths
      <4> QED BY <3>3, <4>1
    <3> QED BY <1>8, <3>2, <3>4, <3>5
  <2>2. CASE ReportBegins(status, tag)
    <3>1. turn.id # 0 /\ turn'.ended = turn.ended /\ turn'.terminal = turn.terminal
      BY <1>2, <2>2 DEF ReportBegins, Matches, InFlight, TypeOK, Turn
    <3>2. out'.msgs = <<Accepted(turn.id), Relay(status, tag)>>
      BY <2>2 DEF ReportBegins, Nothing
    <3>3. Accepted(turn.id) \in Truths'
      BY <1>2, <3>1, NewsTyped DEF Accepted, Truths, MaybeId
    <3>4. TurnIsTrue'
      BY <1>4, <1>5, <1>6, <3>1, TurnStaysTrue
    <3> QED BY <1>8, <3>2, <3>3, <3>4
  <2>3. CASE ReportRelayed(status, tag)
    <3>1. turn' = turn /\ out'.msgs = <<Relay(status, tag)>>
      BY <2>3 DEF ReportRelayed, Nothing
    <3>2. TurnIsTrue'
      BY <1>4, <1>5, <1>6, <3>1, TurnStaysTrue
    <3> QED BY <1>8, <3>1, <3>2
  <2> QED BY <1>1, <2>1, <2>2, <2>3 DEF Report
<1> QED BY <1>1, <1>2, <1>4, <1>5, <1>6, <1>9, SessionKeepsInv

(* A Stop: it may end the turn in flight on behalf of an earlier one.      *)
LEMMA StopsKeepsInv == ASSUME ProtocolInv, Stops PROVE ProtocolInv'
<1>1. /\ running # Idle /\ running' = Idle /\ HookTurnEnded /\ Say(out'.msgs)
      /\ deed' = [deed EXCEPT ![running.turn].stopped = drive.id]
      /\ UNCHANGED <<hostVars, toGuest, backlog, writer, control, inbox>>
  BY DEF Stops
<1>2. /\ control \in [pc : {"idle", "injecting", "confirming"}, turn : MaybeId]
      /\ control.pc # "idle" => control.turn \in TurnIds
      /\ deed \in [TurnIds -> Deed] /\ TypeOK /\ turn.id \in MaybeId /\ running.turn \in TurnIds
      /\ drive.id \in MaybeId /\ drive.id \in Nat /\ drive' = drive
  BY <1>1, IdsAreNaturals DEF ProtocolInv, ProtocolTypes, ProtocolTypeOK, TypeOK, Turn, hostVars
<1>3. GoesOn /\ TypeOK'
  BY <1>1, <1>2, SessionGoesOn, SessionTyped DEF Next
<1>4. /\ deed' \in [TurnIds -> Deed] /\ deed'[running.turn].stopped = drive.id
      /\ \A id \in TurnIds : deed'[id].claimed = deed[id].claimed /\ deed'[id].lent = deed[id].lent
      /\ \A id \in TurnIds : id # running.turn => deed'[id].stopped = deed[id].stopped
  BY <1>1, <1>2 DEF Deed
<1>5. \A id \in TurnIds : deed[id].stopped \in Nat /\ deed[id].stopped <= drive.id /\ deed[id].lent \in Nat
  BY <1>2, IdsAreNaturals DEF Deed, ProtocolInv, StopsShow
<1>6. Matures
  BY <1>4, <1>5 DEF Matures
<1>7. /\ turn'.id # 0 => turn'.ended /\ turn'.terminal = turn.terminal /\ turn'.id = turn.id
      /\ out'.msgs = <<>> \/ (turn.id # 0 /\ turn.terminal /\ out'.msgs = <<Completed(turn.id, "reported")>>)
  <2>1. CASE StopConcludes
    <3>1. turn' = NoTurn /\ turn.id # 0 /\ turn.terminal
      BY <2>1 DEF StopConcludes, InFlight
    <3>2. out'.msgs = <<Completed(turn.id, "reported")>>
      BY <2>1 DEF StopConcludes, Nothing
    <3> QED BY <3>1, <3>2 DEF NoTurn, FreshTurn
  <2>2. CASE StopOpensGrace
    BY <1>2, <2>2 DEF StopOpensGrace, Nothing, TypeOK, Turn
  <2>3. CASE StopAgain
    BY <2>3 DEF StopAgain, Nothing
  <2>4. CASE StopBetweenTurns
    BY <2>4 DEF StopBetweenTurns, Nothing, InFlight
  <2> QED BY <1>1, <2>1, <2>2, <2>3, <2>4 DEF HookTurnEnded
<1>8. StopsShow'
  <2> SUFFICES ASSUME NEW id \in TurnIds
               PROVE  /\ deed'[id].stopped <= drive.id
                      /\ deed'[id].stopped # 0 =>
                           opened[id] > 0 /\ (opened[id] = 1 /\ turn'.id = id => turn'.ended)
    BY <1>2, <1>3 DEF StopsShow, GoesOn
  <2>1. turn'.id = id => turn'.ended
    BY <1>7, TurnIdsAssumption
  <2>2. CASE id = running.turn
    <3>1. opened[id] > 0
      BY <1>2, <2>2, TurnIdsAssumption DEF ProtocolInv, PromptsInOrder, Past
    <3> QED BY <1>2, <1>4, <2>1, <2>2, <3>1
  <2>3. CASE id # running.turn
    BY <1>4, <1>5, <2>1, <2>3 DEF ProtocolInv, StopsShow
  <2> QED BY <2>2, <2>3
<1>9. \A id : Earned(id) => Earned(id)'
  BY <1>4, <1>6, TruthsStay DEF ProtocolInv
<1>10. TurnIsTrue'
  <2> SUFFICES ASSUME turn'.id # 0
               PROVE  StoppedSince(turn.id)' /\ (turn'.terminal => Earned(turn.id)')
    BY DEF TurnIsTrue, InFlight
  <2>1. turn'.id = turn.id /\ turn.id # 0 /\ turn'.terminal = turn.terminal
    BY <1>7
  <2>2. running.turn <= turn.id /\ turn.id <= drive.id
    BY <2>1 DEF ProtocolInv, PromptsInOrder, Past, InFlight
  <2>3. StoppedSince(turn.id)'
    BY <1>2, <1>4, <2>1, <2>2 DEF StoppedSince
  <2>4. turn.terminal => Earned(turn.id)
    BY <2>1 DEF ProtocolInv, LinesAreTrue, TurnIsTrue, InFlight
  <2>5. Earned(turn.id) => Earned(turn.id)'
    BY <1>9, <2>1 DEF Earned
  <2> QED BY <2>1, <2>3, <2>4, <2>5
<1>11. out'.msgs \in Seq(Truths')
  <2>1. CASE out'.msgs = <<>>
    BY <2>1
  <2>2. CASE turn.id # 0 /\ turn.terminal /\ out'.msgs = <<Completed(turn.id, "reported")>>
    <3>1. turn.id \in TurnIds /\ Earned(turn.id)
      BY <1>2, <2>2 DEF ProtocolInv, LinesAreTrue, TurnIsTrue, InFlight, MaybeId
    <3>2. \A id \in TurnIds : Earned(id)' => Completed(id, "reported") \in Truths'
      BY NewsTyped DEF Completed, Truths
    <3> QED BY <1>9, <2>2, <3>1, <3>2
  <2> QED BY <1>7, <2>1, <2>2
<1> QED BY <1>1, <1>2, <1>3, <1>4, <1>6, <1>8, <1>10, <1>11, SessionKeepsInv

-----------------------------------------------------------------------------
(* ProtocolInv holds initially, and is kept by every step.                 *)
LEMMA ProtocolInitSafe == ProtocolInit => ProtocolInv
<1> SUFFICES ASSUME ProtocolInit PROVE ProtocolInv
  OBVIOUS
<1>1. /\ turn = NoTurn /\ drive = NoDrive /\ verdict = "none"
      /\ toHost = <<>> /\ toGuest = <<>> /\ backlog = <<>> /\ writer = 0
      /\ control = [pc |-> "idle", turn |-> 0] /\ inbox = <<>> /\ running = Idle
      /\ deed = [i \in TurnIds |-> [stopped |-> 0, claimed |-> FALSE, lent |-> 0, spoke |-> 0]]
  BY DEF ProtocolInit, Init
<1>2. TypeOK
  BY InitTyped DEF ProtocolInit
<1>3. drive \in DriveState /\ drive.id = 0
  BY <1>1, ProtocolAssumption DEF NoDrive, DriveState, MaybeId
<1>4. ProtocolTypeOK
  BY <1>1, <1>2, <1>3 DEF ProtocolTypeOK, DriveState, Outcomes, MaybeId
<1>5. ProtocolTypes
  BY <1>1, <1>4 DEF ProtocolTypes, Deed, MaybeId
<1>6. turn.id = 0 /\ control.turn = 0 /\ running.turn = 0
  BY <1>1 DEF NoTurn, FreshTurn, Idle
<1>7. PromptsInOrder
  <2>1. Past(0)
    BY <1>1, <1>3, <1>6 DEF Past, Upto, InFlight
  <2> QED BY <1>1, <1>6, <2>1 DEF PromptsInOrder, InOrder
<1>8. StopsShow
  BY <1>1, <1>3 DEF StopsShow
<1>9. LinesAreTrue
  BY <1>1, <1>3, <1>6 DEF LinesAreTrue, TurnIsTrue, InFlight, VerdictIsTrue, LentSoFar
<1> QED BY <1>5, <1>7, <1>8, <1>9 DEF ProtocolInv

LEMMA ProtocolInvStep == ProtocolInv /\ [ProtocolNext]_sysVars => ProtocolInv'
<1> SUFFICES ASSUME ProtocolInv, [ProtocolNext]_sysVars PROVE ProtocolInv'
  OBVIOUS
<1>1. CASE Host
  BY <1>1, HostKeepsInv
<1>2. CASE Guest
  BY <1>2, AcceptsKeepsInv, ReadsPromptKeepsInv, DeliveryKeepsInv, GraceFiresKeepsInv DEF Guest
<1>3. CASE Harness
  BY <1>3, BeginsKeepsInv, ReportsKeepsInv, StopsKeepsInv DEF Harness
<1>4. CASE UNCHANGED sysVars
  <2>1. /\ UNCHANGED <<turn, ready, record, grace, opened, out, drive, verdict, toHost, toGuest>>
        /\ UNCHANGED <<backlog, writer, control, inbox, running, deed>>
    BY <1>4 DEF sysVars, vars, hostVars, wire, harness
  <2>2. ProtocolTypes'
    BY <2>1 DEF ProtocolInv, ProtocolTypes, ProtocolTypeOK, TypeOK
  <2>3. PromptsInOrder'
    BY <2>1 DEF ProtocolInv, PromptsInOrder, InOrder, Past, Upto, InFlight, Handed
  <2>4. StopsShow'
    BY <2>1 DEF ProtocolInv, StopsShow
  <2>5. LinesAreTrue'
    BY <2>1 DEF ProtocolInv, LinesAreTrue, TurnIsTrue, InFlight, Truths, VerdictIsTrue,
                LentSoFar, Earned, Meant, StoppedSince
  <2> QED BY <2>2, <2>3, <2>4, <2>5 DEF ProtocolInv
<1> QED BY <1>1, <1>2, <1>3, <1>4 DEF ProtocolNext

LEMMA ProtocolSafe == ProtocolSpec => []ProtocolInv
  BY ProtocolInitSafe, ProtocolInvStep, PTL DEF ProtocolSpec

(* Both ends and the lines between them stay typed, and a prompt is resent *)
(* at most Retries times.                                                  *)
THEOREM ProtocolTypeCorrect == ProtocolSpec => []ProtocolTypeOK
<1>1. ProtocolInv => ProtocolTypeOK
  BY DEF ProtocolInv, ProtocolTypes
<1> QED BY <1>1, ProtocolSafe, PTL

(* A drive ends with "the agent stopped without a terminal report" only    *)
(* when, since it began, the agent has stopped, whether or not reports are *)
(* tagged.                                                                 *)
THEOREM StoppedVerdictsAreEarned == ProtocolSpec => []StoppedMeansAStop
<1>1. ProtocolInv => StoppedMeansAStop
  BY DEF ProtocolInv, LinesAreTrue, VerdictIsTrue, StoppedSince, StoppedMeansAStop
<1> QED BY <1>1, ProtocolSafe, PTL

(* Whether or not reports name their turn: a drive succeeds only for a     *)
(* turn about which the agent made a terminal report, or after one on an   *)
(* earlier turn that named none and was made since the drive began.        *)
THEOREM VerdictsAreEarned == ProtocolSpec => []VerdictsAreTrue
<1>1. ProtocolInv => VerdictsAreTrue
  BY DEF ProtocolInv, LinesAreTrue, VerdictIsTrue, Earned, StoppedSince, StoppedMeansAStop,
         SuccessIsEarned, VerdictsAreTrue
<1> QED BY <1>1, ProtocolSafe, PTL

(* A step that hands the agent a turn it has stopped before opens it anew. *)
LEMMA StepRerunsOnlyAsNewTurn ==
  ASSUME ProtocolInv, [ProtocolNext]_sysVars,
         control.pc = "idle", control'.pc = "injecting", deed[control'.turn].stopped # 0
  PROVE  opened'[control'.turn] > 1
<1> DEFINE id == Head(toGuest)
<1>1. ReadsPrompt
  <2>1. control' # control
    OBVIOUS
  <2>2. CASE Host
    BY <2>1, <2>2 DEF Host, DriveStarts, GateOpens, DriveReads, DeliveryDeadline,
                      RearmedDeadline, DriveAborts
  <2>3. CASE Harness
    BY <2>1, <2>3 DEF Harness, ArmsSession, Begins, Reports, Stops
  <2>4. CASE Guest
    BY <2>1, <2>4 DEF Guest, Accepts, HangUp, InjectLands, InjectGetsLost, TransportTakesIt,
                      InjectFails, Confirms, GraceFires
  <2>5. CASE UNCHANGED sysVars
    BY <2>1, <2>5 DEF sysVars
  <2> QED BY <2>2, <2>3, <2>4, <2>5 DEF ProtocolNext
<1>2. /\ toGuest # <<>> /\ id # 0 /\ Prompt(id)
      /\ control' = IF out'.inject THEN [pc |-> "injecting", turn |-> id] ELSE control
  BY <1>1 DEF ReadsPrompt, Eof
<1>3. toGuest \in Seq(MaybeId) /\ TypeOK
  BY DEF ProtocolInv, ProtocolTypes, ProtocolTypeOK
<1>4. id \in TurnIds
  BY <1>2, <1>3 DEF MaybeId
<1> HIDE DEF id
<1>5. out'.inject /\ control'.turn = id
  BY <1>2
<1>6. /\ deed[id].stopped # 0 /\ opened[id] > 0 /\ opened[id] \in Nat
      /\ opened[id] = 1 /\ turn.id = id => turn.ended
  BY <1>3, <1>4, <1>5 DEF ProtocolInv, StopsShow, TypeOK
<1>7. CASE PromptRetry(id) \/ PromptReinject(id)
  <2>1. turn.id = id /\ ~turn.ended /\ opened' = opened
    BY <1>7 DEF PromptRetry, PromptReinject, Undelivered, Unbegun
  <2> QED BY <1>5, <1>6, <2>1
<1>8. CASE PromptDropped(id)
  <2>1. ~out'.inject
    BY <1>8 DEF PromptDropped, Nothing
  <2> QED BY <1>5, <2>1
<1>9. CASE PromptOpens(id)
  <2>1. opened' = [opened EXCEPT ![id] = @ + 1]
    BY <1>9 DEF PromptOpens
  <2>2. opened'[id] = opened[id] + 1
    BY <1>3, <1>4, <2>1 DEF TypeOK
  <2> QED BY <1>5, <1>6, <2>2
<1> QED BY <1>2, <1>7, <1>8, <1>9 DEF Prompt

(* The turn the agent has stopped is injected again only as a new turn:    *)
(* the resends of a turn that has run are dropped, by Session::step.       *)
THEOREM NoTurnIsRerun == ProtocolSpec => RerunsOnlyAsNewTurn
<1>1. ProtocolInv /\ [ProtocolNext]_sysVars =>
        (control.pc = "idle" /\ control'.pc = "injecting" /\ deed[control'.turn].stopped # 0
           => opened'[control'.turn] > 1)
  BY StepRerunsOnlyAsNewTurn
<1> QED BY <1>1, ProtocolSafe, PTL DEF ProtocolSpec, RerunsOnlyAsNewTurn
=============================================================================
