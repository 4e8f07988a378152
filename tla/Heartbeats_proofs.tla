--------------------------- MODULE Heartbeats_proofs ---------------------------
(***************************************************************************)
(* Proofs about the guest's heartbeats.  Of the set: what is loaded, what  *)
(* runs and what is known to be broken fit together after every scan, for  *)
(* any files and any edits.  Of the tasks and the coordinator: what is     *)
(* reported of the work is current, rests on a recent beat, and never      *)
(* takes a task that is alive for dead; for any number of heartbeats, any  *)
(* intervals and timeouts, and bodies that take any time within them.      *)
(***************************************************************************)
EXTENDS HeartbeatSet, WorkState, SequenceTheorems, TLAPS

-----------------------------------------------------------------------------
(* The set of heartbeats.                                                  *)

\* The inductive invariant: a file counts as reported exactly while it is
\* known to be broken.
SaidOfBroken ==
  /\ said = [p \in Reported |-> IF p \in broken THEN 1 ELSE 0]
  /\ \A p \in Reported : bad[p] => p \in broken

SetInv == SetTypeOK /\ SaidOfBroken

-----------------------------------------------------------------------------
\* An evaluation of any scan that takes no path for both valid and broken.
LEMMA AppliesKeepsInv ==
  ASSUME SetInv, NEW valid \in SUBSET Paths, NEW errors \in SUBSET Reported,
         valid \cap errors = {}, \A p \in valid : files[p] \in Bodies,
         Applies(valid, errors)
  PROVE  SetInv'
<1> DEFINE started == valid \ Kept(valid)
           fresh == errors \ StillBroken(started)
<1> USE DEF SetInv
<1>1. /\ loaded' = Kept(valid) \cup started
      /\ broken' = StillBroken(started) \cup fresh
      /\ handles' = [p \in Paths |-> IF p \in started THEN files[p]
                                     ELSE IF p \in Kept(valid) THEN handles[p] ELSE "none"]
      /\ said' = [p \in Reported |-> (IF p \in started THEN 0 ELSE said[p])
                                     + (IF p \in fresh THEN 1 ELSE 0)]
      /\ bad' = [p \in Reported |-> p \in errors]
      /\ scan' = [pc |-> "sleep", listed |-> {}]
      /\ UNCHANGED <<files, listable, edits>>
  BY DEF Applies
<1>2. loaded' = valid /\ started = valid \ loaded
  BY <1>1 DEF Kept
<1>3. broken' = (broken \ started) \cup errors
  BY <1>1 DEF StillBroken
<1>4. loaded' \cap broken' = {}
  BY <1>2, <1>3 DEF SetTypeOK
<1>5. handles' \in [Paths -> Bodies \cup {"none"}]
  BY <1>1, <1>2 DEF SetTypeOK
<1>6. \A p \in Paths : p \in loaded' <=> handles'[p] # "none"
  BY <1>1, <1>2, HeartbeatSetAssumption DEF SetTypeOK, Kept
<1>7. SetTypeOK'
  BY <1>1, <1>2, <1>3, <1>4, <1>5, <1>6 DEF SetTypeOK, Reported
<1>8. \A p \in Reported : (IF p \in started THEN 0 ELSE said[p]) + (IF p \in fresh THEN 1 ELSE 0)
                          = IF p \in broken' THEN 1 ELSE 0
  <2> SUFFICES ASSUME NEW p \in Reported
               PROVE  (IF p \in started THEN 0 ELSE said[p]) + (IF p \in fresh THEN 1 ELSE 0)
                      = IF p \in broken' THEN 1 ELSE 0
    OBVIOUS
  <2>1. said[p] = IF p \in broken THEN 1 ELSE 0
    BY DEF SaidOfBroken
  <2>2. p \in fresh <=> p \in errors /\ (p \notin broken \/ p \in started)
    BY DEF StillBroken
  <2>3. p \in started => p \notin errors
    BY <1>2
  <2> QED BY <1>3, <2>1, <2>2, <2>3
<1>9. SaidOfBroken'
  <2> HIDE DEF started, fresh
  <2>1. said' = [p \in Reported |-> IF p \in broken' THEN 1 ELSE 0]
    BY <1>1, <1>8
  <2>2. bad' = [p \in Reported |-> p \in errors] /\ errors \subseteq broken'
    BY <1>1, <1>3
  <2>3. \A p \in Reported : bad'[p] => p \in broken'
    BY <2>2, Zenon
  <2> QED BY <2>1, <2>3 DEF SaidOfBroken, Reported
<1> QED BY <1>7, <1>9

LEMMA SetInvStep == SetInv /\ [SetNext]_setVars => SetInv'
<1> SUFFICES ASSUME SetInv, [SetNext]_setVars PROVE SetInv'
  OBVIOUS
<1> USE DEF SetInv
<1>1. ASSUME NEW p \in Paths, NEW c \in Contents, Edits(p, c)
      PROVE  SetInv'
  BY <1>1 DEF Edits, SetTypeOK, SaidOfBroken
<1>2. CASE DirectoryFlips
  BY <1>2 DEF DirectoryFlips, SetTypeOK, SaidOfBroken
<1>3. CASE Lists
  BY <1>3 DEF Lists, SetTypeOK, SaidOfBroken
<1>4. CASE Reads
  <2> DEFINE valid == {p \in scan.listed : files[p] \in Bodies}
  <2>1. valid \in SUBSET Paths /\ scan.listed \ valid \in SUBSET Reported
    BY DEF SetTypeOK, Reported
  <2>2. Applies(valid, scan.listed \ valid)
    BY <1>4 DEF Reads
  <2>3. valid \cap (scan.listed \ valid) = {} /\ \A p \in valid : files[p] \in Bodies
    OBVIOUS
  <2> HIDE DEF valid
  <2> QED BY <2>1, <2>2, <2>3, AppliesKeepsInv
<1>5. CASE CannotList
  <2>1. Applies({}, {Dir})
    BY <1>5 DEF CannotList
  <2>2. {Dir} \in SUBSET Reported
    BY DEF Reported
  <2> QED BY <2>1, <2>2, AppliesKeepsInv
<1>6. CASE UNCHANGED setVars
  BY <1>6 DEF setVars, SetTypeOK, SaidOfBroken
<1> QED BY <1>1, <1>2, <1>3, <1>4, <1>5, <1>6 DEF SetNext

-----------------------------------------------------------------------------
(* After every scan, whatever was edited while it ran: the loaded paths    *)
(* are those with a task, none of them is known to be broken, and what is  *)
(* broken has been reported exactly once: SetIsConsistent.                 *)
THEOREM HeartbeatSetStaysConsistent == SetSpec => []SetIsConsistent
<1>1. SetInit => SetInv
  BY DEF SetInit, SetInv, SetTypeOK, SaidOfBroken, Reported
<1>2. SetInv /\ [SetNext]_setVars => SetInv'
  BY SetInvStep
<1>3. SetInv => SetIsConsistent
  BY DEF SetInv, SaidOfBroken, SetIsConsistent, ReportedOncePerBreak
<1> QED BY <1>1, <1>2, <1>3, PTL DEF SetSpec

-----------------------------------------------------------------------------
(* The work state.  Intervals, bounds and ages.                            *)

LEMMA BoundIsNat ==
  ASSUME NEW i \in Nat
  PROVE  /\ Bound(i) \in Nat /\ TooOld(i) \in Nat /\ Bound(i) < TooOld(i)
         /\ Forgotten(i) \in Nat
<1>1. Multiplier \in Nat /\ MaxHeld \in Nat
  BY WorkStateAssumption
<1>2. Multiplier * i \in Nat
  BY <1>1
<1> QED BY <1>1, <1>2 DEF Bound, TooOld, Forgotten

LEMMA BoundGrows ==
  ASSUME NEW i \in Nat, NEW j \in Nat, i <= j
  PROVE  Bound(i) <= Bound(j) /\ TooOld(i) <= TooOld(j)
<1>1. Multiplier \in Nat
  BY WorkStateAssumption
<1>2. Multiplier * i <= Multiplier * j
  BY <1>1
<1>3. Multiplier * i \in Nat /\ Multiplier * j \in Nat
  BY <1>1
<1> QED BY <1>2, <1>3 DEF Bound, TooOld

\* Three intervals fit into the staleness bound.
LEMMA ThreeFit ==
  ASSUME NEW i \in Nat, Multiplier >= 3
  PROVE  i <= Bound(i) /\ i + i + i <= Bound(i)
<1>1. Multiplier \in Nat
  BY WorkStateAssumption
<1>2. 3 * i <= Multiplier * i
  BY <1>1
<1>3. Multiplier * i \in Nat
  BY <1>1
<1> QED BY <1>2, <1>3 DEF Bound

LEMMA IntervalsAreTyped ==
  /\ Longest \in Nat
  /\ \A h \in Senders : /\ Interval[h] \in Nat /\ Interval[h] > 0 /\ Timeout[h] \in Nat
                        /\ Interval[h] <= Longest /\ Label[h] \in Labels
                        /\ TooLong(h) \in Nat /\ Interval[h] <= TooLong(h)
<1>1. /\ Interval \in [Senders -> Nat \ {0}] /\ Timeout \in [Senders -> Nat]
      /\ \E g \in Senders : \A h \in Senders : Interval[h] <= Interval[g]
  BY WorkStateAssumption
<1>2. PICK g \in Senders : \A h \in Senders : Interval[h] <= Interval[g]
  BY <1>1
<1>3. \E i \in {Interval[h] : h \in Senders} : \A h \in Senders : Interval[h] <= i
  BY <1>2
<1>4. Longest \in {Interval[h] : h \in Senders} /\ \A h \in Senders : Interval[h] <= Longest
  BY <1>3 DEF Longest
<1> QED BY <1>1, <1>4 DEF TooLong, Larger, Labels

-----------------------------------------------------------------------------
(* The channel.  What counts of it is the last update for each label.      *)
LastFor(l) ==
  {queue[i] : i \in {k \in DOMAIN queue :
                       /\ queue[k].label = l
                       /\ \A j \in DOMAIN queue : j > k => queue[j].label # l}}

NoneFor(l) == \A i \in DOMAIN queue : queue[i].label # l

LEMMA QueueGrows ==
  ASSUME NEW S, queue \in Seq(S), NEW u \in S, queue' = Append(queue, u)
  PROVE  \A l : /\ LastFor(l)' = IF l = u.label THEN {u} ELSE LastFor(l)
                /\ NoneFor(l)' => NoneFor(l) /\ l # u.label
<1>1. /\ DOMAIN queue = 1..Len(queue) /\ DOMAIN queue' = 1..(Len(queue) + 1)
      /\ Len(queue) \in Nat /\ queue'[Len(queue) + 1] = u
      /\ \A i \in 1..Len(queue) : queue'[i] = queue[i]
  BY AppendProperties, LenProperties
<1>0. \A l : NoneFor(l)' => NoneFor(l) /\ l # u.label
  BY <1>1 DEF NoneFor
<1> SUFFICES ASSUME NEW l PROVE LastFor(l)' = IF l = u.label THEN {u} ELSE LastFor(l)
  BY <1>0
<1> DEFINE K == {k \in DOMAIN queue : /\ queue[k].label = l
                                      /\ \A j \in DOMAIN queue : j > k => queue[j].label # l}
           L == {k \in DOMAIN queue' : /\ queue'[k].label = l
                                       /\ \A j \in DOMAIN queue' : j > k => queue'[j].label # l}
<1>2. CASE l = u.label
  <2>1. L = {Len(queue) + 1}
    BY <1>1, <1>2
  <2> HIDE DEF L
  <2>2. {queue'[i] : i \in L} = {u}
    BY <1>1, <2>1
  <2> QED BY <1>2, <2>2 DEF LastFor, L
<1>3. CASE l # u.label
  <2>1. L = K
    BY <1>1, <1>3
  <2>2. \A i \in K : queue'[i] = queue[i]
    BY <1>1
  <2> HIDE DEF K, L
  <2>3. {queue'[i] : i \in L} = {queue[i] : i \in K}
    BY <2>1, <2>2
  <2> QED BY <1>3, <2>3 DEF LastFor, K, L
<1> QED BY <1>2, <1>3

LEMMA QueueShrinks ==
  ASSUME NEW S, queue \in Seq(S), queue # <<>>, queue' = Tail(queue)
  PROVE  \A l : /\ \/ LastFor(l)' = LastFor(l)
                   \/ l = Head(queue).label /\ LastFor(l) = {Head(queue)} /\ LastFor(l)' = {}
                /\ NoneFor(l)' => \/ l # Head(queue).label /\ NoneFor(l)
                                  \/ l = Head(queue).label /\ LastFor(l) = {Head(queue)}
<1>1. /\ Len(queue) \in Nat /\ Len(queue) > 0 /\ Len(queue') = Len(queue) - 1
      /\ DOMAIN queue = 1..Len(queue) /\ DOMAIN queue' = 1..(Len(queue) - 1)
      /\ \A i \in 1..(Len(queue) - 1) : queue'[i] = queue[i + 1]
      /\ queue[1] = Head(queue)
  BY HeadTailProperties, LenProperties, EmptySeq
<1> SUFFICES ASSUME NEW l
             PROVE  /\ \/ LastFor(l)' = LastFor(l)
                       \/ l = Head(queue).label /\ LastFor(l) = {Head(queue)} /\ LastFor(l)' = {}
                    /\ NoneFor(l)' => \/ l # Head(queue).label /\ NoneFor(l)
                                      \/ l = Head(queue).label /\ LastFor(l) = {Head(queue)}
  OBVIOUS
<1> DEFINE K == {k \in DOMAIN queue : /\ queue[k].label = l
                                      /\ \A j \in DOMAIN queue : j > k => queue[j].label # l}
           L == {k \in DOMAIN queue' : /\ queue'[k].label = l
                                       /\ \A j \in DOMAIN queue' : j > k => queue'[j].label # l}
<1>2. \A k \in 1..(Len(queue) - 1) : k \in L <=> k + 1 \in K
  <2> SUFFICES ASSUME NEW k \in 1..(Len(queue) - 1) PROVE k \in L <=> k + 1 \in K
    OBVIOUS
  <2>1. k + 1 \in DOMAIN queue /\ k \in DOMAIN queue' /\ queue'[k] = queue[k + 1]
    BY <1>1
  <2>2. ASSUME \A j \in DOMAIN queue : j > k + 1 => queue[j].label # l,
               NEW j \in DOMAIN queue', j > k
        PROVE  queue'[j].label # l
    <3>1. j + 1 \in DOMAIN queue /\ j + 1 > k + 1 /\ queue'[j] = queue[j + 1]
      BY <1>1, <2>2
    <3> QED BY <2>2, <3>1
  <2>3. ASSUME \A j \in DOMAIN queue' : j > k => queue'[j].label # l,
               NEW j \in DOMAIN queue, j > k + 1
        PROVE  queue[j].label # l
    <3>1. j - 1 \in DOMAIN queue' /\ j - 1 > k /\ queue'[j - 1] = queue[j]
      BY <1>1, <2>3
    <3> QED BY <2>3, <3>1
  <2> QED BY <2>1, <2>2, <2>3
<1>3. LastFor(l) = {queue[i] : i \in K} /\ LastFor(l)' = {queue'[i] : i \in L}
  BY DEF LastFor
<1>4. K \subseteq 1..Len(queue) /\ L \subseteq 1..(Len(queue) - 1)
  BY <1>1
<1>5. 1 \in K => K = {1} /\ queue[1].label = l
  BY <1>1
<1>8. ASSUME NoneFor(l)'
      PROVE  \A i \in 2..Len(queue) : queue[i].label # l
  <2> SUFFICES ASSUME NEW i \in 2..Len(queue) PROVE queue[i].label # l
    OBVIOUS
  <2>1. i - 1 \in 1..(Len(queue) - 1) /\ (i - 1) + 1 = i
    BY <1>1
  <2>2. queue'[i - 1].label # l /\ queue'[i - 1] = queue[i]
    BY <1>1, <1>8, <2>1 DEF NoneFor
  <2> QED BY <2>2
<1>9. ASSUME NoneFor(l)', l # queue[1].label PROVE NoneFor(l)
  <2>1. \A i \in 1..Len(queue) : i = 1 \/ i \in 2..Len(queue)
    BY <1>1
  <2> QED BY <1>1, <1>8, <1>9, <2>1 DEF NoneFor
<1>10. ASSUME NoneFor(l)', l = queue[1].label PROVE 1 \in K
  <2>1. \A j \in 1..Len(queue) : j > 1 => j \in 2..Len(queue)
    BY <1>1
  <2>2. 1 \in 1..Len(queue)
    BY <1>1
  <2> QED BY <1>1, <1>8, <1>10, <2>1, <2>2
<1> HIDE DEF K, L
<1>6. CASE 1 \in K
  <2>1. L = {}
    <3>1. \A k \in L : k + 1 \in K /\ k + 1 # 1
      BY <1>1, <1>2, <1>4
    <3> QED BY <1>5, <1>6, <3>1
  <2>2. l = Head(queue).label /\ LastFor(l) = {Head(queue)} /\ LastFor(l)' = {}
    BY <1>1, <1>3, <1>5, <1>6, <2>1
  <2> QED BY <2>2
<1>7. CASE 1 \notin K
  <2>1. \A k \in L : queue'[k] = queue[k + 1] /\ k + 1 \in K
    BY <1>1, <1>2, <1>4
  <2>2. \A k \in K : k - 1 \in L /\ queue[k] = queue'[k - 1]
    <3> SUFFICES ASSUME NEW k \in K PROVE k - 1 \in L /\ queue[k] = queue'[k - 1]
      OBVIOUS
    <3>1. k - 1 \in 1..(Len(queue) - 1) /\ (k - 1) + 1 = k
      BY <1>1, <1>4, <1>7
    <3> QED BY <1>1, <1>2, <3>1
  <2>3. {queue[i] : i \in K} = {queue'[i] : i \in L}
    <3>1. ASSUME NEW x \in {queue[i] : i \in K} PROVE x \in {queue'[i] : i \in L}
      <4>1. PICK k \in K : x = queue[k]
        BY <3>1
      <4>2. k - 1 \in L /\ x = queue'[k - 1]
        BY <2>2, <4>1
      <4> QED BY <4>2
    <3>2. ASSUME NEW x \in {queue'[i] : i \in L} PROVE x \in {queue[i] : i \in K}
      <4>1. PICK k \in L : x = queue'[k]
        BY <3>2
      <4>2. k + 1 \in K /\ x = queue[k + 1]
        BY <2>1, <4>1
      <4> QED BY <4>2
    <3> QED BY <3>1, <3>2
  <2>4. LastFor(l)' = LastFor(l)
    BY <1>3, <2>3
  <2>5. NoneFor(l)' => l # Head(queue).label /\ NoneFor(l)
    BY <1>1, <1>7, <1>9, <1>10
  <2> QED BY <2>4, <2>5
<1> QED BY <1>6, <1>7

LEMMA NothingIsLast == queue = <<>> => \A l : LastFor(l) = {} /\ NoneFor(l)
BY DEF LastFor, NoneFor

-----------------------------------------------------------------------------
(* Types.  The channel and the coordinator's map hold what a sender has    *)
(* sent, and the turn heartbeat has no bodies to run.                      *)
SentBy(h, label, interval) == h \in Senders /\ Label[h] = label /\ Interval[h] = interval
SentUpdate == {u \in Update : \E h \in Senders : SentBy(h, u.label, u.interval)}

Sent ==
  /\ DOMAIN task = Senders /\ DOMAIN lastBeat = Senders
  /\ queue \in Seq(SentUpdate)
  /\ \A l \in Labels : beats[l].beating => \E h \in Senders : SentBy(h, l, beats[l].interval)
  /\ TurnBeat \in Senders => task[TurnBeat].pc = "waiting"

TypedAndSent == WorkTypeOK /\ Sent

\* What a task sends, in any state a round of it can be in.
LEMMA SendsIsTyped ==
  ASSUME TypedAndSent, NEW h \in Senders, NEW t \in Task(h), NEW beat \in BOOLEAN, Sends(h, t, beat),
         ~t.beating => t.run = 0,
         UNCHANGED <<beats, coord, state, disk, turn, armed, faults>>
  PROVE  TypedAndSent'
<1> USE DEF TypedAndSent
<1> DEFINE u == [label |-> Label[h], beating |-> beat,
                 late |-> beat /\ t.run >= Timeout[h], interval |-> Interval[h]]
           w == [t EXCEPT !.pc = "waiting", !.body = 0, !.beating = beat, !.run = IF beat THEN @ ELSE 0]
<1>1. /\ task' = [task EXCEPT ![h] = w] /\ queue' = Append(queue, u)
      /\ lastBeat' = [lastBeat EXCEPT ![h] = IF beat THEN 0 ELSE Forgotten(Interval[h])]
  BY DEF Sends
<1>2. u \in Update /\ queue \in Seq(SentUpdate)
  BY IntervalsAreTyped DEF Update, Sent
<1>3. /\ w \in Task(h) /\ (~w.beating => w.run = 0) /\ w.pc = "waiting"
  <2>1. 0 \in 0..Interval[h] /\ 0 \in 0..Timeout[h]
    BY IntervalsAreTyped
  <2>2. CASE beat
    <3>1. w = [t EXCEPT !.pc = "waiting", !.body = 0, !.beating = TRUE]
      BY <2>2 DEF Task
    <3> QED BY <2>1, <2>2, <3>1 DEF Task
  <2>3. CASE ~beat
    <3>1. w = [t EXCEPT !.pc = "waiting", !.body = 0, !.beating = FALSE, !.run = 0]
      BY <2>3 DEF Task
    <3> QED BY <2>1, <3>1 DEF Task
  <2> QED BY <2>2, <2>3
<1>4. u.label = Label[h] /\ u.interval = Interval[h]
  OBVIOUS
<1> HIDE DEF u, w
<1>5. /\ task'[h] = w /\ DOMAIN task' = Senders
      /\ \A g \in Senders : g # h => task'[g] = task[g]
  BY <1>1 DEF Sent
<1>6. /\ DOMAIN lastBeat' = Senders
      /\ \A g \in Senders : lastBeat'[g] \in 0..Forgotten(Interval[g])
  <2>1. Forgotten(Interval[h]) \in Nat
    BY BoundIsNat, IntervalsAreTyped
  <2> QED BY <1>1, <2>1 DEF Sent, WorkTypeOK
<1>7. queue' \in Seq(Update) /\ queue' \in Seq(SentUpdate)
  <2>1. u \in SentUpdate
    BY <1>2, <1>4 DEF SentUpdate, SentBy
  <2>2. queue' \in Seq(SentUpdate)
    BY <1>1, <1>2, <2>1, AppendProperties
  <2> QED BY <2>2, SeqMonotonic DEF SentUpdate
<1>8. WorkTypeOK'
  BY <1>3, <1>5, <1>6, <1>7 DEF WorkTypeOK
<1> QED BY <1>3, <1>5, <1>6, <1>7, <1>8 DEF Sent

\* A task that moves on without sending.
LEMMA MovesIsTyped ==
  ASSUME TypedAndSent, NEW h \in Senders, NEW t \in Task(h), task' = [task EXCEPT ![h] = t],
         ~t.beating => t.run = 0, h = TurnBeat => t.pc = "waiting",
         UNCHANGED <<queue, beats, coord, state, disk, turn, armed, lastBeat>>,
         faults' \in 0..MaxFaults
  PROVE  TypedAndSent'
<1> USE DEF TypedAndSent
<1>1. /\ task'[h] = t /\ DOMAIN task' = Senders
      /\ \A g \in Senders : g # h => task'[g] = task[g]
  BY DEF Sent
<1>2. WorkTypeOK'
  BY <1>1 DEF WorkTypeOK
<1> QED BY <1>1, <1>2 DEF Sent

\* The ticker's round, for any task that is well typed.
LEMMA RoundsIsTyped ==
  ASSUME NEW h \in Senders, NEW t \in Task(h)
  PROVE  /\ Rounds(h, t) \in Task(h) /\ Rounds(h, t).beating = t.beating
         /\ Rounds(h, t).spent = 0 /\ Rounds(h, t).body = 0 /\ Rounds(h, t).pc = t.pc
         /\ ~t.beating => Rounds(h, t).run = 0
<1>1. /\ Timeout[h] \in Nat /\ Interval[h] \in Nat /\ TooLong(h) \in Nat
      /\ t.run \in Nat /\ t.spent \in Nat
  BY IntervalsAreTyped DEF Task
<1>2. Least(t.run + t.spent, Timeout[h]) \in 0..Timeout[h]
  BY <1>1 DEF Least
<1>3. 0 \in 0..TooLong(h) /\ 0 \in 0..Interval[h] /\ 0 \in 0..Timeout[h]
  BY <1>1
<1>4. CASE t.beating
  <2>1. Rounds(h, t) = [t EXCEPT !.spent = 0, !.body = 0,
                                 !.run = Least(t.run + t.spent, Timeout[h])]
    BY <1>4 DEF Rounds, Task
  <2> QED BY <1>2, <1>3, <1>4, <2>1 DEF Task
<1>5. CASE ~t.beating
  <2>1. Rounds(h, t) = [t EXCEPT !.spent = 0, !.body = 0, !.run = 0]
    BY <1>5 DEF Rounds, Task
  <2> QED BY <1>3, <1>5, <2>1 DEF Task
<1> QED BY <1>4, <1>5

LEMMA HeartbeatsAreTyped ==
  ASSUME TypedAndSent,
         \/ \E h \in Senders :
              \/ CheckStarts(h) \/ CheckMisses(h) \/ CheckPasses(h)
              \/ DetailEnds(h) \/ DetailLingers(h) \/ LingererExits(h)
              \/ Aborted(h) \/ Spawned(h)
         \/ TurnTicks
  PROVE  TypedAndSent'
<1>0. \A h \in Senders : /\ 0 \in 0..Interval[h] /\ 0 \in 0..Timeout[h] /\ 0 \in 0..TooLong(h)
                         /\ Interval[h] \in 0..TooLong(h)
  BY IntervalsAreTyped
<1>1. /\ DOMAIN task = Senders /\ faults \in 0..MaxFaults /\ MaxFaults \in Nat
      /\ \A h \in Senders : task[h] \in Task(h) /\ (~task[h].beating => task[h].run = 0)
      /\ TurnBeat \in Senders => task[TurnBeat].pc = "waiting"
  BY WorkStateAssumption DEF TypedAndSent, Sent, WorkTypeOK
<1>2. ASSUME NEW h \in Senders, CheckStarts(h) PROVE TypedAndSent'
  <2> DEFINE t == [Rounds(h, task[h]) EXCEPT !.pc = "checking"]
  <2>1. /\ h # TurnBeat /\ task' = [task EXCEPT ![h] = t]
        /\ UNCHANGED <<queue, beats, coord, state, disk, turn, armed, lastBeat, faults>>
    BY <1>2 DEF CheckStarts, Files
  <2>2. t \in Task(h) /\ (~t.beating => t.run = 0)
    BY <1>1, RoundsIsTyped DEF Task
  <2> HIDE DEF t
  <2> QED BY <1>1, <2>1, <2>2, MovesIsTyped
<1>3. ASSUME NEW h \in Senders, CheckMisses(h) PROVE TypedAndSent'
  BY <1>1, <1>3, SendsIsTyped DEF CheckMisses
<1>4. ASSUME NEW h \in Senders, CheckPasses(h) PROVE TypedAndSent'
  <2>1. CASE Sends(h, task[h], TRUE)
    BY <1>1, <1>4, <2>1, SendsIsTyped DEF CheckPasses
  <2>2. CASE ~Sends(h, task[h], TRUE)
    <3> DEFINE t == [task[h] EXCEPT !.pc = "detailing", !.body = 0]
    <3>1. /\ task[h].pc = "checking" /\ task' = [task EXCEPT ![h] = t]
          /\ UNCHANGED <<queue, beats, coord, state, disk, turn, armed, lastBeat, faults>>
      BY <1>1, <1>4, <2>2 DEF CheckPasses
    <3>2. t \in Task(h) /\ (~t.beating => t.run = 0)
      BY <1>1, <1>0 DEF Task
    <3> HIDE DEF t
    <3> QED BY <1>1, <3>1, <3>2, MovesIsTyped
  <2> QED BY <2>1, <2>2
<1>5. ASSUME NEW h \in Senders, DetailEnds(h) PROVE TypedAndSent'
  BY <1>1, <1>5, SendsIsTyped DEF DetailEnds
<1>6. ASSUME NEW h \in Senders, DetailLingers(h) PROVE TypedAndSent'
  <2> DEFINE t == [task[h] EXCEPT !.pc = "lingering", !.body = 0]
  <2>1. /\ task[h].pc = "detailing" /\ task' = [task EXCEPT ![h] = t]
        /\ UNCHANGED <<queue, beats, coord, state, disk, turn, armed, lastBeat, faults>>
    BY <1>1, <1>6 DEF DetailLingers
  <2>2. t \in Task(h) /\ (~t.beating => t.run = 0)
    BY <1>1, <1>0 DEF Task
  <2> HIDE DEF t
  <2> QED BY <1>1, <2>1, <2>2, MovesIsTyped
<1>7. ASSUME NEW h \in Senders, LingererExits(h) PROVE TypedAndSent'
  BY <1>1, <1>7, SendsIsTyped DEF LingererExits
<1>8. /\ \A h \in Senders : NewTask(h) \in Task(h) /\ [NewTask(h) EXCEPT !.pc = "dead", !.spent = 0] \in Task(h)
  BY <1>0 DEF NewTask, Task
<1>9. ASSUME NEW h \in Senders, Aborted(h) PROVE TypedAndSent'
  <2> DEFINE t == [NewTask(h) EXCEPT !.pc = "dead", !.spent = 0]
  <2>1. /\ h # TurnBeat /\ task' = [task EXCEPT ![h] = t] /\ faults' \in 0..MaxFaults
        /\ UNCHANGED <<queue, beats, coord, state, disk, turn, armed, lastBeat>>
    <3>1. faults < MaxFaults /\ faults' = faults + 1
      BY <1>9 DEF Aborted
    <3>2. faults' \in 0..MaxFaults
      BY <1>1, <3>1
    <3> QED BY <1>9, <3>2 DEF Aborted, Files
  <2>2. t \in Task(h) /\ (~t.beating => t.run = 0)
    BY <1>8 DEF NewTask
  <2> HIDE DEF t
  <2> QED BY <2>1, <2>2, MovesIsTyped
<1>10. ASSUME NEW h \in Senders, Spawned(h) PROVE TypedAndSent'
  <2>1. /\ task' = [task EXCEPT ![h] = NewTask(h)]
        /\ UNCHANGED <<queue, beats, coord, state, disk, turn, armed, lastBeat, faults>>
    BY <1>10 DEF Spawned
  <2>2. NewTask(h) \in Task(h) /\ NewTask(h).run = 0 /\ NewTask(h).pc = "waiting"
    BY <1>8 DEF NewTask
  <2> QED BY <1>1, <2>1, <2>2, MovesIsTyped
<1>11. CASE TurnTicks
  <2>1. /\ TurnBeat \in Senders /\ Sends(TurnBeat, Rounds(TurnBeat, task[TurnBeat]), armed # Silent)
        /\ UNCHANGED <<beats, coord, state, disk, turn, armed, faults>>
    BY <1>11 DEF TurnTicks
  <2> DEFINE t == Rounds(TurnBeat, task[TurnBeat])
             beat == armed # Silent
  <2>2. t \in Task(TurnBeat) /\ (~t.beating => t.run = 0) /\ beat \in BOOLEAN
    BY <1>1, <2>1, RoundsIsTyped
  <2>3. Sends(TurnBeat, t, beat)
    BY <2>1
  <2> HIDE DEF t, beat
  <2> QED BY <2>1, <2>2, <2>3, SendsIsTyped
<1> QED BY <1>2, <1>3, <1>4, <1>5, <1>6, <1>7, <1>9, <1>10, <1>11

\* How long an evaluation may hold the coordinator up.
LEMMA RoomIsTyped ==
  ASSUME WorkTypeOK, NEW left \in 0..Least(SendTimeout, MaxHeld - coord.held)
  PROVE  left \in 0..SendTimeout /\ left + coord.held <= MaxHeld
<1>1. SendTimeout \in Nat /\ MaxHeld \in Nat /\ coord.held \in Nat /\ coord.held <= MaxHeld
  BY WorkStateAssumption DEF WorkTypeOK, Coordinator
<1> QED BY <1>1 DEF Least

\* An evaluation leaves the coordinator about to write.
LEMMA EvaluatesTyped ==
  ASSUME WorkTypeOK, NEW ticked \in BOOLEAN, Evaluates(ticked)
  PROVE  /\ state' \in States /\ faults' \in 0..MaxFaults
         /\ coord' \in Coordinator /\ coord'.left + coord'.held <= MaxHeld
         /\ state' = CombineWorkState(beats')
         /\ coord'.pc = "sending" /\ coord'.ticked = ticked /\ coord'.current
         /\ coord'.changed <=> state' # state
         /\ coord'.wrote = coord.wrote /\ coord'.failed = coord.failed
         /\ coord'.held = coord.held
<1> DEFINE new == CombineWorkState(beats')
<1>1. /\ state' = new
      /\ \E left \in 0..Least(SendTimeout, MaxHeld - coord.held) :
           /\ left > 0 => new # state /\ faults < MaxFaults
           /\ faults' = IF left > 0 THEN faults + 1 ELSE faults
           /\ coord' = [coord EXCEPT !.pc = "sending", !.ticked = ticked, !.left = left,
                                     !.changed = (new # state), !.current = TRUE]
  BY DEF Evaluates
<1>2. new \in States
  BY DEF CombineWorkState, States
<1> HIDE DEF new
<1>3. PICK left \in 0..Least(SendTimeout, MaxHeld - coord.held) :
           /\ left > 0 => new # state /\ faults < MaxFaults
           /\ faults' = IF left > 0 THEN faults + 1 ELSE faults
           /\ coord' = [coord EXCEPT !.pc = "sending", !.ticked = ticked, !.left = left,
                                     !.changed = (new # state), !.current = TRUE]
  BY <1>1
<1>4. left \in 0..SendTimeout /\ left + coord.held <= MaxHeld
  BY RoomIsTyped
<1>5. faults' \in 0..MaxFaults
  <2>1. faults \in 0..MaxFaults /\ MaxFaults \in Nat
    BY WorkStateAssumption DEF WorkTypeOK
  <2> QED BY <1>3, <2>1
<1>6. coord \in Coordinator
  BY DEF WorkTypeOK
<1>7. /\ coord' \in Coordinator /\ coord'.left = left /\ coord'.held = coord.held
      /\ coord'.pc = "sending" /\ coord'.ticked = ticked /\ coord'.current
      /\ coord'.changed <=> new # state
      /\ coord'.wrote = coord.wrote /\ coord'.failed = coord.failed
  BY <1>3, <1>4, <1>6 DEF Coordinator
<1>8. coord'.left + coord'.held <= MaxHeld
  BY <1>4, <1>7
<1> QED BY <1>1, <1>2, <1>5, <1>7, <1>8 DEF new

\* The loop goes round.
LEMMA SelectsTyped ==
  ASSUME WorkTypeOK
  PROVE  /\ Selects \in Coordinator /\ Selects.left = coord.left
         /\ Selects.held = IF queue = <<>> THEN 0 ELSE coord.held
         /\ Selects.held <= coord.held
         /\ Selects.pc = "select" /\ ~Selects.changed
         /\ Selects.ticked = coord.ticked /\ Selects.current = coord.current
         /\ Selects.wrote = coord.wrote /\ Selects.failed = coord.failed
<1> DEFINE held == IF queue = <<>> THEN 0 ELSE coord.held
<1>1. coord \in Coordinator /\ MaxHeld \in Nat
  BY WorkStateAssumption DEF WorkTypeOK
<1>2. held \in 0..MaxHeld /\ held <= coord.held
  BY <1>1 DEF Coordinator
<1>3. Selects = [coord EXCEPT !.pc = "select", !.changed = FALSE, !.held = held]
  BY <1>1 DEF Selects, Coordinator
<1>4. Selects.held = held
  BY <1>1, <1>3 DEF Coordinator
<1> HIDE DEF held
<1>5. /\ Selects \in Coordinator /\ Selects.left = coord.left
      /\ Selects.pc = "select" /\ ~Selects.changed
      /\ Selects.ticked = coord.ticked /\ Selects.current = coord.current
      /\ Selects.wrote = coord.wrote /\ Selects.failed = coord.failed
  BY <1>1, <1>2, <1>3 DEF Coordinator
<1> QED BY <1>2, <1>4, <1>5 DEF held

LEMMA CoordinatorIsTyped ==
  ASSUME TypedAndSent, Receives \/ Ticks \/ Writes
  PROVE  TypedAndSent'
<1> USE DEF TypedAndSent
<1>1. CASE Receives
  <2> DEFINE u == Head(queue)
             b == TakenUp(u)
  <2>1. /\ queue # <<>> /\ beats' = [beats EXCEPT ![u.label] = b] /\ queue' = Tail(queue)
        /\ Evaluates(coord.ticked) /\ UNCHANGED <<task, disk, turn, armed, lastBeat>>
    BY <1>1 DEF Receives
  <2>2. u \in SentUpdate /\ queue' \in Seq(SentUpdate) /\ queue' \in Seq(Update)
    <3>1. queue \in Seq(SentUpdate)
      BY DEF Sent
    <3>2. u \in SentUpdate /\ queue' \in Seq(SentUpdate)
      BY <2>1, <3>1, HeadTailProperties
    <3> QED BY <3>2, SeqMonotonic DEF SentUpdate
  <2>3. b \in Stored /\ b.beating = u.beating /\ b.interval = u.interval
    <3>1. 0 \in 0..TooOld(Longest) /\ 0 \in 0..MaxHeld /\ coord.held \in 0..MaxHeld
      BY IntervalsAreTyped, BoundIsNat, WorkStateAssumption DEF WorkTypeOK, Coordinator
    <3> QED BY <2>2, <3>1 DEF SentUpdate, Update, Stored, TakenUp
  <2>4. u.label \in Labels /\ \E h \in Senders : SentBy(h, u.label, u.interval)
    BY <2>2 DEF SentUpdate, Update
  <2> HIDE DEF u, b
  <2>5. beats' \in [Labels -> Stored] /\ \A l \in Labels : beats'[l] = IF l = u.label THEN b ELSE beats[l]
    BY <2>1, <2>3, <2>4 DEF WorkTypeOK
  <2>6. \A l \in Labels : beats'[l].beating => \E h \in Senders : SentBy(h, l, beats'[l].interval)
    BY <2>3, <2>4, <2>5 DEF Sent
  <2>7. /\ state' \in States /\ faults' \in 0..MaxFaults
        /\ coord' \in Coordinator /\ coord'.left + coord'.held <= MaxHeld
    <3>1. coord.ticked \in BOOLEAN
      BY DEF WorkTypeOK, Coordinator
    <3> QED BY <2>1, <3>1, EvaluatesTyped
  <2>8. WorkTypeOK'
    BY <2>1, <2>2, <2>5, <2>7 DEF WorkTypeOK
  <2> QED BY <2>1, <2>2, <2>6, <2>8 DEF Sent
<1>2. CASE Ticks
  <2>1. UNCHANGED <<beats, task, queue, disk, turn, armed, lastBeat>> /\ Evaluates(FALSE)
    BY <1>2 DEF Ticks
  <2>2. /\ state' \in States /\ faults' \in 0..MaxFaults
        /\ coord' \in Coordinator /\ coord'.left + coord'.held <= MaxHeld
    BY <2>1, EvaluatesTyped
  <2>3. WorkTypeOK'
    BY <2>1, <2>2 DEF WorkTypeOK
  <2> QED BY <2>1, <2>3 DEF Sent
<1>3. CASE Writes
  <2>1. UNCHANGED <<task, queue, beats, state, turn, armed, lastBeat>>
    BY <1>3 DEF Writes
  <2>2. disk' \in States /\ faults' \in 0..MaxFaults
    <3>1. faults' = faults \/ (faults < MaxFaults /\ faults' = faults + 1)
      BY <1>3 DEF Writes
    <3>2. disk' = disk \/ disk' = state
      BY <1>3 DEF Writes
    <3> QED BY <3>1, <3>2, WorkStateAssumption DEF WorkTypeOK
  <2>3. coord' \in Coordinator /\ coord'.left + coord'.held <= MaxHeld
    <3>1. \/ coord' = [Selects EXCEPT !.wrote = TRUE]
          \/ coord' = [Selects EXCEPT !.failed = TRUE]
          \/ coord' = Selects
      BY <1>3 DEF Writes
    <3>2. /\ Selects \in Coordinator /\ Selects.left = coord.left /\ Selects.held <= coord.held
          /\ coord \in Coordinator /\ coord.left + coord.held <= MaxHeld
      BY SelectsTyped DEF WorkTypeOK
    <3>3. coord' \in Coordinator /\ coord'.left = coord.left /\ coord'.held <= coord.held
      BY <3>1, <3>2 DEF Coordinator
    <3>4. /\ coord.left \in Nat /\ coord.held \in Nat /\ coord'.held \in Nat /\ MaxHeld \in Nat
      BY <3>2, <3>3, WorkStateAssumption DEF Coordinator
    <3> QED BY <3>2, <3>3, <3>4
  <2>4. WorkTypeOK'
    BY <2>1, <2>2, <2>3 DEF WorkTypeOK
  <2> QED BY <2>1, <2>4 DEF Sent
<1> QED BY <1>1, <1>2, <1>3

\* How the session moves what the coordinator sees of it.
Turned(t, flag) ==
  /\ t \in [open : BOOLEAN, accepted : BOOLEAN, ended : BOOLEAN, terminal : BOOLEAN]
  /\ flag \in {armed, Arm, Silent}
  /\ SessionSteps(t, flag)

LEMMA SessionTurns ==
  ASSUME WorkTypeOK, Prompted \/ Begins \/ ReportsTerminal \/ Stops \/ GraceRunsOut
  PROVE  \E t, flag : Turned(t, flag)
<1> USE DEF WorkTypeOK, NoTurn, Turned
<1>1. CASE Prompted
  BY <1>1 DEF Prompted
<1>2. CASE Begins
  BY <1>2 DEF Begins
<1>3. CASE ReportsTerminal
  BY <1>3 DEF ReportsTerminal
<1>4. CASE Stops
  BY <1>4 DEF Stops
<1>5. CASE GraceRunsOut
  BY <1>5 DEF GraceRunsOut
<1> QED BY <1>1, <1>2, <1>3, <1>4, <1>5

LEMMA TurnedIsTyped ==
  ASSUME TypedAndSent, NEW t, NEW flag, Turned(t, flag)
  PROVE  TypedAndSent'
<1> USE DEF TypedAndSent
<1>1. /\ turn' = t /\ armed' = flag /\ coord' = [coord EXCEPT !.current = FALSE]
      /\ UNCHANGED <<task, queue, beats, state, disk, lastBeat, faults>>
  BY DEF Turned, SessionSteps
<1>2. armed' \in 0..Noticed
  <2>1. Noticed \in Nat /\ Noticed > 0
    BY IntervalsAreTyped DEF Noticed
  <2>2. armed \in 0..Noticed /\ flag \in {armed, 1, 0}
    BY DEF WorkTypeOK, Turned, Arm, Silent
  <2> QED BY <1>1, <2>1, <2>2
<1>3. coord' \in Coordinator /\ coord'.left = coord.left /\ coord'.held = coord.held
  BY <1>1 DEF WorkTypeOK, Coordinator
<1>4. WorkTypeOK'
  BY <1>1, <1>2, <1>3 DEF WorkTypeOK, Turned
<1> QED BY <1>1, <1>4 DEF Sent

\* A second passes.
LEMMA AgesTyped ==
  ASSUME NEW h \in Senders, NEW t \in Task(h),
         t.pc \in {"checking", "detailing"} => t.body < Interval[h]
  PROVE  /\ Ages(h, t) \in Task(h) /\ Ages(h, t).pc = t.pc /\ Ages(h, t).run = t.run
         /\ Ages(h, t).beating = t.beating
         /\ Ages(h, t).spent <= t.spent + 1
         /\ t.pc = "waiting" /\ t.spent < Interval[h] => Ages(h, t).spent = t.spent + 1
         /\ Ages(h, t).body = IF t.pc \in {"checking", "detailing"} THEN t.body + 1 ELSE 0
<1>1. /\ Interval[h] \in Nat /\ Interval[h] > 0 /\ TooLong(h) \in Nat /\ Interval[h] <= TooLong(h)
      /\ t.spent \in 0..TooLong(h) /\ t.body \in 0..Interval[h]
  BY IntervalsAreTyped DEF Task
<1> DEFINE cap == IF t.pc = "dead" THEN 1 ELSE TooLong(h)
           spent == Least(t.spent + 1, cap)
           body == IF t.pc \in {"checking", "detailing"} THEN t.body + 1 ELSE 0
<1>2. /\ spent \in 0..TooLong(h) /\ spent <= t.spent + 1
      /\ t.pc = "waiting" /\ t.spent < Interval[h] => spent = t.spent + 1
  BY <1>1 DEF Least
<1>3. body \in 0..Interval[h]
  BY <1>1
<1>4. Ages(h, t) = [t EXCEPT !.spent = spent, !.body = body]
  BY DEF Ages, Task
<1> HIDE DEF spent, body
<1>5. Ages(h, t) \in Task(h) /\ Ages(h, t).spent = spent /\ Ages(h, t).body = body
      /\ Ages(h, t).pc = t.pc /\ Ages(h, t).run = t.run /\ Ages(h, t).beating = t.beating
  BY <1>2, <1>3, <1>4 DEF Task
<1> QED BY <1>2, <1>5 DEF body

LEMMA AgesStoredTyped ==
  ASSUME NEW b \in Stored, b.beating => b.interval <= Longest
  PROVE  /\ AgesStored(b) \in Stored /\ AgesStored(b).beating = b.beating
         /\ AgesStored(b).interval = b.interval
         /\ AgesStored(b).waited = b.waited
         /\ b.beating => AgesStored(b).age = Older(b.age, b.interval)
<1>1. CASE ~b.beating
  BY <1>1 DEF AgesStored
<1>2. CASE b.beating
  <2>1. b.interval \in Nat /\ Longest \in Nat /\ b.age \in Nat
    BY IntervalsAreTyped DEF Stored
  <2>2. TooOld(b.interval) <= TooOld(Longest) /\ TooOld(b.interval) \in Nat /\ TooOld(Longest) \in Nat
    BY <1>2, <2>1, BoundGrows, BoundIsNat
  <2>3. Older(b.age, b.interval) \in 0..TooOld(Longest)
    BY <2>1, <2>2 DEF Older, Least
  <2>4. AgesStored(b) = [b EXCEPT !.age = Older(b.age, b.interval)]
    BY <1>2 DEF AgesStored, Stored
  <2> HIDE DEF Older
  <2> QED BY <2>3, <2>4 DEF Stored
<1> QED BY <1>1, <1>2

\* A second of a send that the host is slow to take.
SecondHolds ==
  /\ coord \in Coordinator /\ coord' \in Coordinator
  /\ coord'.pc = coord.pc /\ coord'.changed = coord.changed
  /\ coord'.ticked /\ ~coord'.wrote
  /\ \/ coord.left = 0 /\ coord'.left = 0 /\ coord'.held = coord.held
     \/ coord.left > 0 /\ coord'.left = coord.left - 1 /\ coord'.held = coord.held + 1

LEMMA SecondHolding ==
  ASSUME WorkTypeOK, Second
  PROVE  SecondHolds
<1> DEFINE left == IF coord.left > 0 THEN coord.left - 1 ELSE 0
           held == IF coord.left > 0 THEN coord.held + 1 ELSE coord.held
<1>1. /\ coord \in Coordinator /\ coord.left + coord.held <= MaxHeld
      /\ SendTimeout \in Nat /\ MaxHeld \in Nat
  BY WorkStateAssumption DEF WorkTypeOK
<1>2. coord' = [coord EXCEPT !.ticked = TRUE, !.wrote = FALSE, !.failed = FALSE,
                             !.left = left, !.held = held]
  BY <1>1 DEF Second, Coordinator
<1>3. /\ left \in 0..SendTimeout /\ held \in 0..MaxHeld
      /\ \/ coord.left = 0 /\ left = 0 /\ held = coord.held
         \/ coord.left > 0 /\ left = coord.left - 1 /\ held = coord.held + 1
  BY <1>1 DEF Coordinator
<1> HIDE DEF left, held
<1>4. /\ coord' \in Coordinator /\ coord'.left = left /\ coord'.held = held
      /\ coord'.pc = coord.pc /\ coord'.changed = coord.changed
      /\ coord'.ticked /\ ~coord'.wrote
  BY <1>1, <1>2, <1>3 DEF Coordinator
<1> QED BY <1>1, <1>3, <1>4 DEF SecondHolds

LEMMA SecondIsTyped ==
  ASSUME TypedAndSent, Second
  PROVE  TypedAndSent'
<1> USE DEF TypedAndSent
<1>1. /\ Settled
      /\ task' = [h \in Senders |-> Ages(h, task[h])]
      /\ beats' = [l \in Labels |-> AgesStored(beats[l])]
      /\ lastBeat' = [h \in Senders |-> Forgets(lastBeat[h], Interval[h])]
      /\ armed' = IF armed = Silent THEN Silent ELSE Least(armed + 1, Noticed)
      /\ UNCHANGED <<queue, state, disk, turn, faults>>
  BY DEF Second
<1>2. \A h \in Senders : /\ task[h] \in Task(h) /\ (~task[h].beating => task[h].run = 0)
                         /\ task[h].pc \in {"checking", "detailing"} => task[h].body < Interval[h]
  BY <1>1 DEF WorkTypeOK, Settled, Files, Sent
<1>3. \A h \in Senders : task'[h] \in Task(h) /\ (~task'[h].beating => task'[h].run = 0)
  BY <1>1, <1>2, AgesTyped
<1>4. beats' \in [Labels -> Stored]
      /\ \A l \in Labels : /\ beats'[l].beating = beats[l].beating
                           /\ beats'[l].interval = beats[l].interval
  <2>1. \A l \in Labels : beats[l] \in Stored /\ (beats[l].beating => beats[l].interval <= Longest)
    BY IntervalsAreTyped DEF WorkTypeOK, Sent, SentBy
  <2> QED BY <1>1, <2>1, AgesStoredTyped
<1>5. \A h \in Senders : lastBeat'[h] \in 0..Forgotten(Interval[h])
  <2> SUFFICES ASSUME NEW h \in Senders PROVE lastBeat'[h] \in 0..Forgotten(Interval[h])
    OBVIOUS
  <2>1. Forgotten(Interval[h]) \in Nat /\ lastBeat[h] \in 0..Forgotten(Interval[h])
    BY IntervalsAreTyped, BoundIsNat DEF WorkTypeOK
  <2> QED BY <1>1, <2>1 DEF Forgets, Least
<1>6. coord' \in Coordinator /\ coord'.left + coord'.held <= MaxHeld
  <2>1. coord.left + coord.held <= MaxHeld
    BY DEF WorkTypeOK
  <2>2. SecondHolds
    BY SecondHolding
  <2> QED BY <2>1, <2>2, WorkStateAssumption DEF SecondHolds, Coordinator
<1>7. armed' \in 0..Noticed
  <2>1. Noticed \in Nat /\ Noticed > 0 /\ armed \in 0..Noticed
    BY IntervalsAreTyped DEF Noticed, WorkTypeOK
  <2> QED BY <1>1, <2>1 DEF Least, Silent
<1>8. WorkTypeOK'
  BY <1>1, <1>3, <1>4, <1>5, <1>6, <1>7 DEF WorkTypeOK
<1>9. TurnBeat \in Senders => task'[TurnBeat].pc = "waiting"
  BY <1>1, <1>2, AgesTyped DEF Sent
<1> QED BY <1>1, <1>4, <1>8, <1>9 DEF Sent

LEMMA WorkStepTyped ==
  ASSUME TypedAndSent, [WorkNext]_workVars
  PROVE  TypedAndSent'
<1>1. CASE UNCHANGED workVars
  BY <1>1 DEF workVars, TypedAndSent, WorkTypeOK, Sent
<1>2. CASE Prompted \/ Begins \/ ReportsTerminal \/ Stops \/ GraceRunsOut
  <2>1. PICK t, flag : Turned(t, flag)
    BY <1>2, SessionTurns DEF TypedAndSent
  <2> QED BY <2>1, TurnedIsTyped
<1> QED BY <1>1, <1>2, HeartbeatsAreTyped, CoordinatorIsTyped, SecondIsTyped DEF WorkNext

LEMMA WorkInitTyped == WorkInit => TypedAndSent
<1> SUFFICES ASSUME WorkInit PROVE TypedAndSent
  OBVIOUS
<1>1. /\ \A h \in Senders : /\ 0 \in 0..Interval[h] /\ 0 \in 0..Timeout[h]
                            /\ Interval[h] \in 0..TooLong(h) /\ Forgotten(Interval[h]) \in Nat
      /\ Longest \in Nat /\ TooOld(Longest) \in Nat /\ MaxFaults \in Nat
      /\ SendTimeout \in Nat /\ MaxHeld \in Nat
      /\ Noticed \in Nat
  BY IntervalsAreTyped, BoundIsNat, WorkStateAssumption DEF Noticed
<1>2. /\ task = [h \in Senders |-> NewTask(h)] /\ queue = <<>>
      /\ beats = [l \in Labels |-> Unheard]
      /\ coord = [pc |-> "select", ticked |-> TRUE, changed |-> FALSE, left |-> 0, held |-> 0,
                  wrote |-> FALSE, failed |-> FALSE, current |-> FALSE]
      /\ state = "none" /\ disk = "none" /\ turn = NoTurn /\ armed = Silent
      /\ lastBeat = [h \in Senders |-> Forgotten(Interval[h])] /\ faults = 0
  BY DEF WorkInit
<1>3. \A h \in Senders : /\ NewTask(h) \in Task(h) /\ NewTask(h).run = 0
                         /\ NewTask(h).pc = "waiting"
  BY <1>1 DEF NewTask, Task
<1>4. Unheard \in Stored /\ ~Unheard.beating
  BY <1>1 DEF Unheard, Stored
<1>5. \A S : queue \in Seq(S)
  BY <1>2
<1>6. coord \in Coordinator /\ coord.left + coord.held <= MaxHeld
  BY <1>1, <1>2 DEF Coordinator
<1>7. WorkTypeOK
  BY <1>1, <1>2, <1>3, <1>4, <1>5, <1>6 DEF WorkTypeOK, States, NoTurn, Silent
<1> QED BY <1>2, <1>3, <1>4, <1>5, <1>7 DEF TypedAndSent, Sent

-----------------------------------------------------------------------------
(* The record.  What is not yet written is about to be, unless a write of  *)
(* this second failed; and the state is what the coordinator would compute *)
(* now, unless the session has moved or a tick is still to be taken.       *)
RecordFollows ==
  /\ coord.pc = "select" => ~coord.changed
  /\ coord.pc = "select" /\ ~coord.ticked => coord.wrote \/ coord.failed
  /\ coord.wrote /\ ~coord.failed /\ ~coord.changed => disk = state

StateFollows == coord.current /\ ~coord.ticked => state = CombineWorkState(beats)

LEMMA RecordStep ==
  ASSUME TypedAndSent, RecordFollows, StateFollows, [WorkNext]_workVars
  PROVE  RecordFollows' /\ StateFollows'
<1>1. /\ WorkTypeOK
      /\ coord \in Coordinator
  BY DEF TypedAndSent, WorkTypeOK
<1>2. ASSUME UNCHANGED <<beats, coord, state, disk, turn>> PROVE RecordFollows' /\ StateFollows'
  BY <1>2 DEF RecordFollows, StateFollows, CombineWorkState
<1>3. ASSUME NEW ticked \in BOOLEAN, coord.pc = "select", Evaluates(ticked),
             UNCHANGED <<disk, turn>>
      PROVE  RecordFollows' /\ StateFollows'
  <2>1. /\ state' = CombineWorkState(beats')
        /\ coord'.pc = "sending" /\ coord'.ticked = ticked /\ coord'.current
        /\ coord'.changed <=> state' # state
        /\ coord'.wrote = coord.wrote /\ coord'.failed = coord.failed
    BY <1>1, <1>3, EvaluatesTyped
  <2>2. CombineWorkState(beats)' = CombineWorkState(beats')
    BY <1>3 DEF CombineWorkState
  <2>3. StateFollows'
    BY <2>1, <2>2 DEF StateFollows
  <2>4. coord'.wrote /\ ~coord'.failed /\ ~coord'.changed => disk' = state'
    <3>1. coord.wrote /\ ~coord.failed => disk = state
      BY <1>3 DEF RecordFollows
    <3> QED BY <1>3, <2>1, <3>1
  <2> QED BY <2>1, <2>3, <2>4 DEF RecordFollows
<1>4. ASSUME NEW h \in Senders,
             \/ CheckStarts(h) \/ CheckMisses(h) \/ CheckPasses(h)
             \/ DetailEnds(h) \/ DetailLingers(h) \/ LingererExits(h)
             \/ Aborted(h) \/ Spawned(h)
      PROVE  RecordFollows' /\ StateFollows'
  <2>1. UNCHANGED <<beats, coord, state, disk, turn>>
    BY <1>4 DEF CheckStarts, CheckMisses, CheckPasses, DetailEnds, DetailLingers, LingererExits,
                Aborted, Spawned
  <2> QED BY <1>2, <2>1
<1>5. CASE TurnTicks
  BY <1>2, <1>5 DEF TurnTicks
<1>6. CASE Receives
  <2>1. coord.ticked \in BOOLEAN /\ Evaluates(coord.ticked)
    BY <1>1, <1>6 DEF Receives, Coordinator
  <2> QED BY <1>3, <1>6, <2>1 DEF Receives
<1>7. CASE Ticks
  <2>1. Evaluates(FALSE) /\ coord.pc = "select" /\ UNCHANGED <<disk, turn>>
    BY <1>7 DEF Ticks
  <2> QED BY <1>3, <2>1
<1>8. CASE Writes
  <2>1. coord.pc = "sending" /\ UNCHANGED <<beats, state, turn>>
    BY <1>8 DEF Writes
  <2>2. /\ coord'.pc = "select" /\ ~coord'.changed
        /\ coord'.ticked = coord.ticked /\ coord'.current = coord.current
        /\ \/ disk' = state /\ coord'.wrote /\ coord'.failed = coord.failed
           \/ coord'.failed /\ coord'.wrote = coord.wrote
           \/ /\ ~WriteIsDue /\ disk' = disk
              /\ coord'.wrote = coord.wrote /\ coord'.failed = coord.failed
    <3> DEFINE c == Selects
    <3>1. /\ c \in Coordinator /\ c.pc = "select" /\ ~c.changed
          /\ c.ticked = coord.ticked /\ c.current = coord.current
          /\ c.wrote = coord.wrote /\ c.failed = coord.failed
      BY <1>1, SelectsTyped
    <3>2. \/ disk' = state /\ coord' = [c EXCEPT !.wrote = TRUE]
          \/ coord' = [c EXCEPT !.failed = TRUE]
          \/ ~WriteIsDue /\ coord' = c /\ disk' = disk
      BY <1>8 DEF Writes
    <3> HIDE DEF c
    <3>3. CASE disk' = state /\ coord' = [c EXCEPT !.wrote = TRUE]
      BY <3>1, <3>3 DEF Coordinator
    <3>4. CASE coord' = [c EXCEPT !.failed = TRUE]
      BY <3>1, <3>4 DEF Coordinator
    <3>5. CASE ~WriteIsDue /\ coord' = c /\ disk' = disk
      BY <3>1, <3>5
    <3> QED BY <3>2, <3>3, <3>4, <3>5
  <2>3. RecordFollows'
    BY <2>1, <2>2 DEF RecordFollows, WriteIsDue
  <2>4. StateFollows'
    BY <2>1, <2>2 DEF StateFollows, CombineWorkState
  <2> QED BY <2>3, <2>4
<1>9. CASE Prompted \/ Begins \/ ReportsTerminal \/ Stops \/ GraceRunsOut
  <2>1. PICK t, flag : Turned(t, flag)
    BY <1>1, <1>9, SessionTurns
  <2>2. coord' = [coord EXCEPT !.current = FALSE] /\ UNCHANGED <<beats, state, disk>>
    BY <2>1 DEF Turned, SessionSteps
  <2>3. /\ ~coord'.current /\ coord'.pc = coord.pc /\ coord'.ticked = coord.ticked
        /\ coord'.changed = coord.changed /\ coord'.wrote = coord.wrote
        /\ coord'.failed = coord.failed
    BY <1>1, <2>2 DEF Coordinator
  <2> QED BY <2>2, <2>3 DEF RecordFollows, StateFollows
<1>10. CASE Second
  <2>2. /\ coord'.ticked /\ ~coord'.wrote /\ coord'.pc = coord.pc /\ coord'.changed = coord.changed
    BY <1>1, <1>10, SecondHolding DEF SecondHolds
  <2> QED BY <2>2 DEF RecordFollows, StateFollows
<1>11. CASE UNCHANGED workVars
  BY <1>2, <1>11 DEF workVars
<1> QED BY <1>4, <1>5, <1>6, <1>7, <1>8, <1>9, <1>10, <1>11 DEF WorkNext

WorkInv == TypedAndSent /\ RecordFollows /\ StateFollows

LEMMA WorkInvariant == WorkSpec => []WorkInv
<1>1. WorkInit => WorkInv
  BY WorkInitTyped DEF WorkInit, WorkInv, RecordFollows, StateFollows
<1>2. WorkInv /\ [WorkNext]_workVars => WorkInv'
  BY WorkStepTyped, RecordStep DEF WorkInv
<1> QED BY <1>1, <1>2, PTL DEF WorkSpec

-----------------------------------------------------------------------------
(* Active is recent.  A beat that is still in the channel is no older than *)
(* the channel has gone without being drained, and one in the              *)
(* coordinator's map no older than it has been there and had waited        *)
(* before.                                                                 *)
MapIsRecent ==
  /\ \A l \in Labels : \A u \in LastFor(l) :
       u.beating => \E h \in Senders : SentBy(h, l, u.interval) /\ lastBeat[h] <= coord.held
  /\ \A l \in Labels : Counts(beats[l]) /\ NoneFor(l) =>
       \E h \in Senders : /\ SentBy(h, l, beats[l].interval)
                         /\ lastBeat[h] <= beats[l].age + beats[l].waited

\* A task that sends.
LEMMA SendsIsRecent ==
  ASSUME TypedAndSent, MapIsRecent, NEW h \in Senders, NEW t, NEW beat \in BOOLEAN,
         Sends(h, t, beat), beats' = beats, coord' = coord
  PROVE  MapIsRecent'
<1> DEFINE u == [label |-> Label[h], beating |-> beat,
                 late |-> beat /\ t.run >= Timeout[h], interval |-> Interval[h]]
<1>1. queue' = Append(queue, u) /\ lastBeat' = [lastBeat EXCEPT ![h] = IF beat THEN 0 ELSE Forgotten(Interval[h])]
  BY DEF Sends
<1>2. u \in Update /\ u.label = Label[h] /\ u.beating = beat /\ u.interval = Interval[h]
  <2>1. (beat /\ t.run >= Timeout[h]) \in BOOLEAN
    OBVIOUS
  <2> QED BY <2>1, IntervalsAreTyped DEF Update
<1>3. \A l : /\ LastFor(l)' = IF l = Label[h] THEN {u} ELSE LastFor(l)
             /\ NoneFor(l)' => NoneFor(l) /\ l # Label[h]
  <2>1. queue \in Seq(Update)
    BY DEF TypedAndSent, WorkTypeOK
  <2> HIDE DEF u
  <2> QED BY <1>1, <1>2, <2>1, QueueGrows
<1> HIDE DEF u
<1>4. /\ lastBeat'[h] = IF beat THEN 0 ELSE Forgotten(Interval[h])
      /\ \A g \in Senders : Label[g] # Label[h] => lastBeat'[g] = lastBeat[g]
      /\ 0 <= coord.held
  BY <1>1 DEF TypedAndSent, Sent, WorkTypeOK, Coordinator
<1>5. \A l \in Labels : \A x \in LastFor(l)' :
        x.beating => \E g \in Senders : SentBy(g, l, x.interval) /\ lastBeat'[g] <= coord'.held
  BY <1>2, <1>3, <1>4 DEF MapIsRecent, SentBy
<1>6. \A l \in Labels : Counts(beats'[l]) /\ NoneFor(l)' =>
        \E g \in Senders : /\ SentBy(g, l, beats'[l].interval)
                           /\ lastBeat'[g] <= beats'[l].age + beats'[l].waited
  BY <1>3, <1>4 DEF MapIsRecent, SentBy
<1> QED BY <1>5, <1>6 DEF MapIsRecent, SentBy, Counts, IsStale

\* The coordinator takes an update.
LEMMA ReceivesIsRecent ==
  ASSUME TypedAndSent, MapIsRecent, Receives
  PROVE  MapIsRecent'
<1>1. WorkTypeOK /\ Sent
  BY DEF TypedAndSent
<1> DEFINE u == Head(queue)
<1>2. /\ queue # <<>> /\ queue' = Tail(queue) /\ lastBeat' = lastBeat
      /\ beats' = [beats EXCEPT ![u.label] = TakenUp(u)] /\ coord'.held = coord.held
  <2>1. coord.ticked \in BOOLEAN /\ Evaluates(coord.ticked)
    BY <1>1 DEF Receives, WorkTypeOK, Coordinator
  <2> QED BY <1>1, <2>1, EvaluatesTyped DEF Receives
<1>3. queue \in Seq(Update)
  BY <1>1 DEF WorkTypeOK
<1>4. u \in Update
  BY <1>2, <1>3, HeadTailProperties
<1>5. \A l : /\ \/ LastFor(l)' = LastFor(l)
                \/ l = u.label /\ LastFor(l) = {u} /\ LastFor(l)' = {}
             /\ NoneFor(l)' => \/ l # u.label /\ NoneFor(l)
                               \/ l = u.label /\ LastFor(l) = {u}
  BY <1>2, <1>3, QueueShrinks
<1> HIDE DEF u
<1>6. \A l \in Labels : IF l = u.label
                          THEN /\ beats'[l].beating = u.beating /\ beats'[l].interval = u.interval
                               /\ beats'[l].age = 0
                               /\ u.beating => beats'[l].waited = coord.held
                          ELSE beats'[l] = beats[l]
  BY <1>1, <1>2, <1>4 DEF WorkTypeOK, Update, TakenUp
<1>7. \A l \in Labels : \A x \in LastFor(l)' :
        x.beating => \E g \in Senders : SentBy(g, l, x.interval) /\ lastBeat'[g] <= coord'.held
  BY <1>2, <1>5 DEF MapIsRecent
<1>8. ASSUME NEW l \in Labels, Counts(beats'[l]), NoneFor(l)'
      PROVE  \E g \in Senders : /\ SentBy(g, l, beats'[l].interval)
                                /\ lastBeat'[g] <= beats'[l].age + beats'[l].waited
  <2>1. CASE l = u.label /\ LastFor(l) = {u}
    <3>1. u.beating
      BY <1>6, <1>8, <2>1 DEF Counts
    <3>2. PICK g \in Senders : SentBy(g, l, u.interval) /\ lastBeat[g] <= coord.held
      BY <2>1, <3>1 DEF MapIsRecent
    <3>3. coord.held \in Nat
      BY <1>1 DEF WorkTypeOK, Coordinator
    <3>4. beats'[l].age + beats'[l].waited = coord.held
      <4>1. beats'[l].age = 0 /\ beats'[l].waited = coord.held
        BY <1>6, <2>1, <3>1, Zenon
      <4> QED BY <3>3, <4>1
    <3>5. lastBeat'[g] <= beats'[l].age + beats'[l].waited
      BY <1>2, <3>2, <3>4
    <3> QED BY <1>6, <2>1, <3>2, <3>5
  <2>2. CASE l # u.label /\ NoneFor(l)
    <3>1. beats'[l] = beats[l]
      BY <1>6, <2>2
    <3> QED BY <1>2, <1>8, <2>2, <3>1 DEF MapIsRecent
  <2> QED BY <1>5, <1>8, <2>1, <2>2
<1> QED BY <1>7, <1>8 DEF MapIsRecent, SentBy, Counts, IsStale

\* A second passes: what is in the channel waits, what is in the map ages.
LEMMA SecondIsRecent ==
  ASSUME TypedAndSent, TypedAndSent', MapIsRecent, Second
  PROVE  MapIsRecent'
<1>1. WorkTypeOK /\ Sent /\ WorkTypeOK'
  BY DEF TypedAndSent
<1>2. /\ Settled /\ queue' = queue
      /\ beats' = [l \in Labels |-> AgesStored(beats[l])]
      /\ lastBeat' = [h \in Senders |-> Forgets(lastBeat[h], Interval[h])]
  BY DEF Second
<1>3. SecondHolds
  BY <1>1, SecondHolding
<1>4. coord.held \in Nat /\ coord.left \in Nat
  BY <1>3 DEF SecondHolds, Coordinator
<1>5. coord'.held = coord.held + 1 \/ queue = <<>>
  BY <1>1, <1>2, <1>3, <1>4 DEF Settled, SecondHolds
<1>6. \A h \in Senders : lastBeat[h] \in Nat /\ lastBeat'[h] \in Nat /\ lastBeat'[h] <= lastBeat[h] + 1
  <2> SUFFICES ASSUME NEW h \in Senders
               PROVE  lastBeat[h] \in Nat /\ lastBeat'[h] \in Nat /\ lastBeat'[h] <= lastBeat[h] + 1
    OBVIOUS
  <2>1. Forgotten(Interval[h]) \in Nat /\ lastBeat[h] \in 0..Forgotten(Interval[h])
    BY <1>1, IntervalsAreTyped, BoundIsNat DEF WorkTypeOK
  <2> QED BY <1>2, <2>1 DEF Forgets, Least
<1>7. \A l : LastFor(l)' = LastFor(l) /\ (NoneFor(l)' <=> NoneFor(l))
  BY <1>2 DEF LastFor, NoneFor
<1>8. ASSUME NEW l \in Labels, NEW x \in LastFor(l)', x.beating
      PROVE  \E g \in Senders : SentBy(g, l, x.interval) /\ lastBeat'[g] <= coord'.held
  <2>1. x \in LastFor(l)
    BY <1>7, <1>8
  <2>2. coord'.held = coord.held + 1
    BY <1>5, <2>1, NothingIsLast
  <2>3. PICK g \in Senders : SentBy(g, l, x.interval) /\ lastBeat[g] <= coord.held
    BY <1>8, <2>1 DEF MapIsRecent
  <2>4. lastBeat'[g] <= coord'.held
    BY <1>4, <1>6, <2>2, <2>3
  <2> QED BY <2>3, <2>4
<1>9. ASSUME NEW l \in Labels, Counts(beats'[l]), NoneFor(l)'
      PROVE  \E h \in Senders : /\ SentBy(h, l, beats'[l].interval)
                                /\ lastBeat'[h] <= beats'[l].age + beats'[l].waited
  <2>1. /\ beats[l] \in Stored /\ beats'[l] = AgesStored(beats[l])
        /\ beats[l].beating => beats[l].interval <= Longest
    BY <1>1, <1>2, IntervalsAreTyped DEF WorkTypeOK, Sent, SentBy
  <2>2. /\ beats[l].beating /\ beats'[l].interval = beats[l].interval
        /\ beats'[l].waited = beats[l].waited
        /\ beats'[l].age = Older(beats[l].age, beats[l].interval)
    BY <1>9, <2>1, AgesStoredTyped DEF Counts
  <2>3. /\ beats[l].interval \in Nat /\ beats[l].age \in Nat /\ beats[l].waited \in Nat
        /\ Bound(beats[l].interval) \in Nat
    BY <2>1, IntervalsAreTyped, BoundIsNat DEF Stored
  <2>4. beats'[l].age = beats[l].age + 1 /\ Counts(beats[l])
    <3>1. ~(beats'[l].age > Bound(beats[l].interval))
      BY <1>9, <2>2 DEF Counts, IsStale
    <3> QED BY <2>2, <2>3, <3>1 DEF Counts, IsStale, Older, Least, TooOld
  <2>5. PICK h \in Senders : /\ SentBy(h, l, beats[l].interval)
                             /\ lastBeat[h] <= beats[l].age + beats[l].waited
    BY <1>7, <1>9, <2>4 DEF MapIsRecent
  <2>6. lastBeat'[h] <= beats'[l].age + beats'[l].waited
    BY <1>6, <2>2, <2>3, <2>4, <2>5
  <2> QED BY <2>2, <2>5, <2>6
<1> QED BY <1>8, <1>9 DEF MapIsRecent, SentBy, Counts, IsStale

LEMMA RecentStep ==
  ASSUME TypedAndSent, TypedAndSent', MapIsRecent, [WorkNext]_workVars
  PROVE  MapIsRecent'
<1>1. WorkTypeOK /\ Sent
  BY DEF TypedAndSent
<1>2. ASSUME UNCHANGED <<queue, beats, lastBeat>>,
             coord'.held = coord.held \/ queue = <<>>
      PROVE  MapIsRecent'
  BY <1>2, NothingIsLast DEF MapIsRecent, LastFor, NoneFor, SentBy, Counts, IsStale
<1>3. ASSUME NEW h \in Senders,
             \/ CheckStarts(h) \/ CheckMisses(h) \/ CheckPasses(h)
             \/ DetailEnds(h) \/ DetailLingers(h) \/ LingererExits(h)
             \/ Aborted(h) \/ Spawned(h)
      PROVE  MapIsRecent'
  <2>1. coord' = coord
    BY <1>3 DEF CheckStarts, CheckMisses, CheckPasses, DetailEnds, DetailLingers,
                LingererExits, Aborted, Spawned
  <2>2. CASE UNCHANGED <<queue, beats, lastBeat>>
    BY <1>2, <2>1, <2>2
  <2>3. CASE ~UNCHANGED <<queue, beats, lastBeat>>
    <3>1. beats' = beats /\ \E beat \in BOOLEAN : Sends(h, task[h], beat)
      BY <1>3, <2>3 DEF CheckStarts, CheckMisses, CheckPasses, DetailEnds, DetailLingers,
                        LingererExits, Aborted, Spawned
    <3> QED BY <2>1, <3>1, SendsIsRecent
  <2> QED BY <2>2, <2>3
<1>4. CASE TurnTicks
  <2>1. /\ TurnBeat \in Senders /\ beats' = beats /\ coord' = coord
        /\ \E beat \in BOOLEAN : Sends(TurnBeat, Rounds(TurnBeat, task[TurnBeat]), beat)
    BY <1>4 DEF TurnTicks
  <2> QED BY <2>1, SendsIsRecent
<1>5. CASE Receives
  BY <1>5, ReceivesIsRecent
<1>6. CASE Ticks
  <2>1. Evaluates(FALSE) /\ UNCHANGED <<queue, beats, lastBeat>>
    BY <1>6 DEF Ticks
  <2>2. coord'.held = coord.held
    BY <1>1, <2>1, EvaluatesTyped
  <2> QED BY <1>2, <2>1, <2>2
<1>7. CASE Writes
  <2>1. UNCHANGED <<queue, beats, lastBeat>>
    BY <1>7 DEF Writes
  <2>2. coord'.held = Selects.held
    <3>1. Selects \in Coordinator
      BY <1>1, SelectsTyped
    <3>2. \/ coord' = [Selects EXCEPT !.wrote = TRUE]
          \/ coord' = [Selects EXCEPT !.failed = TRUE]
          \/ coord' = Selects
      BY <1>7 DEF Writes
    <3> QED BY <3>1, <3>2 DEF Coordinator
  <2>3. coord'.held = coord.held \/ queue = <<>>
    BY <1>1, <2>2, SelectsTyped
  <2> QED BY <1>2, <2>1, <2>3
<1>8. CASE Prompted \/ Begins \/ ReportsTerminal \/ Stops \/ GraceRunsOut
  <2>1. UNCHANGED <<queue, beats, lastBeat>> /\ coord' = [coord EXCEPT !.current = FALSE]
    BY <1>8 DEF Prompted, Begins, ReportsTerminal, Stops, GraceRunsOut, SessionSteps
  <2>2. coord'.held = coord.held
    BY <1>1, <2>1 DEF WorkTypeOK, Coordinator
  <2> QED BY <1>2, <2>1, <2>2
<1>9. CASE Second
  BY <1>9, SecondIsRecent
<1>10. CASE UNCHANGED workVars
  BY <1>2, <1>10 DEF workVars
<1> QED BY <1>3, <1>4, <1>5, <1>6, <1>7, <1>8, <1>9, <1>10 DEF WorkNext

(* Whenever the coordinator is up to date and says active, a heartbeat     *)
(* really beat within its staleness bound and has not missed since, with   *)
(* the delay of the host added if it took the beat up late: for any        *)
(* heartbeats, shared labels included, and a host that is slow any number  *)
(* of times.                                                               *)
THEOREM ActiveRestsOnABeat == WorkSpec => []ActiveIsRecent
<1>1. WorkInit => MapIsRecent
  <2> SUFFICES ASSUME WorkInit PROVE MapIsRecent
    OBVIOUS
  <2>1. queue = <<>> /\ \A l \in Labels : ~beats[l].beating
    BY DEF WorkInit, Unheard
  <2> QED BY <2>1, NothingIsLast DEF MapIsRecent, Counts
<1>2. WorkInv /\ WorkInv' /\ MapIsRecent /\ [WorkNext]_workVars => MapIsRecent'
  BY RecentStep DEF WorkInv
<1>3. WorkInv /\ MapIsRecent => ActiveIsRecent
  <2> SUFFICES ASSUME WorkInv, MapIsRecent, UpToDate, state \in {"active", "active-late"}
               PROVE  \E h \in Senders : lastBeat[h] <= Bound(Interval[h]) + beats[Label[h]].waited
    BY DEF ActiveIsRecent
  <2>1. queue = <<>> /\ state = CombineWorkState(beats)
    BY DEF UpToDate, Settled, WorkInv, StateFollows
  <2>2. PICK l \in Labels : Counts(beats[l])
    BY <2>1 DEF CombineWorkState
  <2>3. PICK h \in Senders : /\ SentBy(h, l, beats[l].interval)
                             /\ lastBeat[h] <= beats[l].age + beats[l].waited
    BY <2>1, <2>2, NothingIsLast DEF MapIsRecent
  <2>4. /\ lastBeat[h] \in Nat /\ Bound(Interval[h]) \in Nat
        /\ beats[l].age \in Nat /\ beats[l].waited \in Nat
    <3>1. lastBeat[h] \in 0..Forgotten(Interval[h]) /\ beats[l] \in Stored
      BY DEF WorkInv, TypedAndSent, WorkTypeOK
    <3> QED BY <3>1, IntervalsAreTyped, BoundIsNat DEF Stored
  <2>5. beats[l].age <= Bound(Interval[h]) /\ Label[h] = l
    BY <2>2, <2>3, <2>4 DEF Counts, IsStale, SentBy
  <2> QED BY <2>3, <2>4, <2>5
<1> QED BY <1>1, <1>2, <1>3, WorkInvariant, PTL DEF WorkSpec

-----------------------------------------------------------------------------
(* A live task is not stale.  What bounds the age of its beat is where it  *)
(* is in its round: one interval while it waits, another for the check,    *)
(* and a third for the detail body.  An update on its way makes it new.    *)
Distinct == \A g, h \in Senders : Label[g] = Label[h] => g = h

Fresh(h, t, b) ==
  /\ b.interval = Interval[h]
  /\ t.pc = "waiting" => b.age <= t.spent /\ b.age <= Interval[h]
  /\ t.pc = "checking" => b.age <= Interval[h] + t.body
  /\ t.pc = "detailing" => b.age <= Interval[h] + Interval[h] + t.body

LiveAs(h, t) ==
  /\ t.pc = "dead" => ~t.beating
  /\ t.beating /\ NoneFor(Label[h]) => Fresh(h, t, beats[Label[h]])

LiveTasksAreFresh == \A h \in Senders : LiveAs(h, task[h])

\* A task that sends.
LEMMA SendsIsFresh ==
  ASSUME TypedAndSent, LiveTasksAreFresh, NEW h \in Senders, NEW t \in Task(h),
         NEW beat \in BOOLEAN, Sends(h, t, beat), beats' = beats
  PROVE  LiveTasksAreFresh'
<1> DEFINE u == [label |-> Label[h], beating |-> beat,
                 late |-> beat /\ t.run >= Timeout[h], interval |-> Interval[h]]
           w == [t EXCEPT !.pc = "waiting", !.body = 0, !.beating = beat, !.run = IF beat THEN @ ELSE 0]
<1>1. task' = [task EXCEPT ![h] = w] /\ queue' = Append(queue, u)
  BY DEF Sends
<1>2. u \in Update /\ u.label = Label[h]
  <2>1. (beat /\ t.run >= Timeout[h]) \in BOOLEAN
    OBVIOUS
  <2> QED BY <2>1, IntervalsAreTyped DEF Update
<1>3. w.pc = "waiting"
  BY DEF Task
<1> HIDE DEF u, w
<1>4. \A l : NoneFor(l)' => NoneFor(l) /\ l # Label[h]
  BY <1>1, <1>2, QueueGrows DEF TypedAndSent, WorkTypeOK
<1>5. task'[h] = w /\ \A g \in Senders : g # h => task'[g] = task[g]
  BY <1>1 DEF TypedAndSent, Sent
<1> QED BY <1>3, <1>4, <1>5 DEF LiveTasksAreFresh, LiveAs, Fresh

\* A task that moves on without sending.
LEMMA MovesIsFresh ==
  ASSUME TypedAndSent, LiveTasksAreFresh, NEW h \in Senders, NEW t,
         task' = [task EXCEPT ![h] = t], UNCHANGED <<queue, beats>>, LiveAs(h, t)
  PROVE  LiveTasksAreFresh'
<1>1. task'[h] = t /\ \A g \in Senders : g # h => task'[g] = task[g]
  BY DEF TypedAndSent, Sent
<1>2. \A l : NoneFor(l)' <=> NoneFor(l)
  BY DEF NoneFor
<1> QED BY <1>1, <1>2 DEF LiveTasksAreFresh, LiveAs, Fresh

LEMMA HeartbeatsAreFresh ==
  ASSUME TypedAndSent, LiveTasksAreFresh, NEW h \in Senders,
         \/ CheckStarts(h) \/ CheckMisses(h) \/ CheckPasses(h)
         \/ DetailEnds(h) \/ DetailLingers(h) \/ LingererExits(h)
         \/ Aborted(h) \/ Spawned(h)
  PROVE  LiveTasksAreFresh'
<1>1. /\ task[h] \in Task(h) /\ LiveAs(h, task[h])
      /\ Interval[h] \in Nat /\ TooOld(Longest) \in Nat
  BY IntervalsAreTyped, BoundIsNat DEF TypedAndSent, WorkTypeOK, LiveTasksAreFresh
<1>2. beats[Label[h]].age \in Nat
  BY <1>1, IntervalsAreTyped DEF TypedAndSent, WorkTypeOK, Stored
<1>3. CASE CheckStarts(h)
  <2> DEFINE t == [Rounds(h, task[h]) EXCEPT !.pc = "checking"]
  <2>1. /\ task' = [task EXCEPT ![h] = t] /\ UNCHANGED <<queue, beats>>
        /\ task[h].pc = "waiting"
    BY <1>3 DEF CheckStarts, Due
  <2>2. /\ Rounds(h, task[h]) \in Task(h) /\ Rounds(h, task[h]).beating = task[h].beating
        /\ Rounds(h, task[h]).body = 0
    BY <1>1, RoundsIsTyped
  <2>3. t.pc = "checking" /\ t.beating = task[h].beating /\ t.body = 0
    BY <2>2 DEF Task
  <2> HIDE DEF t
  <2>4. LiveAs(h, t)
    BY <1>1, <1>2, <2>1, <2>3 DEF LiveAs, Fresh
  <2> QED BY <2>1, <2>4, MovesIsFresh
<1>4. ASSUME NEW beat \in BOOLEAN, Sends(h, task[h], beat), beats' = beats
      PROVE  LiveTasksAreFresh'
  BY <1>1, <1>4, SendsIsFresh
<1>5. CASE CheckMisses(h)
  BY <1>4, <1>5 DEF CheckMisses
<1>6. CASE CheckPasses(h)
  <2>1. CASE Sends(h, task[h], TRUE)
    BY <1>4, <1>6, <2>1 DEF CheckPasses
  <2>2. CASE ~Sends(h, task[h], TRUE)
    <3> DEFINE t == [task[h] EXCEPT !.pc = "detailing", !.body = 0]
    <3>1. /\ task[h].pc = "checking" /\ task' = [task EXCEPT ![h] = t]
          /\ UNCHANGED <<queue, beats>>
      BY <1>1, <1>6, <2>2 DEF CheckPasses, TypedAndSent, Sent
    <3>2. /\ t.pc = "detailing" /\ t.beating = task[h].beating /\ t.body = 0
          /\ task[h].body \in Nat /\ task[h].body <= Interval[h]
      BY <1>1 DEF Task
    <3> HIDE DEF t
    <3>3. LiveAs(h, t)
      BY <1>1, <1>2, <3>1, <3>2 DEF LiveAs, Fresh
    <3> QED BY <3>1, <3>3, MovesIsFresh
  <2> QED BY <2>1, <2>2
<1>7. CASE DetailEnds(h)
  BY <1>4, <1>7 DEF DetailEnds
<1>8. CASE DetailLingers(h)
  <2> DEFINE t == [task[h] EXCEPT !.pc = "lingering", !.body = 0]
  <2>1. task' = [task EXCEPT ![h] = t] /\ UNCHANGED <<queue, beats>> /\ task[h].pc = "detailing"
    BY <1>1, <1>8 DEF DetailLingers, TypedAndSent, Sent
  <2>2. t.pc = "lingering" /\ t.beating = task[h].beating
    BY <1>1 DEF Task
  <2> HIDE DEF t
  <2>3. LiveAs(h, t)
    BY <1>1, <2>1, <2>2 DEF LiveAs, Fresh
  <2> QED BY <2>1, <2>3, MovesIsFresh
<1>9. CASE LingererExits(h)
  BY <1>4, <1>9 DEF LingererExits
<1>10. CASE Aborted(h)
  <2> DEFINE t == [NewTask(h) EXCEPT !.pc = "dead", !.spent = 0]
  <2>1. task' = [task EXCEPT ![h] = t] /\ UNCHANGED <<queue, beats>>
    BY <1>10 DEF Aborted
  <2>2. ~t.beating
    BY DEF NewTask
  <2> HIDE DEF t
  <2>3. LiveAs(h, t)
    BY <2>2 DEF LiveAs
  <2> QED BY <2>1, <2>3, MovesIsFresh
<1>11. CASE Spawned(h)
  <2>1. task' = [task EXCEPT ![h] = NewTask(h)] /\ UNCHANGED <<queue, beats>>
    BY <1>11 DEF Spawned
  <2>2. LiveAs(h, NewTask(h))
    BY DEF LiveAs, NewTask
  <2> QED BY <2>1, <2>2, MovesIsFresh
<1> QED BY <1>3, <1>5, <1>6, <1>7, <1>8, <1>9, <1>10, <1>11

\* The coordinator takes an update.
LEMMA ReceivesIsFresh ==
  ASSUME Distinct, TypedAndSent, LiveTasksAreFresh, Receives
  PROVE  LiveTasksAreFresh'
<1> DEFINE u == Head(queue)
<1>1. /\ queue # <<>> /\ queue' = Tail(queue) /\ task' = task
      /\ beats' = [beats EXCEPT ![u.label] = TakenUp(u)]
  BY DEF Receives
<1>2. queue \in Seq(SentUpdate)
  BY DEF TypedAndSent, Sent
<1>3. u \in SentUpdate
  BY <1>1, <1>2, HeadTailProperties
<1>4. \A l : NoneFor(l)' => \/ l # u.label /\ NoneFor(l)
                            \/ l = u.label
  BY <1>1, <1>2, QueueShrinks
<1> HIDE DEF u
<1>5. \A l \in Labels : IF l = u.label
                          THEN beats'[l].interval = u.interval /\ beats'[l].age = 0
                          ELSE beats'[l] = beats[l]
  BY <1>1, <1>3 DEF SentUpdate, Update, TypedAndSent, WorkTypeOK, TakenUp
<1>6. ASSUME NEW h \in Senders PROVE LiveAs(h, task[h])'
  <2>1. LiveAs(h, task[h]) /\ Label[h] \in Labels /\ task[h] \in Task(h) /\ Interval[h] \in Nat
    BY IntervalsAreTyped DEF LiveTasksAreFresh, TypedAndSent, WorkTypeOK
  <2>2. CASE Label[h] # u.label
    BY <1>1, <1>4, <1>5, <2>1, <2>2 DEF LiveAs, Fresh
  <2>3. CASE Label[h] = u.label
    <3>1. u.interval = Interval[h]
      BY <1>3, <2>3 DEF Distinct, SentUpdate, SentBy
    <3>2. beats'[Label[h]].interval = Interval[h] /\ beats'[Label[h]].age = 0
      BY <1>5, <2>1, <2>3, <3>1
    <3>3. task[h].spent \in Nat /\ task[h].body \in Nat
      BY <2>1 DEF Task
    <3>4. task' = task /\ Interval[h] \in Nat
      BY <1>1, <2>1
    <3>5. Fresh(h, task[h], beats[Label[h]])'
      BY <3>2, <3>3, <3>4 DEF Fresh
    <3> QED BY <2>1, <3>4, <3>5 DEF LiveAs
  <2> QED BY <2>2, <2>3
<1> QED BY <1>6 DEF LiveTasksAreFresh

\* A second passes: what waits is not due, and a body is within its budget.
LEMMA SecondIsFresh ==
  ASSUME TypedAndSent, LiveTasksAreFresh, Second
  PROVE  LiveTasksAreFresh'
<1>1. /\ Settled /\ queue' = queue
      /\ task' = [h \in Senders |-> Ages(h, task[h])]
      /\ beats' = [l \in Labels |-> AgesStored(beats[l])]
  BY DEF Second
<1>2. \A l : NoneFor(l)' <=> NoneFor(l)
  BY <1>1 DEF NoneFor
<1>3. ASSUME NEW h \in Senders PROVE LiveAs(h, task[h])'
  <2> DEFINE t == task[h]
             s == task'[h]
             b == beats[Label[h]]
             c == beats'[Label[h]]
  <2>1. /\ LiveAs(h, t) /\ Label[h] \in Labels /\ t \in Task(h) /\ Interval[h] \in Nat
        /\ t.spent \in Nat /\ t.body \in Nat
    BY IntervalsAreTyped DEF LiveTasksAreFresh, TypedAndSent, WorkTypeOK, Task
  <2>2. /\ t.pc = "waiting" => t.spent < Interval[h]
        /\ t.pc \in {"checking", "detailing"} => t.body < Interval[h]
    BY <1>1, <2>1 DEF Settled, Due, Files, TypedAndSent, Sent
  <2>3. /\ s = Ages(h, t) /\ s.pc = t.pc /\ s.beating = t.beating
        /\ t.pc = "waiting" => s.spent = t.spent + 1
        /\ s.body = IF t.pc \in {"checking", "detailing"} THEN t.body + 1 ELSE 0
    BY <1>1, <2>1, <2>2, AgesTyped
  <2>4. b \in Stored /\ c = AgesStored(b) /\ b.age \in Nat /\ (b.beating => b.interval <= Longest)
    <3>1. TooOld(Longest) \in Nat
      BY IntervalsAreTyped, BoundIsNat
    <3>2. b \in Stored /\ c = AgesStored(b)
      BY <1>1, <2>1 DEF TypedAndSent, WorkTypeOK
    <3>3. b.beating => b.interval <= Longest
      BY <2>1, IntervalsAreTyped DEF TypedAndSent, Sent, SentBy
    <3>4. b.age \in Nat
      BY <3>1, <3>2 DEF Stored
    <3> QED BY <3>2, <3>3, <3>4
  <2>5. c.interval = b.interval /\ c.age <= b.age + 1 /\ c.age \in Nat
    <3>1. CASE ~b.beating
      BY <2>4, <3>1 DEF AgesStored
    <3>2. CASE b.beating
      <4>1. b.interval \in Nat /\ TooOld(b.interval) \in Nat
        BY <2>4, BoundIsNat DEF Stored
      <4>2. c.age = Older(b.age, b.interval) /\ c.interval = b.interval
        BY <2>4, <3>2, AgesStoredTyped
      <4> QED BY <2>4, <4>1, <4>2 DEF Older, Least
    <3> QED BY <3>1, <3>2
  <2> HIDE DEF t, s, b, c
  <2>6. Fresh(h, t, b) => Fresh(h, s, c)
    BY <2>1, <2>2, <2>3, <2>4, <2>5 DEF Fresh
  <2>7. s.pc = "dead" => ~s.beating
    BY <2>1, <2>3 DEF LiveAs
  <2>8. s.beating /\ NoneFor(Label[h])' => Fresh(h, s, c)
    BY <1>2, <2>1, <2>3, <2>6 DEF LiveAs, b
  <2> QED BY <2>7, <2>8 DEF LiveAs, Fresh, s, c
<1> QED BY <1>3 DEF LiveTasksAreFresh

LEMMA FreshStep ==
  ASSUME Distinct, TypedAndSent, LiveTasksAreFresh, [WorkNext]_workVars
  PROVE  LiveTasksAreFresh'
<1>1. ASSUME UNCHANGED <<task, queue, beats>> PROVE LiveTasksAreFresh'
  BY <1>1 DEF LiveTasksAreFresh, LiveAs, Fresh, NoneFor
<1>2. CASE TurnTicks
  <2>1. /\ TurnBeat \in Senders /\ beats' = beats
        /\ Sends(TurnBeat, Rounds(TurnBeat, task[TurnBeat]), armed # Silent)
    BY <1>2 DEF TurnTicks
  <2> DEFINE t == Rounds(TurnBeat, task[TurnBeat])
             beat == armed # Silent
  <2>2. t \in Task(TurnBeat) /\ beat \in BOOLEAN
    BY <2>1, RoundsIsTyped DEF TypedAndSent, WorkTypeOK
  <2>3. Sends(TurnBeat, t, beat)
    BY <2>1
  <2> HIDE DEF t, beat
  <2> QED BY <2>1, <2>2, <2>3, SendsIsFresh
<1>3. CASE Ticks \/ Writes \/ Prompted \/ Begins \/ ReportsTerminal \/ Stops \/ GraceRunsOut
  <2>1. UNCHANGED <<task, queue, beats>>
    BY <1>3 DEF Ticks, Writes, Prompted, Begins, ReportsTerminal, Stops, GraceRunsOut, SessionSteps
  <2> QED BY <1>1, <2>1
<1>4. CASE UNCHANGED workVars
  BY <1>1, <1>4 DEF workVars
<1> QED BY <1>2, <1>3, <1>4, HeartbeatsAreFresh, ReceivesIsFresh, SecondIsFresh DEF WorkNext

\* Nothing that is fresh is stale: three intervals fit.
LEMMA FreshIsNotStale ==
  ASSUME Multiplier >= 3, TypedAndSent, LiveTasksAreFresh, queue = <<>>,
         NEW h \in Senders, task[h].beating, task[h].pc # "lingering"
  PROVE  ~IsStale(beats[Label[h]])
<1> DEFINE t == task[h]
           b == beats[Label[h]]
<1>1. /\ LiveAs(h, t) /\ t \in Task(h) /\ Interval[h] \in Nat /\ Label[h] \in Labels
      /\ TooOld(Longest) \in Nat
  BY IntervalsAreTyped, BoundIsNat DEF LiveTasksAreFresh, TypedAndSent, WorkTypeOK
<1>2. /\ t.body \in Nat /\ t.body <= Interval[h]
      /\ t.pc \in {"waiting", "checking", "detailing", "lingering", "dead"}
  BY <1>1 DEF Task
<1>3. b.age \in Nat
  BY <1>1 DEF TypedAndSent, WorkTypeOK, Stored
<1>4. Fresh(h, t, b) /\ t.pc # "dead"
  BY <1>1, NothingIsLast DEF LiveAs
<1> HIDE DEF t, b
<1>5. b.age <= Interval[h] + Interval[h] + Interval[h] /\ b.interval = Interval[h]
  <2>1. t.pc \in {"waiting", "checking", "detailing"}
    BY <1>2, <1>4 DEF t
  <2> QED BY <1>1, <1>2, <1>3, <1>4, <2>1 DEF Fresh
<1>6. Interval[h] + Interval[h] + Interval[h] <= Bound(Interval[h]) /\ Bound(Interval[h]) \in Nat
  BY <1>1, ThreeFit, BoundIsNat
<1>7. b.age <= Bound(b.interval)
  BY <1>1, <1>3, <1>5, <1>6
<1> QED BY <1>1, <1>3, <1>5, <1>6, <1>7 DEF IsStale, b

LEMMA FreshAtFirst == WorkInit => LiveTasksAreFresh
BY DEF WorkInit, LiveTasksAreFresh, LiveAs, NewTask

(* A task that is alive is never taken for dead: its beat is at most three *)
(* intervals old, one for the wait, one for the check and one for the      *)
(* detail body, and three fit into the bound.  For any heartbeats with     *)
(* labels of their own, and any delay of the host.                         *)
THEOREM LiveTasksAreNotDropped ==
  ASSUME Distinct, Multiplier >= 3
  PROVE  WorkSpec => []LiveTaskIsNotStale
<1>1. WorkInv /\ LiveTasksAreFresh /\ [WorkNext]_workVars => LiveTasksAreFresh'
  BY FreshStep DEF WorkInv
<1>2. WorkInv /\ LiveTasksAreFresh => LiveTaskIsNotStale
  <2> SUFFICES ASSUME WorkInv, LiveTasksAreFresh, UpToDate, NEW h \in Senders,
                      task[h].beating, task[h].pc # "lingering"
               PROVE  ~IsStale(beats[Label[h]])
    BY DEF LiveTaskIsNotStale
  <2>1. TypedAndSent /\ queue = <<>>
    BY DEF WorkInv, UpToDate, Settled
  <2> QED BY <2>1, FreshIsNotStale
<1> QED BY <1>1, <1>2, FreshAtFirst, WorkInvariant, PTL DEF WorkSpec

-----------------------------------------------------------------------------
(* A turn in flight is active.  A turn that has been armed for longer than *)
(* this round of the turn heartbeat has been seen by it; and what it last  *)
(* saw is the last thing on its way to the coordinator or, with nothing on *)
(* the way, what the coordinator has stored.                               *)
TurnIsSeen == armed > task[TurnBeat].spent + 1 => task[TurnBeat].beating

Told(label, beating) ==
  /\ \A u \in LastFor(label) : u.beating = beating
  /\ NoneFor(label) => beats[label].beating = beating

TurnIsTold == Told(Label[TurnBeat], task[TurnBeat].beating)

TurnShows == TurnIsSeen /\ TurnIsTold

LEMMA HeartbeatsShow ==
  ASSUME Distinct, TurnBeat \in Senders, TypedAndSent, TurnShows, NEW h \in Senders,
         \/ CheckStarts(h) \/ CheckMisses(h) \/ CheckPasses(h)
         \/ DetailEnds(h) \/ DetailLingers(h) \/ LingererExits(h)
         \/ Aborted(h) \/ Spawned(h)
  PROVE  TurnShows'
<1>1. task[TurnBeat].pc = "waiting" /\ DOMAIN task = Senders /\ queue \in Seq(Update)
  BY DEF TypedAndSent, WorkTypeOK, Sent
<1>2. h # TurnBeat /\ armed' = armed /\ beats' = beats
  BY <1>1 DEF CheckStarts, CheckMisses, CheckPasses, DetailEnds, DetailLingers, LingererExits,
              Aborted, Spawned, Files
<1>3. \/ queue' = queue /\ task'[TurnBeat] = task[TurnBeat]
      \/ \E beat \in BOOLEAN : Sends(h, task[h], beat)
  BY <1>1, <1>2 DEF CheckStarts, CheckMisses, CheckPasses, DetailEnds, DetailLingers,
                    LingererExits, Aborted, Spawned
<1>4. CASE queue' = queue /\ task'[TurnBeat] = task[TurnBeat]
  BY <1>2, <1>4 DEF TurnShows, TurnIsSeen, TurnIsTold, Told, LastFor, NoneFor
<1>5. ASSUME NEW beat \in BOOLEAN, Sends(h, task[h], beat) PROVE TurnShows'
  <2> DEFINE u == [label |-> Label[h], beating |-> beat,
                   late |-> beat /\ task[h].run >= Timeout[h], interval |-> Interval[h]]
  <2>1. queue' = Append(queue, u)
    BY <1>5 DEF Sends
  <2>2. task'[TurnBeat] = task[TurnBeat]
    BY <1>1, <1>2, <1>5 DEF Sends
  <2>3. u \in Update /\ u.label = Label[h]
    <3>1. (beat /\ task[h].run >= Timeout[h]) \in BOOLEAN
      OBVIOUS
    <3> QED BY <3>1, IntervalsAreTyped DEF Update
  <2>4. Label[h] # Label[TurnBeat]
    BY <1>2 DEF Distinct
  <2> HIDE DEF u
  <2>5. LastFor(Label[TurnBeat])' = LastFor(Label[TurnBeat])
        /\ (NoneFor(Label[TurnBeat])' => NoneFor(Label[TurnBeat]))
    BY <1>1, <2>1, <2>3, <2>4, QueueGrows
  <2> QED BY <1>2, <2>2, <2>5 DEF TurnShows, TurnIsSeen, TurnIsTold, Told
<1> QED BY <1>3, <1>4, <1>5

LEMMA TurnTicksShow ==
  ASSUME TypedAndSent, TurnTicks
  PROVE  TurnShows'
<1> DEFINE h == TurnBeat
           t == Rounds(h, task[h])
           beat == armed # Silent
           u == [label |-> Label[h], beating |-> beat,
                 late |-> beat /\ t.run >= Timeout[h], interval |-> Interval[h]]
           w == [t EXCEPT !.pc = "waiting", !.body = 0, !.beating = beat, !.run = IF beat THEN @ ELSE 0]
<1>1. /\ h \in Senders /\ armed' = armed
      /\ task' = [task EXCEPT ![h] = w] /\ queue' = Append(queue, u)
  BY DEF TurnTicks, Sends
<1>2. t \in Task(h) /\ t.spent = 0
  BY <1>1, RoundsIsTyped DEF TypedAndSent, WorkTypeOK
<1>3. beat \in BOOLEAN
  OBVIOUS
<1> HIDE DEF t
<1>4. u \in Update /\ u.label = Label[h] /\ u.beating = beat
  <2>1. (beat /\ t.run >= Timeout[h]) \in BOOLEAN
    OBVIOUS
  <2> QED BY <1>1, <2>1, IntervalsAreTyped DEF Update
<1>5. w.beating = beat /\ w.spent = 0
  BY <1>2 DEF Task
<1> HIDE DEF u, w
<1>6. task'[h] = w
  BY <1>1 DEF TypedAndSent, Sent
<1>7. LastFor(Label[h])' = {u} /\ ~NoneFor(Label[h])'
  BY <1>1, <1>4, QueueGrows DEF TypedAndSent, WorkTypeOK
<1>8. TurnIsTold'
  BY <1>4, <1>5, <1>6, <1>7 DEF TurnIsTold, Told
<1>9. TurnIsSeen'
  <2>1. armed \in Nat
    BY IntervalsAreTyped DEF TypedAndSent, WorkTypeOK, Noticed
  <2>2. task'[TurnBeat].spent = 0 /\ (task'[TurnBeat].beating <=> armed # 0)
    BY <1>5, <1>6 DEF Silent
  <2>3. armed > 1 => armed # 0
    BY <2>1
  <2> QED BY <1>1, <2>2, <2>3 DEF TurnIsSeen
<1> QED BY <1>8, <1>9 DEF TurnShows

LEMMA ReceivesShow ==
  ASSUME TurnBeat \in Senders, TypedAndSent, TurnShows, Receives
  PROVE  TurnShows'
<1> DEFINE u == Head(queue)
           label == Label[TurnBeat]
<1>1. /\ queue # <<>> /\ queue' = Tail(queue) /\ task' = task /\ armed' = armed
      /\ beats' = [beats EXCEPT ![u.label] = TakenUp(u)]
  BY DEF Receives
<1>2. queue \in Seq(Update) /\ beats \in [Labels -> Stored] /\ label \in Labels
  BY IntervalsAreTyped DEF TypedAndSent, WorkTypeOK
<1>3. u \in Update
  BY <1>1, <1>2, HeadTailProperties
<1>4. /\ \/ LastFor(label)' = LastFor(label)
         \/ label = u.label /\ LastFor(label) = {u} /\ LastFor(label)' = {}
      /\ NoneFor(label)' => \/ label # u.label /\ NoneFor(label)
                            \/ label = u.label /\ LastFor(label) = {u}
  BY <1>1, <1>2, QueueShrinks
<1> HIDE DEF u, label
<1>5. IF label = u.label THEN beats'[label].beating = u.beating ELSE beats'[label] = beats[label]
  BY <1>1, <1>2, <1>3 DEF Update, TakenUp
<1>6. Told(label, task[TurnBeat].beating)'
  BY <1>1, <1>4, <1>5 DEF TurnShows, TurnIsTold, Told, label
<1> QED BY <1>1, <1>6 DEF TurnShows, TurnIsSeen, TurnIsTold, label

LEMMA SecondShows ==
  ASSUME TurnBeat \in Senders, TypedAndSent, TurnShows, Second
  PROVE  TurnShows'
<1> DEFINE label == Label[TurnBeat]
           t == task[TurnBeat]
<1>1. /\ Settled /\ queue' = queue
      /\ task' = [h \in Senders |-> Ages(h, task[h])]
      /\ beats' = [l \in Labels |-> AgesStored(beats[l])]
      /\ armed' = IF armed = Silent THEN Silent ELSE Least(armed + 1, Noticed)
  BY DEF Second
<1>2. /\ t \in Task(TurnBeat) /\ t.pc = "waiting" /\ label \in Labels /\ Interval[TurnBeat] \in Nat
      /\ t.spent \in Nat /\ armed \in Nat /\ Noticed \in Nat
  BY IntervalsAreTyped DEF TypedAndSent, WorkTypeOK, Sent, Task, Noticed
<1>3. t.spent < Interval[TurnBeat]
  BY <1>1, <1>2 DEF Settled, Due
<1>4. task'[TurnBeat].spent = t.spent + 1 /\ task'[TurnBeat].beating = t.beating
  BY <1>1, <1>2, <1>3, AgesTyped
<1>5. armed' <= armed + 1 /\ armed' \in Nat /\ (armed' > 0 => armed > 0)
  BY <1>1, <1>2 DEF Least, Silent
<1>6. TurnIsSeen'
  BY <1>2, <1>4, <1>5 DEF TurnIsSeen, TurnShows
<1>7. beats'[label].beating = beats[label].beating
  <2>1. beats[label] \in Stored /\ beats'[label] = AgesStored(beats[label])
    BY <1>1, <1>2 DEF TypedAndSent, WorkTypeOK
  <2> QED BY <2>1 DEF AgesStored, Stored
<1>8. LastFor(label)' = LastFor(label) /\ NoneFor(label)' = NoneFor(label)
  BY <1>1 DEF LastFor, NoneFor
<1>9. Told(label, t.beating)'
  BY <1>4, <1>7, <1>8 DEF TurnShows, TurnIsTold, Told
<1> QED BY <1>6, <1>9 DEF TurnShows, TurnIsTold

LEMMA ShowsStep ==
  ASSUME Distinct, TurnBeat \in Senders, TypedAndSent, TurnShows, [WorkNext]_workVars
  PROVE  TurnShows'
<1>1. ASSUME UNCHANGED <<task, queue, beats>>, armed' \in {armed, Arm, Silent} PROVE TurnShows'
  <2>1. armed \in Nat /\ task[TurnBeat].spent \in Nat
    BY IntervalsAreTyped DEF TypedAndSent, WorkTypeOK, Noticed, Task
  <2>2. armed' = armed \/ armed' <= 1
    BY <1>1 DEF Arm, Silent
  <2>3. armed' \in Nat
    BY <1>1, <2>1 DEF Arm, Silent
  <2>4. TurnIsSeen'
    BY <1>1, <2>1, <2>2, <2>3 DEF TurnIsSeen, TurnShows
  <2> QED BY <1>1, <2>4 DEF TurnShows, TurnIsTold, Told, LastFor, NoneFor
<1>2. CASE Prompted \/ Begins \/ ReportsTerminal \/ Stops \/ GraceRunsOut
  <2>1. PICK t, flag : Turned(t, flag)
    BY <1>2, SessionTurns DEF TypedAndSent
  <2> QED BY <1>1, <2>1 DEF Turned, SessionSteps
<1>3. CASE Ticks \/ Writes
  BY <1>1, <1>3 DEF Ticks, Writes
<1>4. CASE UNCHANGED workVars
  BY <1>1, <1>4 DEF workVars
<1> QED BY <1>2, <1>3, <1>4, HeartbeatsShow, TurnTicksShow, ReceivesShow, SecondShows DEF WorkNext

LEMMA ShowsAtFirst ==
  ASSUME TurnBeat \in Senders
  PROVE  WorkInit => TurnShows
<1> SUFFICES ASSUME WorkInit PROVE TurnShows
  OBVIOUS
<1>1. /\ queue = <<>> /\ armed = 0 /\ ~task[TurnBeat].beating /\ task[TurnBeat].spent \in Nat
      /\ ~beats[Label[TurnBeat]].beating
      /\ task[TurnBeat].beating \in BOOLEAN /\ beats[Label[TurnBeat]].beating \in BOOLEAN
  BY IntervalsAreTyped DEF WorkInit, NewTask, Unheard, Silent
<1>2. LastFor(Label[TurnBeat]) = {}
  BY <1>1, NothingIsLast
<1> QED BY <1>1, <1>2 DEF TurnShows, TurnIsSeen, TurnIsTold, Told

(* What is reported of the work is of this second: the record shows the    *)
(* coordinator's state unless a write of this second failed, and the state *)
(* is not idle once a turn has been in flight for an interval of its       *)
(* heartbeat.  For any heartbeats with labels of their own.                *)
THEOREM WorkIsReportedAsItIs ==
  ASSUME Distinct, Multiplier >= 3, TurnBeat \in Senders
  PROVE  WorkSpec => []ReportedAsItIs
<1>1. WorkInv /\ LiveTasksAreFresh /\ [WorkNext]_workVars => LiveTasksAreFresh'
  BY FreshStep DEF WorkInv
<1>2. WorkInv /\ TurnShows /\ [WorkNext]_workVars => TurnShows'
  BY ShowsStep DEF WorkInv
<1>3. WorkInv => WorkTypeOK
  BY DEF WorkInv, TypedAndSent
<1>4. WorkInv => RecordIsCurrent
  BY DEF WorkInv, RecordFollows, RecordIsCurrent, UpToDate, Settled
<1>5. WorkInv /\ LiveTasksAreFresh /\ TurnShows => TurnInFlightShowsActive
  <2> SUFFICES ASSUME WorkInv, LiveTasksAreFresh, TurnShows, UpToDate, armed > Interval[TurnBeat]
               PROVE  state # "idle"
    BY DEF TurnInFlightShowsActive
  <2>1. /\ TypedAndSent /\ queue = <<>> /\ ~Due(TurnBeat) /\ task[TurnBeat].pc = "waiting"
        /\ state = CombineWorkState(beats)
    BY DEF WorkInv, UpToDate, Settled, StateFollows, TypedAndSent, Sent
  <2>2. /\ task[TurnBeat].spent \in Nat /\ armed \in Nat /\ Interval[TurnBeat] \in Nat
        /\ Label[TurnBeat] \in Labels
    BY <2>1, IntervalsAreTyped DEF TypedAndSent, WorkTypeOK, Noticed, Task
  <2>3. task[TurnBeat].spent < Interval[TurnBeat]
    BY <2>1, <2>2 DEF Due
  <2>4. task[TurnBeat].beating
    BY <2>2, <2>3 DEF TurnShows, TurnIsSeen
  <2>5. beats[Label[TurnBeat]].beating
    BY <2>1, <2>4, NothingIsLast DEF TurnShows, TurnIsTold, Told
  <2>6. ~IsStale(beats[Label[TurnBeat]])
    BY <2>1, <2>4, FreshIsNotStale
  <2>7. Counts(beats[Label[TurnBeat]])
    BY <2>5, <2>6 DEF Counts
  <2> QED BY <2>1, <2>2, <2>7 DEF CombineWorkState
<1> QED BY <1>1, <1>2, <1>3, <1>4, <1>5, FreshAtFirst, ShowsAtFirst, WorkInvariant, PTL
        DEF WorkSpec, ReportedAsItIs
=============================================================================
