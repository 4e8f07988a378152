--------------------------- MODULE WorkProduct_proofs ---------------------------
(***************************************************************************)
(* Proofs about the work of an instance: what a launch seeds the guest     *)
(* with, what overwrites the branch the guest pushes to, what a fetch says *)
(* of it, and what landing it does to the board.  For any number of        *)
(* launches that overlap, any commits, and any failures of git.            *)
(***************************************************************************)
EXTENDS WorkProduct, FiniteSetTheorems, WellFoundedInduction, TLAPS

-----------------------------------------------------------------------------
(* The inductive invariant, by what it is about.                           *)

Commits == 1..Len(log)

\* History is linear: what a commit descends from are the commits before it
\* on one line, down to the root.
Linear ==
  \A c \in Commits : /\ c \in From(c) /\ 1 \in From(c) /\ From(c) \subseteq 1..c
                     /\ \A d \in From(c) : From(d) = {e \in From(c) : e <= d}

Late == {"recorded", "cloning", "seeding", "basing", "booting"}

\* Every commit a ref, a plan or a fetch names is there; a launch that goes
\* on from the branch, or has pushed it, has a branch; and one that has not
\* decided yet has no plan.
PlanIn(r, n, branch) ==
  /\ r.seed <= n /\ r.base <= n /\ r.saw <= n /\ r.tip <= n
  /\ r.pc \in {"idle", "cleared", "ready"} => ~r.fresh /\ r.took = "head" /\ r.base = 0
  /\ r.pc \in {"snapped", "planned", "recorded", "cloning", "seeding"} => r.seed # 0
  /\ r.pc \in {"snapped", "planned"} => r.tip # 0
  /\ r.pc = "snapped" => r.fresh /\ r.took = "tree"
  /\ r.pc \in {"planned", "recorded", "cloning", "seeding"} => r.fresh \/ branch # 0
  /\ r.pc \in {"basing", "booting"} => branch # 0
  /\ r.fresh => r.probe \in {"absent", "failed"}
Plan(r) == PlanIn(r, Len(log), mirror.branch)

Plans == \A l \in Launches : Plan(launch[l])

Types ==
  /\ WorkProductTypeOK /\ Linear /\ Plans
  /\ guest.up => guest.clone # 0
  /\ fetch.head <= Len(log) /\ (fetch.pc = "looked" => fetch.head # 0)

\* The mirror's base only ever is what HEAD was, and a launch that has seen it
\* builds on it unless HEAD has left it.
Seen(c) == c \in From(host.head) \cup host.left

BasesAreHeads ==
  /\ mirror.base # 0 => Seen(mirror.base)
  /\ \A l \in Launches :
       /\ launch[l].base # 0 => Seen(launch[l].base)
       /\ launch[l].base # 0 /\ launch[l].saw # 0 =>
            launch[l].saw \in From(launch[l].base) \cup host.left

\* A seed is what the working tree was.
SeedsAreTheTree ==
  \A l \in Launches :
    LET r == launch[l] IN
      r.pc \in {"snapped", "planned"} /\ r.fresh =>
        /\ r.took = "tree" => log[r.seed].has = r.tree
        /\ r.took = "head" => log[r.tip].has = r.tree /\ r.seed = r.tip

\* Beyond HEAD, nothing the guest or the host has differs in its board from
\* the commit of HEAD's history that it was built on, unless it was built on
\* commits that HEAD has left.
KeepsBoard(r) ==
  \A d \in From(r) \ From(host.head) : log[d].board = log[Fork(d, host.head)].board

IsRef(r) == r # 0 /\ \/ r \in {bookmark, earlier, mirror.branch, guest.clone}
                      \/ \E l \in Launches : launch[l].pc # "snapped" /\ launch[l].seed = r

BoardStays ==
  ~past.loose =>
    /\ \A r \in Commits : IsRef(r) /\ From(r) \cap host.left = {} => KeepsBoard(r)
    /\ \A l \in Launches : launch[l].pc = "snapped" =>
         From(launch[l].seed) = From(launch[l].tip) \cup {launch[l].seed}

\* Before the instance has its name there is no trace of it; and what the
\* guard lets through is the work of the earlier instance.
NothingBefore ==
  ~past.minted => /\ mirror.branch = 0 /\ bookmark = 0 /\ ~guest.up
                  /\ \A l \in Launches : launch[l].pc \in {"idle", "done"}

GuardedSaw ==
  \A l \in Launches : launch[l].guarded =>
    launch[l].seen \subseteq UNION {From(b) : b \in {earlier} \ {0}}

\* A text that may reach a session is in the directive, or was.
KeptText(l) == directive # "none" /\ (l = directive \/ l \in past.replaced)

TextIsKept ==
  /\ \A l \in Launches : launch[l].prompted /\ launch[l].pc \in Late \ {"recorded"} => KeptText(l)
  /\ DirectiveOutlivesTheLaunch

\* A fetch that could look goes on only if there was nothing on top.
LookedFirst ==
  fetch.pc = "looked" /\ ~fetch.blind =>
    ~(bookmark # 0 /\ fetch.head # bookmark /\ Descends(fetch.head, bookmark))

\* While the last record is that of a launch that was alone: no other is past
\* its record, the record is its seed, and the branch is at the record if
\* and only if the guest has pushed nothing.
Unseeded(l) == launch[l].pc \in {"recorded", "cloning", "seeding"}
AtRest == {"idle", "cleared", "ready", "done"}

AloneWhileDeciding ==
  \A l, k \in Launches :
    launch[l].pc \in {"snapped", "planned"} /\ launch[l].alone /\ k # l => launch[k].pc \in AtRest

OneAtATime ==
  ~past.muddled =>
    /\ \A l, k \in Launches : launch[l].pc \in Late /\ launch[k].pc \in Late => l = k
    /\ \A l \in Launches : Unseeded(l) => record = launch[l].seed
    /\ (\A l \in Launches : Unseeded(l) => ~launch[l].fresh) =>
         (mirror.branch = record <=> past.pushes = "none")

VerdictFollows ==
  fetch.exact => /\ fetch.pc # "looked"
                 /\ fetch.pc = "pulled" => (bookmark = fetch.seed <=> ~fetch.news)
                 /\ fetch.pc = "idle" => (fetch.verdict = "warned" <=> ~fetch.news)

Inv == /\ Types /\ BasesAreHeads /\ SeedsAreTheTree /\ BoardStays
       /\ NothingBefore /\ GuardedSaw /\ TextIsKept /\ LookedFirst
       /\ AloneWhileDeciding /\ OneAtATime /\ VerdictFollows

-----------------------------------------------------------------------------
(* Histories.                                                              *)

\* What is known of commits wherever the state is typed.
LEMMA CommitsAreTyped ==
  ASSUME WorkProductTypeOK
  PROVE  /\ Len(log) \in Nat /\ Len(log) <= MaxCommits /\ MaxCommits \in Nat /\ Commits \subseteq Nat
         /\ \A c \in Commits : /\ log[c] \in Commit /\ From(c) \subseteq 1..MaxCommits
                               /\ log[c].agent \in BOOLEAN /\ log[c].has \subseteq 1..MaxEdits
                               /\ log[c].board \in 0..MaxBoards
         /\ host.head \in Commits
<1>1. \A c \in Commits : log[c] \in Commit
  BY DEF WorkProductTypeOK, Commits
<1>2. /\ Len(log) \in Nat /\ Len(log) <= MaxCommits /\ MaxCommits \in Nat /\ Commits \subseteq Nat
      /\ host.head \in Commits
  BY WorkProductAssumption DEF WorkProductTypeOK, Commits
<1>3. \A c \in Commits : /\ log[c].from \subseteq 1..MaxCommits
                         /\ log[c].agent \in BOOLEAN /\ log[c].has \subseteq 1..MaxEdits
                         /\ log[c].board \in 0..MaxBoards
  BY <1>1 DEF Commit
<1> QED BY <1>1, <1>2, <1>3 DEF From

LEMMA MaxIsMax ==
  ASSUME NEW S, S # {}, NEW n \in Nat, S \subseteq 1..n
  PROVE  Max(S) \in S /\ \A x \in S : x <= Max(S)
<1> DEFINE R == OpToRel(<, Nat)
           T == {n - x : x \in S}
<1>1. T \subseteq Nat /\ T # {}
  <2>1. \A x \in S : n - x \in Nat
    OBVIOUS
  <2> QED BY <2>1
<1>2. IsWellFoundedOn(R, Nat)
  BY NatLessThanWellFounded
<1>3. \A i, j \in Nat : j < i => <<j, i>> \in R
  BY DEF OpToRel
<1>4. \E t \in T : \A u \in T : ~(u < t)
  <2> HIDE DEF R, T
  <2>1. PICK t \in T : \A u \in T : <<u, t>> \notin R
    BY <1>1, <1>2, WFMin
  <2> QED BY <1>1, <1>3, <2>1
<1>5. PICK x \in S : \A u \in T : ~(u < n - x)
  BY <1>4
<1>6. \A y \in S : x >= y
  <2> SUFFICES ASSUME NEW y \in S PROVE x >= y
    OBVIOUS
  <2>1. n - y \in T /\ ~(n - y < n - x)
    BY <1>5
  <2>2. x \in Nat /\ y \in Nat
    OBVIOUS
  <2> HIDE DEF T
  <2> QED BY <2>1, <2>2
<1>7. Max(S) \in S /\ \A y \in S : Max(S) >= y
  BY <1>6 DEF Max
<1>8. \A y \in S : y \in Nat
  OBVIOUS
<1> QED BY <1>7, <1>8

\* The fork of two commits is the last they have in common.
LEMMA ForkIsLast ==
  ASSUME WorkProductTypeOK, Linear, NEW a \in Commits, NEW b \in Commits
  PROVE  /\ Fork(a, b) \in From(a) \cap From(b) /\ Fork(a, b) \in Commits
         /\ \A e \in From(a) \cap From(b) : e <= Fork(a, b)
         /\ \A f \in From(a) \cap From(b) :
              (\A e \in From(a) \cap From(b) : e <= f) => Fork(a, b) = f
<1> DEFINE S == From(a) \cap From(b)
<1>1. S # {} /\ S \subseteq 1..Len(log) /\ Len(log) \in Nat
  <2>1. 1 \in From(a) /\ 1 \in From(b) /\ From(a) \subseteq 1..a
    BY DEF Linear
  <2>2. Len(log) \in Nat /\ a \in 1..Len(log)
    BY CommitsAreTyped DEF Commits
  <2> QED BY <2>1, <2>2
<1>2. Max(S) \in S /\ \A x \in S : x <= Max(S)
  <2> HIDE DEF S
  <2> QED BY <1>1, MaxIsMax
<1>3. \A x \in S : x \in Nat
  BY <1>1
<1>4. Fork(a, b) = Max(S)
  BY DEF Fork
<1>5. ASSUME NEW f \in S, \A e \in S : e <= f PROVE Fork(a, b) = f
  <2>1. f <= Max(S) /\ Max(S) <= f /\ f \in Nat /\ Max(S) \in Nat
    BY <1>2, <1>3, <1>5
  <2> HIDE DEF S
  <2> QED BY <2>1, <1>4
<1>6. Max(S) \in Commits
  <2> HIDE DEF S
  <2> QED BY <1>1, <1>2 DEF Commits
<1> QED BY <1>2, <1>4, <1>5, <1>6

\* Descent is transitive, and of two commits on one line one descends from
\* the other.
LEMMA DescentIsTransitive ==
  ASSUME WorkProductTypeOK, Linear, NEW c \in Commits, NEW d \in From(c)
  PROVE  /\ d \in Commits /\ From(d) \subseteq From(c) /\ c \in From(c)
         /\ \A e \in From(c) : e \in Commits /\ (e \in From(d) \/ d \in From(e))
<1>1. /\ From(d) = {e \in From(c) : e <= d} /\ From(c) \subseteq 1..c /\ c \in From(c)
      /\ \A e \in From(c) : From(e) = {x \in From(c) : x <= e}
  BY DEF Linear
<1>2. Len(log) \in Nat /\ c \in 1..Len(log)
  BY CommitsAreTyped DEF Commits
<1>3. \A e \in From(c) : e \in 1..Len(log) /\ e \in Nat
  BY <1>1, <1>2
<1>4. \A e \in From(c) : e <= d \/ d <= e
  <2> SUFFICES ASSUME NEW e \in From(c) PROVE e <= d \/ d <= e
    OBVIOUS
  <2>1. e \in Nat /\ d \in Nat
    BY <1>3
  <2> QED BY <2>1
<1> QED BY <1>1, <1>3, <1>4 DEF Commits

\* How a step may change the log: not at all, or by a commit on one there is.
Adds(p, agent, has, board) ==
  /\ p \in Commits /\ agent \in BOOLEAN /\ has \subseteq 1..MaxEdits /\ board \in 0..MaxBoards
  /\ Room /\ log' = Append(log, Child(p, agent, has, board))
Kept == Len(log') \in Nat /\ Len(log') >= Len(log) /\ \A c \in Commits : log'[c] = log[c]

LEMMA AddsGrows ==
  ASSUME WorkProductTypeOK, Linear, NEW p, NEW agent, NEW has, NEW board,
         Adds(p, agent, has, board), NEW n, n = NewId
  PROVE  /\ Len(log') = Len(log) + 1 /\ log'[n] = Child(p, agent, has, board)
         /\ n \in 1..Len(log') /\ n \notin Commits /\ n \in 1..MaxCommits /\ Kept
         /\ log' \in Seq(Commit) /\ Len(log') <= MaxCommits
         /\ Linear'
         /\ From(n)' = From(p) \cup {n}
<1>1. /\ Len(log) \in Nat /\ Len(log) < MaxCommits /\ MaxCommits \in Nat /\ log \in Seq(Commit)
      /\ n = NewId /\ NewId = Len(log) + 1
  <2>1. scene \in Scenes
    BY DEF WorkProductTypeOK
  <2>2. scene.commits \in 1..MaxCommits
    BY <2>1, WorkProductAssumption
  <2> QED BY <2>2, CommitsAreTyped DEF Adds, Room, NewId, WorkProductTypeOK
<1>2. From(p) \subseteq 1..p /\ 1 \in From(p) /\ p \in From(p) /\ p \in 1..Len(log)
      /\ \A d \in From(p) : From(d) = {e \in From(p) : e <= d}
  BY DEF Adds, Linear, Commits
<1>3. Child(p, agent, has, board) \in Commit
  <2>1. From(p) \cup {n} \subseteq 1..MaxCommits
    BY <1>1, <1>2
  <2> QED BY <1>1, <2>1 DEF Adds, Child, Commit
<1>4. /\ Len(log') = Len(log) + 1 /\ log'[Len(log) + 1] = Child(p, agent, has, board)
      /\ \A c \in 1..Len(log) : log'[c] = log[c]
      /\ log' \in Seq(Commit)
  <2> DEFINE new == Child(p, agent, has, board)
  <2> HIDE DEF new
  <2> QED BY <1>1, <1>3 DEF Adds, new
<1>5. /\ \A c \in Commits : From(c)' = From(c)
      /\ From(n)' = From(p) \cup {n}
  <2>1. \A c \in Commits : log'[c].from = log[c].from
    BY <1>4 DEF Commits
  <2>2. log'[n].from = From(p) \cup {n}
    BY <1>1, <1>4 DEF Child
  <2> QED BY <2>1, <2>2 DEF From
<1>6. Linear'
  <2> SUFFICES ASSUME NEW c \in 1..Len(log')
               PROVE  /\ c \in From(c)' /\ 1 \in From(c)' /\ From(c)' \subseteq 1..c
                      /\ \A d \in From(c)' : From(d)' = {e \in From(c)' : e <= d}
    BY DEF Linear, Commits, From
  <2>1. CASE c \in Commits
    <3>1. c \in From(c) /\ 1 \in From(c) /\ From(c) \subseteq 1..c
          /\ \A d \in From(c) : From(d) = {e \in From(c) : e <= d}
      BY <2>1 DEF Linear
    <3>2. \A d \in From(c) : d \in Commits
      BY <2>1, <1>1, <3>1 DEF Commits
    <3> QED BY <2>1, <1>5, <3>1, <3>2
  <2>2. CASE c = n
    <3>1. From(c)' = From(p) \cup {n}
      BY <1>5, <2>2
    <3>2. \A d \in From(p) : d \in Commits /\ d <= p /\ d \in Nat /\ d < n
      BY <1>1, <1>2 DEF Commits
    <3>3. From(c)' \subseteq 1..c
      BY <1>1, <1>2, <2>2, <3>1, <3>2
    <3>4. ASSUME NEW d \in From(p) PROVE From(d)' = {e \in From(p) \cup {n} : e <= d}
      <4>1. From(d)' = {e \in From(p) : e <= d}
        BY <1>2, <1>5, <3>2
      <4>2. ~(n <= d)
        BY <1>1, <3>2
      <4> QED BY <4>1, <4>2
    <3>5. {e \in From(p) \cup {n} : e <= n} = From(p) \cup {n}
      <4>1. n <= n
        BY <1>1
      <4>2. \A e \in From(p) : e <= n
        BY <1>1, <3>2
      <4> QED BY <4>1, <4>2
    <3> QED BY <1>2, <1>5, <2>2, <3>1, <3>3, <3>4, <3>5
  <2>3. c \in Commits \/ c = n
    BY <1>1, <1>4 DEF Commits
  <2> QED BY <2>1, <2>2, <2>3
<1>7. n \in 1..Len(log') /\ n \notin Commits /\ n \in 1..MaxCommits /\ Kept
  BY <1>1, <1>4 DEF Commits, Kept
<1> QED BY <1>1, <1>4, <1>5, <1>6, <1>7

LEMMA KeptIsKept ==
  ASSUME WorkProductTypeOK, Kept
  PROVE  /\ Commits \subseteq 1..Len(log') /\ Commits \subseteq Commits'
         /\ \A c \in Commits : From(c)' = From(c)
BY CommitsAreTyped DEF Kept, Commits, From

-----------------------------------------------------------------------------
(* What a step does to the log and to HEAD.                                *)

Grows == /\ Kept /\ Linear' /\ log' \in Seq(Commit) /\ Len(log') <= MaxCommits

\* HEAD goes where it may, but what it leaves is remembered.
HistoryIsKept ==
  /\ host'.head \in 1..Len(log') /\ host.left \subseteq host'.left
  /\ From(host.head) \subseteq log'[host'.head].from \cup host'.left

LEMMA SameLogGrows ==
  ASSUME WorkProductTypeOK, Linear, log' = log
  PROVE  Grows /\ (host'.head = host.head /\ host'.left = host.left => HistoryIsKept)
<1>1. Kept /\ log' \in Seq(Commit) /\ Len(log') <= MaxCommits
  BY CommitsAreTyped DEF WorkProductTypeOK, Kept
<1>2. Linear'
  BY DEF Linear, Commits, From
<1>3. host.head \in Commits
  BY CommitsAreTyped
<1> QED BY <1>1, <1>2, <1>3 DEF Grows, HistoryIsKept, Commits, From

LEMMA AddedLogGrows ==
  ASSUME WorkProductTypeOK, Linear, NEW p, NEW agent, NEW has, NEW board,
         Adds(p, agent, has, board), NEW n, n = NewId
  PROVE  /\ Grows /\ n \in 1..Len(log')
         /\ log'[n].from = From(p) \cup {n} /\ log'[n].agent = agent
         /\ log'[n].has = has /\ log'[n].board = board
         /\ host'.head = host.head /\ host'.left = host.left => HistoryIsKept
         /\ p = host.head /\ host'.head = n /\ host'.left = host.left => HistoryIsKept
<1>1. Grows /\ n \in 1..Len(log') /\ log'[n] = Child(p, agent, has, board)
  <2>1. /\ log'[n] = Child(p, agent, has, board) /\ n \in 1..Len(log')
        /\ Kept /\ Linear' /\ log' \in Seq(Commit) /\ Len(log') <= MaxCommits
    BY AddsGrows
  <2> QED BY <2>1 DEF Grows
<1>2. host.head \in Commits /\ log'[host.head] = log[host.head] /\ Commits \subseteq 1..Len(log')
  BY <1>1, CommitsAreTyped, KeptIsKept DEF Grows, Kept
<1>3. /\ log'[n].from = From(p) \cup {n} /\ log'[n].agent = agent
      /\ log'[n].has = has /\ log'[n].board = board
  BY <1>1 DEF Child
<1> QED BY <1>1, <1>2, <1>3 DEF HistoryIsKept, From

LEMMA BookmarksAreCommits ==
  ASSUME WorkProductTypeOK, NEW c \in Bookmarks
  PROVE  c \in Commits /\ c # 0 /\ c \in {bookmark, earlier}
BY CommitsAreTyped DEF Bookmarks, WorkProductTypeOK, Commits

LEMMA MergedBoardIsTyped ==
  ASSUME WorkProductTypeOK, NEW c \in Commits, NEW p \in Commits
  PROVE  MergedBoard(c, p) \in 0..MaxBoards
BY CommitsAreTyped DEF MergedBoard

HostState == [head : 1..Len(log), tree : SUBSET (1..MaxEdits), board : 0..MaxBoards,
              untracked : SUBSET (1..MaxEdits), left : SUBSET (1..Len(log))]
MirrorState == [there : BOOLEAN, branch : 0..Len(log), base : 0..Len(log), delivered : 0..Len(log)]
GuestState == [up : BOOLEAN, clone : 0..Len(log), told : Launches \cup {"none"}]

LEMMA ScenesAreTyped ==
  ASSUME WorkProductTypeOK
  PROVE  /\ scene.edits \in 1..MaxEdits /\ scene.boards \in 1..MaxBoards /\ scene.commits \in 1..MaxCommits
         /\ scene.failures \in Nat /\ MaxEdits \in Nat /\ MaxBoards \in Nat /\ MaxCommits \in Nat
         /\ "none" \notin Launches
BY WorkProductAssumption DEF WorkProductTypeOK

\* The host as a step leaves it, field by field.
HostIs(head, tree, board, untracked, left) ==
  host' = [head |-> head, tree |-> tree, board |-> board, untracked |-> untracked, left |-> left]

LEMMA HostIsTyped ==
  ASSUME WorkProductTypeOK, Grows, NEW head \in 1..Len(log'), NEW tree \in SUBSET (1..MaxEdits),
         NEW board \in 0..MaxBoards, NEW untracked \in SUBSET (1..MaxEdits),
         NEW left \in SUBSET Commits, HostIs(head, tree, board, untracked, left)
  PROVE  /\ host' \in HostState' /\ host'.head = head /\ host'.left = left
<1>1. Commits \subseteq 1..Len(log')
  BY KeptIsKept DEF Grows
<1>2. left \in SUBSET (1..Len(log'))
  BY <1>1
<1> QED BY <1>2 DEF HostIs, HostState

LEMMA OperatorAdvances ==
  ASSUME WorkProductTypeOK, Linear, OperatorStep
  PROVE  /\ Grows /\ HistoryIsKept /\ host' \in HostState' /\ edits' \in 0..MaxEdits
<1> DEFINE Goal == /\ Grows /\ HistoryIsKept /\ host' \in HostState' /\ edits' \in 0..MaxEdits
<1>1. /\ edits \in 0..MaxEdits /\ host.head \in Commits /\ MaxEdits \in Nat /\ MaxBoards \in Nat
      /\ scene.edits \in 1..MaxEdits /\ scene.boards \in 1..MaxBoards
      /\ log[host.head].has \subseteq 1..MaxEdits /\ log[host.head].board \in 0..MaxBoards
      /\ Len(log) \in Nat
  BY CommitsAreTyped, ScenesAreTyped DEF WorkProductTypeOK
<1>2. /\ host \in HostState
      /\ host.tree \in SUBSET (1..MaxEdits) /\ host.untracked \in SUBSET (1..MaxEdits)
      /\ host.board \in 0..MaxBoards /\ host.left \in SUBSET Commits
  BY DEF WorkProductTypeOK, HostState, Commits
\* The files change, and HEAD stays.
<1>3. ASSUME NEW tree \in SUBSET (1..MaxEdits), NEW board \in 0..MaxBoards,
             NEW untracked \in SUBSET (1..MaxEdits), edits' \in 0..MaxEdits, log' = log,
             HostIs(host.head, tree, board, untracked, host.left)
      PROVE  Goal
  <2>1. Grows /\ host.head \in 1..Len(log')
    BY <1>1, <1>3, SameLogGrows DEF Commits
  <2>2. host' \in HostState' /\ host'.head = host.head /\ host'.left = host.left
    BY <1>2, <1>3, <2>1, HostIsTyped
  <2>3. HistoryIsKept
    BY <1>3, <2>2, SameLogGrows
  <2> QED BY <1>3, <2>1, <2>2, <2>3
\* HEAD gets a child.
<1>4. ASSUME NEW agent, NEW has, NEW new, Adds(host.head, agent, has, new), NEW n, n = NewId,
             NEW tree \in SUBSET (1..MaxEdits), NEW board \in 0..MaxBoards, edits' = edits,
             HostIs(n, tree, board, host.untracked, host.left)
      PROVE  Goal
  <2>1. Grows /\ n \in 1..Len(log')
    BY <1>4, AddedLogGrows
  <2>2. host' \in HostState' /\ host'.head = n /\ host'.left = host.left
    BY <1>2, <1>4, <2>1, HostIsTyped
  <2>3. HistoryIsKept
    BY <1>4, <2>2, AddedLogGrows
  <2> QED BY <1>1, <1>4, <2>1, <2>2, <2>3
\* HEAD goes to another commit.
<1>5. ASSUME NEW c \in Commits, NEW tree \in SUBSET (1..MaxEdits), NEW board \in 0..MaxBoards,
             NEW left \in SUBSET Commits, host.left \subseteq left,
             From(host.head) \subseteq From(c) \cup left,
             edits' = edits, log' = log, HostIs(c, tree, board, host.untracked, left)
      PROVE  Goal
  <2>1. Grows /\ c \in 1..Len(log')
    BY <1>5, SameLogGrows DEF Commits
  <2>2. host' \in HostState' /\ host'.head = c /\ host'.left = left
    BY <1>2, <1>5, <2>1, HostIsTyped
  <2>3. HistoryIsKept
    BY <1>5, <2>1, <2>2 DEF HistoryIsKept, From
  <2> QED BY <1>1, <1>5, <2>1, <2>2, <2>3
<1> HIDE DEF Goal
<1>6. ASSUME EditsTree PROVE Goal
  <2>1. /\ log' = log /\ edits' \in 0..MaxEdits /\ {edits + 1} \subseteq 1..MaxEdits
        /\ \/ host' = [host EXCEPT !.tree = host.tree \cup {edits + 1}]
           \/ host' = [host EXCEPT !.untracked = host.untracked \cup {edits + 1}]
    BY <1>1, <1>6 DEF EditsTree
  <2>2. \/ HostIs(host.head, host.tree \cup {edits + 1}, host.board, host.untracked, host.left)
        \/ HostIs(host.head, host.tree, host.board, host.untracked \cup {edits + 1}, host.left)
    BY <1>2, <2>1 DEF HostIs, HostState
  <2>3. /\ host.tree \cup {edits + 1} \in SUBSET (1..MaxEdits)
        /\ host.untracked \cup {edits + 1} \in SUBSET (1..MaxEdits)
    BY <1>2, <2>1
  <2> QED BY <1>2, <1>3, <2>1, <2>2, <2>3
<1>7. ASSUME Tracks PROVE Goal
  <2>1. /\ log' = log /\ edits' = edits
        /\ host' = [host EXCEPT !.tree = host.tree \cup host.untracked, !.untracked = {}]
    BY <1>7 DEF Tracks
  <2>2. HostIs(host.head, host.tree \cup host.untracked, host.board, {}, host.left)
    BY <1>2, <2>1 DEF HostIs, HostState
  <2>3. host.tree \cup host.untracked \in SUBSET (1..MaxEdits) /\ {} \in SUBSET (1..MaxEdits)
    BY <1>2
  <2> QED BY <1>1, <1>2, <1>3, <2>1, <2>2, <2>3
<1>8. ASSUME EditsBoard PROVE Goal
  <2>1. /\ log' = log /\ edits' = edits /\ host.board + 1 \in 0..MaxBoards
        /\ host' = [host EXCEPT !.board = host.board + 1]
    BY <1>1, <1>2, <1>8 DEF EditsBoard
  <2>2. HostIs(host.head, host.tree, host.board + 1, host.untracked, host.left)
    BY <1>2, <2>1 DEF HostIs, HostState
  <2> QED BY <1>1, <1>2, <1>3, <2>1, <2>2
<1>9. ASSUME CommitsTree PROVE Goal
  <2>1. PICK n, agent : n = NewId /\ agent = FALSE
    OBVIOUS
  <2>2. /\ Adds(host.head, agent, host.tree, host.board) /\ edits' = edits
        /\ host' = [host EXCEPT !.head = n]
    BY <1>1, <1>2, <1>9, <2>1 DEF CommitsTree, Adds
  <2>3. HostIs(n, host.tree, host.board, host.untracked, host.left)
    BY <1>2, <2>2 DEF HostIs, HostState
  <2> QED BY <1>2, <1>4, <2>1, <2>2, <2>3
<1>10. ASSUME NEW c \in Bookmarks, Lands(c) PROVE Goal
  <2>1. PICK n, agent : n = NewId /\ agent = FALSE
    OBVIOUS
  <2>2. PICK new : new = MergedBoard(c, host.head)
    OBVIOUS
  <2>3. PICK has, tree : has = log[host.head].has \cup log[c].has /\ tree = host.tree \cup log[c].has
    OBVIOUS
  <2>4. PICK board : board = IF new # log[host.head].board THEN new ELSE host.board
    OBVIOUS
  <2>5. /\ c \in Commits /\ log[c].has \subseteq 1..MaxEdits /\ new \in 0..MaxBoards
    BY <1>1, <2>2, BookmarksAreCommits, CommitsAreTyped, MergedBoardIsTyped
  <2>6. has \in SUBSET (1..MaxEdits) /\ tree \in SUBSET (1..MaxEdits) /\ board \in 0..MaxBoards
    BY <1>1, <1>2, <2>3, <2>4, <2>5
  <2>7. /\ log' = Append(log, Child(host.head, agent, has, new)) /\ Room /\ edits' = edits
        /\ host' = [host EXCEPT !.head = n, !.tree = tree, !.board = board]
    BY <1>10, <2>1, <2>2, <2>3, <2>4 DEF Lands
  <2>8. Adds(host.head, agent, has, new)
    BY <1>1, <2>1, <2>5, <2>6, <2>7 DEF Adds
  <2>9. HostIs(n, tree, board, host.untracked, host.left)
    BY <1>2, <2>7 DEF HostIs, HostState
  <2> QED BY <1>4, <2>1, <2>6, <2>7, <2>8, <2>9
<1>11. ASSUME NEW c \in Bookmarks, FastForwards(c) PROVE Goal
  <2>1. c \in Commits /\ log[c].has \in SUBSET (1..MaxEdits) /\ log[c].board \in 0..MaxBoards
    BY BookmarksAreCommits, CommitsAreTyped
  <2>2. /\ log' = log /\ edits' = edits /\ host.head \in From(c)
        /\ host' = [host EXCEPT !.head = c, !.tree = log[c].has, !.board = log[c].board]
    BY <1>11 DEF FastForwards, Descends
  <2>3. HostIs(c, log[c].has, log[c].board, host.untracked, host.left)
    BY <1>2, <2>2 DEF HostIs, HostState
  <2>4. From(host.head) \subseteq From(c) \cup host.left
    BY <2>1, <2>2, DescentIsTransitive
  <2> QED BY <1>2, <1>5, <2>1, <2>2, <2>3, <2>4
<1>12. ASSUME NEW c \in Bookmarks, CherryPicks(c) PROVE Goal
  <2>1. PICK n, agent : n = NewId /\ agent = TRUE
    OBVIOUS
  <2>2. PICK has, tree : has = log[host.head].has \cup log[c].has /\ tree = host.tree \cup log[c].has
    OBVIOUS
  <2>3. c \in Commits /\ log[c].has \subseteq 1..MaxEdits
    BY BookmarksAreCommits, CommitsAreTyped
  <2>4. has \in SUBSET (1..MaxEdits) /\ tree \in SUBSET (1..MaxEdits)
    BY <1>1, <1>2, <2>2, <2>3
  <2>5. /\ log' = Append(log, Child(host.head, agent, has, log[host.head].board)) /\ Room
        /\ edits' = edits /\ host' = [host EXCEPT !.head = n, !.tree = tree]
    BY <1>12, <2>1, <2>2 DEF CherryPicks
  <2>6. Adds(host.head, agent, has, log[host.head].board)
    BY <1>1, <2>1, <2>4, <2>5 DEF Adds
  <2>7. HostIs(n, tree, host.board, host.untracked, host.left)
    BY <1>2, <2>5 DEF HostIs, HostState
  <2> QED BY <1>2, <1>4, <2>1, <2>4, <2>5, <2>6, <2>7
<1>13. ASSUME NEW c \in Named, Resets(c) PROVE Goal
  <2>1. PICK left : left = host.left \cup (From(host.head) \ From(c))
    OBVIOUS
  <2>2. PICK kept \in BOOLEAN :
          host' = [host EXCEPT !.head = c, !.left = left,
                               !.tree = IF kept THEN host.tree ELSE log[c].has,
                               !.board = IF kept THEN host.board ELSE log[c].board]
    BY <1>13, <2>1 DEF Resets
  <2>3. PICK tree, board : /\ tree = IF kept THEN host.tree ELSE log[c].has
                           /\ board = IF kept THEN host.board ELSE log[c].board
    OBVIOUS
  <2>4. c \in Commits
    <3>1. \A b \in Commits : From(b) \subseteq Commits
      BY DescentIsTransitive
    <3>2. \A b \in Bookmarks : b \in Commits
      BY BookmarksAreCommits
    <3> QED BY <1>1, <1>2, <3>1, <3>2 DEF Named
  <2>5. tree \in SUBSET (1..MaxEdits) /\ board \in 0..MaxBoards
    BY <1>2, <2>3, <2>4, CommitsAreTyped
  <2>6. left \in SUBSET Commits /\ host.left \subseteq left /\ From(host.head) \subseteq From(c) \cup left
    BY <1>1, <1>2, <2>1, DescentIsTransitive
  <2>7. log' = log /\ edits' = edits /\ host' = [host EXCEPT !.head = c, !.left = left, !.tree = tree, !.board = board]
    BY <1>13, <2>2, <2>3 DEF Resets
  <2>8. HostIs(c, tree, board, host.untracked, left)
    BY <1>2, <2>7 DEF HostIs, HostState
  <2> QED BY <1>5, <2>4, <2>5, <2>6, <2>7, <2>8
<1>14. Goal
  BY <1>6, <1>7, <1>8, <1>9, <1>10, <1>11, <1>12, <1>13 DEF OperatorStep
<1> QED BY <1>14 DEF Goal

-----------------------------------------------------------------------------
(* What a step does to a launch.                                           *)

LEMMA BecomesIs ==
  ASSUME launch \in [Launches -> Launching], NEW l \in Launches, NEW r, Becomes(l, r)
  PROVE  /\ launch'[l] = r /\ \A k \in Launches : k # l => launch'[k] = launch[k]
         /\ r \in Launching => launch' \in [Launches -> Launching]
BY DEF Becomes

LEMMA LaunchIsTyped ==
  ASSUME WorkProductTypeOK, NEW l \in Launches
  PROVE  /\ launch[l] \in Launching /\ launch \in [Launches -> Launching]
         /\ launch[l].alone \in BOOLEAN /\ launch[l].fresh \in BOOLEAN
         /\ launch[l].dispatched \in BOOLEAN /\ launch[l].prompted \in BOOLEAN
         /\ launch[l].guarded \in BOOLEAN /\ launch[l].clone \in BOOLEAN
         /\ launch[l].seed \in Nat /\ launch[l].base \in Nat /\ launch[l].saw \in Nat
         /\ launch[l].tip \in Nat /\ launch[l].seen \subseteq 1..MaxCommits
         /\ launch[l].tree \subseteq 1..MaxEdits
         /\ launch[l].probe \in {"branch", "absent", "failed"}
         /\ launch[l].took \in {"tree", "head", "nothing"} /\ launch[l].pc \in Pcs
<1>1. launch[l] \in Launching /\ launch \in [Launches -> Launching] /\ MaxCommits \in Nat
  BY WorkProductAssumption DEF WorkProductTypeOK
<1> QED BY <1>1 DEF Launching

\* What a decision of the launch l has in common with every other one.
Decides(l) ==
  /\ launch' \in [Launches -> Launching] /\ \A k \in Launches : k # l => launch'[k] = launch[k]
  /\ launch[l].pc = "ready" /\ ~Locked
  /\ launch'[l].dispatched = launch[l].dispatched /\ launch'[l].prompted = launch[l].prompted
  /\ launch'[l].guarded = launch[l].guarded /\ launch'[l].seen = launch[l].seen
  /\ launch'[l].tip = host.head /\ launch'[l].tree = host.tree /\ launch'[l].saw = mirror.base
  /\ launch'[l].alone => Quiet
  /\ UNCHANGED <<host, mirror, guest, bookmark, earlier, record, directive, fetch, scene, edits>>

LEMMA DecidedIs ==
  ASSUME WorkProductTypeOK, NEW l \in Launches, Plan(launch[l]), launch[l].pc = "ready"
  PROVE  LET r == Decided(l) IN
         /\ r \in Launching
         /\ r.dispatched = launch[l].dispatched /\ r.prompted = launch[l].prompted
         /\ r.guarded = launch[l].guarded /\ r.seen = launch[l].seen
         /\ r.tip = host.head /\ r.tree = host.tree /\ r.saw = mirror.base
         /\ (r.alone => Quiet) /\ ~r.fresh /\ r.took = "head" /\ r.base = 0
<1>1. /\ launch[l] \in Launching /\ MaxCommits \in Nat /\ Len(log) \in Nat /\ Len(log) <= MaxCommits
      /\ host.head \in 0..MaxCommits /\ host.tree \subseteq 1..MaxEdits
      /\ mirror.base \in 0..MaxCommits /\ mirror.there \in BOOLEAN
  BY LaunchIsTyped, CommitsAreTyped DEF WorkProductTypeOK
<1>2. Quiet \in BOOLEAN /\ (~mirror.there) \in BOOLEAN
  BY DEF Quiet
<1>3. ~launch[l].fresh /\ launch[l].took = "head" /\ launch[l].base = 0
  BY DEF Plan, PlanIn
<1> DEFINE quiet == Quiet
           clone == ~mirror.there
<1>4. Decided(l) = [launch[l] EXCEPT !.tip = host.head, !.tree = host.tree, !.saw = mirror.base,
                                     !.alone = quiet, !.clone = clone]
  BY DEF Decided
<1>5. quiet \in BOOLEAN /\ clone \in BOOLEAN /\ (quiet => Quiet)
  BY <1>2
<1> HIDE DEF quiet, clone
<1>6. /\ Decided(l) \in Launching
      /\ Decided(l).dispatched = launch[l].dispatched /\ Decided(l).prompted = launch[l].prompted
      /\ Decided(l).guarded = launch[l].guarded /\ Decided(l).seen = launch[l].seen
      /\ Decided(l).tip = host.head /\ Decided(l).tree = host.tree /\ Decided(l).saw = mirror.base
      /\ Decided(l).alone = quiet /\ Decided(l).fresh = launch[l].fresh
      /\ Decided(l).took = launch[l].took /\ Decided(l).base = launch[l].base
  <2>1. /\ host.head \in 0..MaxCommits /\ host.tree \in SUBSET (1..MaxEdits)
        /\ mirror.base \in 0..MaxCommits /\ quiet \in BOOLEAN /\ clone \in BOOLEAN
        /\ launch[l] \in Launching
    BY <1>1, <1>5
  <2>2. PICK d : d = [launch[l] EXCEPT !.tip = host.head, !.tree = host.tree]
    OBVIOUS
  <2>3. /\ d \in Launching
        /\ d.dispatched = launch[l].dispatched /\ d.prompted = launch[l].prompted
        /\ d.guarded = launch[l].guarded /\ d.seen = launch[l].seen
        /\ d.tip = host.head /\ d.tree = host.tree /\ d.fresh = launch[l].fresh
        /\ d.took = launch[l].took /\ d.base = launch[l].base
    BY <2>1, <2>2 DEF Launching
  <2>4. Decided(l) = [d EXCEPT !.saw = mirror.base, !.alone = quiet, !.clone = clone]
    BY <1>4, <2>2
  <2>5. [d EXCEPT !.saw = mirror.base, !.alone = quiet, !.clone = clone] \in Launching
    <3>1. [d EXCEPT !.saw = mirror.base] \in Launching
      BY <2>1, <2>3, SMTT(20) DEF Launching
    <3>2. PICK e \in Launching : e = [d EXCEPT !.saw = mirror.base]
      BY <3>1
    <3>3. [e EXCEPT !.alone = quiet, !.clone = clone] \in Launching
      BY <2>1, Zenon DEF Launching
    <3>4. [d EXCEPT !.saw = mirror.base, !.alone = quiet, !.clone = clone]
            = [e EXCEPT !.alone = quiet, !.clone = clone]
      BY <3>2
    <3> QED BY <3>3, <3>4
  <2>6. /\ Decided(l).dispatched = d.dispatched /\ Decided(l).prompted = d.prompted
        /\ Decided(l).guarded = d.guarded /\ Decided(l).seen = d.seen
        /\ Decided(l).tip = d.tip /\ Decided(l).tree = d.tree /\ Decided(l).saw = mirror.base
        /\ Decided(l).alone = quiet /\ Decided(l).fresh = d.fresh
        /\ Decided(l).took = d.took /\ Decided(l).base = d.base
    BY <2>3, <2>4, SMTT(20) DEF Launching
  <2> QED BY <2>3, <2>4, <2>5, <2>6
<1> QED BY <1>3, <1>5, <1>6

LEMMA ResumesIs ==
  ASSUME WorkProductTypeOK, NEW l \in Launches, Plan(launch[l]), Resumes(l)
  PROVE  /\ Decides(l) /\ log' = log /\ past' = past /\ failures' \in 0..scene.failures
         /\ launch'[l].pc = "planned" /\ ~launch'[l].fresh /\ mirror.branch # 0
         /\ launch'[l].seed = mirror.branch /\ launch'[l].base \in {0, host.head}
<1>1. /\ launch[l].pc = "ready" /\ ~Locked /\ mirror.branch # 0 /\ log' = log /\ past' = past
      /\ UNCHANGED <<host, mirror, guest, bookmark, earlier, record, directive, fetch, scene, edits>>
      /\ failures' = failures \/ (failures < scene.failures /\ failures' = failures + 1)
  BY DEF Resumes, MayDecide, LaunchFrame, operatorVars, guestVars, filesVars, chosenVars, Works, Fails
<1>2. PICK base \in {0, host.head} :
           Becomes(l, [Decided(l) EXCEPT !.pc = "planned", !.seed = mirror.branch,
                                         !.probe = "branch", !.base = base])
  <2> DEFINE base == IF mirror.base = host.head THEN 0 ELSE host.head
  <2>1. base \in {0, host.head} /\ host.head \in {0, host.head}
    OBVIOUS
  <2>2. \/ Becomes(l, [Decided(l) EXCEPT !.pc = "planned", !.seed = mirror.branch,
                                         !.probe = "branch", !.base = base])
        \/ Becomes(l, [Decided(l) EXCEPT !.pc = "planned", !.seed = mirror.branch,
                                         !.probe = "branch", !.base = host.head])
    BY DEF Resumes
  <2> HIDE DEF base
  <2> QED BY <2>1, <2>2
<1>3. /\ mirror.branch \in 0..MaxCommits /\ base \in 0..MaxCommits
      /\ scene.failures \in Nat /\ failures \in 0..scene.failures
  <2>1. /\ Len(log) \in Nat /\ Len(log) <= MaxCommits /\ MaxCommits \in Nat /\ host.head \in 1..Len(log)
    BY CommitsAreTyped DEF Commits
  <2>2. mirror.branch \in 0..Len(log) /\ failures \in 0..scene.failures
    BY DEF WorkProductTypeOK
  <2> QED BY <2>1, <2>2, ScenesAreTyped
<1> DEFINE r == [Decided(l) EXCEPT !.pc = "planned", !.seed = mirror.branch,
                                   !.probe = "branch", !.base = base]
           d == Decided(l)
           e == [d EXCEPT !.pc = "planned", !.seed = mirror.branch]
<1>4. /\ d \in Launching
      /\ d.dispatched = launch[l].dispatched /\ d.prompted = launch[l].prompted
      /\ d.guarded = launch[l].guarded /\ d.seen = launch[l].seen
      /\ d.tip = host.head /\ d.tree = host.tree /\ d.saw = mirror.base
      /\ (d.alone => Quiet) /\ ~d.fresh /\ d.took = "head" /\ d.base = 0
  BY <1>1, DecidedIs
<1> HIDE DEF d
<1>5. /\ r \in Launching /\ r.pc = "planned" /\ r.seed = mirror.branch /\ r.base = base
      /\ r.dispatched = d.dispatched /\ r.prompted = d.prompted
      /\ r.guarded = d.guarded /\ r.seen = d.seen /\ r.tip = d.tip /\ r.tree = d.tree
      /\ r.saw = d.saw /\ r.alone = d.alone /\ r.fresh = d.fresh
  <2>1. /\ e \in Launching /\ e.pc = "planned" /\ e.seed = mirror.branch
        /\ e.dispatched = d.dispatched /\ e.prompted = d.prompted
        /\ e.guarded = d.guarded /\ e.seen = d.seen /\ e.tip = d.tip /\ e.tree = d.tree
        /\ e.saw = d.saw /\ e.alone = d.alone /\ e.fresh = d.fresh
    BY <1>3, <1>4 DEF Launching, Pcs
  <2>2. r = [e EXCEPT !.probe = "branch", !.base = base]
    BY DEF d
  <2> HIDE DEF e, r
  <2> QED BY <1>3, <2>1, <2>2 DEF Launching
<1>6. Becomes(l, r) /\ launch \in [Launches -> Launching]
  BY <1>2, LaunchIsTyped
<1> HIDE DEF r
<1>7. launch'[l] = r /\ launch' \in [Launches -> Launching]
      /\ \A k \in Launches : k # l => launch'[k] = launch[k]
  BY <1>5, <1>6, BecomesIs
<1> QED BY <1>1, <1>3, <1>4, <1>5, <1>7 DEF Decides

\* A decision to seed the guest anew.
Seeding(d, pc, fresh, seed, probe, e) ==
  /\ d \in Launching /\ pc \in Pcs /\ fresh \in BOOLEAN /\ seed \in 0..MaxCommits
  /\ probe \in {"branch", "absent", "failed"}
  /\ e = [d EXCEPT !.pc = pc, !.fresh = fresh, !.seed = seed, !.probe = probe]

LEMMA SeedingIs ==
  ASSUME NEW d, NEW pc, NEW fresh, NEW seed, NEW probe, NEW e,
         Seeding(d, pc, fresh, seed, probe, e)
  PROVE  /\ e \in Launching /\ e.pc = pc /\ e.fresh = fresh /\ e.seed = seed /\ e.probe = probe
         /\ e.dispatched = d.dispatched /\ e.prompted = d.prompted
         /\ e.guarded = d.guarded /\ e.seen = d.seen /\ e.tip = d.tip /\ e.tree = d.tree
         /\ e.saw = d.saw /\ e.alone = d.alone /\ e.took = d.took /\ e.base = d.base
<1>1. PICK f : f = [d EXCEPT !.pc = pc, !.fresh = fresh]
  OBVIOUS
<1>0. /\ d \in Launching /\ pc \in Pcs /\ fresh \in BOOLEAN /\ seed \in 0..MaxCommits
      /\ probe \in {"branch", "absent", "failed"}
  BY DEF Seeding
<1>2. /\ f \in Launching /\ f.pc = pc /\ f.fresh = fresh
      /\ f.dispatched = d.dispatched /\ f.prompted = d.prompted
      /\ f.guarded = d.guarded /\ f.seen = d.seen /\ f.tip = d.tip /\ f.tree = d.tree
      /\ f.saw = d.saw /\ f.alone = d.alone /\ f.took = d.took /\ f.base = d.base
  BY <1>0, <1>1 DEF Launching
<1>3. e = [f EXCEPT !.seed = seed, !.probe = probe]
  BY <1>1 DEF Seeding
<1> QED BY <1>0, <1>2, <1>3 DEF Launching

LEMMA TookIs ==
  ASSUME NEW d \in Launching, NEW took \in {"tree", "head", "nothing"}, NEW e,
         e = [d EXCEPT !.took = took]
  PROVE  /\ e \in Launching /\ e.took = took /\ e.pc = d.pc /\ e.fresh = d.fresh /\ e.seed = d.seed
         /\ e.dispatched = d.dispatched /\ e.prompted = d.prompted /\ e.probe = d.probe
         /\ e.guarded = d.guarded /\ e.seen = d.seen /\ e.tip = d.tip /\ e.tree = d.tree
         /\ e.saw = d.saw /\ e.alone = d.alone /\ e.base = d.base
BY DEF Launching

\* What such a decision is, given what it takes a seed from.
Seeds(l, pc, seed, took) ==
  /\ Decides(l) /\ failures' \in 0..scene.failures
  /\ launch'[l].pc = pc /\ launch'[l].fresh /\ launch'[l].seed = seed /\ launch'[l].took = took
  /\ launch'[l].probe \in {"absent", "failed"} /\ launch'[l].base = 0

LEMMA SeedsIs ==
  ASSUME WorkProductTypeOK, NEW l \in Launches, Plan(launch[l]), MayDecide(l),
         NEW pc \in Pcs, NEW seed \in 0..MaxCommits, NEW probe \in {"absent", "failed"},
         NEW took \in {"tree", "head", "nothing"}, NEW q, Becomes(l, q),
         \/ q = [Decided(l) EXCEPT !.pc = pc, !.fresh = TRUE, !.seed = seed, !.probe = probe,
                                   !.took = took]
         \/ /\ q = [Decided(l) EXCEPT !.pc = pc, !.fresh = TRUE, !.seed = seed, !.probe = probe]
            /\ took = "head",
         UNCHANGED <<host, mirror, guest, bookmark, earlier, record, directive, fetch, scene, edits>>,
         failures' = failures \/ (failures < scene.failures /\ failures' = failures + 1)
  PROVE  Seeds(l, pc, seed, took)
<1> DEFINE d == Decided(l)
<1>1. /\ d \in Launching
      /\ d.dispatched = launch[l].dispatched /\ d.prompted = launch[l].prompted
      /\ d.guarded = launch[l].guarded /\ d.seen = launch[l].seen
      /\ d.tip = host.head /\ d.tree = host.tree /\ d.saw = mirror.base
      /\ (d.alone => Quiet) /\ ~d.fresh /\ d.took = "head" /\ d.base = 0
      /\ launch[l].pc = "ready" /\ ~Locked
  BY DecidedIs DEF MayDecide
<1>2. PICK fresh : fresh = TRUE
  OBVIOUS
<1>3. PICK e : e = [d EXCEPT !.pc = pc, !.fresh = fresh, !.seed = seed, !.probe = probe]
  OBVIOUS
<1>4. (q = [e EXCEPT !.took = took]) \/ (q = e /\ took = "head")
  BY <1>2, <1>3
<1> HIDE DEF d
<1>5. /\ e \in Launching /\ e.pc = pc /\ e.fresh = fresh /\ e.seed = seed /\ e.probe = probe
      /\ e.dispatched = d.dispatched /\ e.prompted = d.prompted
      /\ e.guarded = d.guarded /\ e.seen = d.seen /\ e.tip = d.tip /\ e.tree = d.tree
      /\ e.saw = d.saw /\ e.alone = d.alone /\ e.took = d.took /\ e.base = d.base
  <2>1. Seeding(d, pc, fresh, seed, probe, e)
    BY <1>1, <1>2, <1>3 DEF Seeding
  <2> QED BY <2>1, SeedingIs
<1>6. /\ q \in Launching /\ q.took = took /\ q.pc = e.pc /\ q.fresh = e.fresh /\ q.seed = e.seed
      /\ q.dispatched = e.dispatched /\ q.prompted = e.prompted /\ q.probe = e.probe
      /\ q.guarded = e.guarded /\ q.seen = e.seen /\ q.tip = e.tip /\ q.tree = e.tree
      /\ q.saw = e.saw /\ q.alone = e.alone /\ q.base = e.base
  <2>1. CASE q = [e EXCEPT !.took = took]
    BY <1>5, <2>1, TookIs
  <2>2. CASE q = e /\ took = "head"
    BY <1>1, <1>5, <2>2
  <2> QED BY <1>4, <2>1, <2>2
<1>7. launch'[l] = q /\ launch' \in [Launches -> Launching]
      /\ \A k \in Launches : k # l => launch'[k] = launch[k]
  BY <1>6, LaunchIsTyped, BecomesIs
<1>8. failures' \in 0..scene.failures
  <2>1. failures \in 0..scene.failures
    BY DEF WorkProductTypeOK
  <2>2. failures \in Nat /\ failures <= scene.failures /\ scene.failures \in Nat
    BY <2>1, ScenesAreTyped
  <2>3. failures' = failures \/ (failures < scene.failures /\ failures' = failures + 1)
    OBVIOUS
  <2>4. scene' = scene
    OBVIOUS
  <2> QED BY <2>2, <2>3
<1>9. Decides(l)
  BY <1>1, <1>5, <1>6, <1>7 DEF Decides
<1> QED BY <1>1, <1>2, <1>5, <1>6, <1>7, <1>8, <1>9 DEF Seeds

LEMMA SnapshotsIs ==
  ASSUME WorkProductTypeOK, NEW l \in Launches, Plan(launch[l]),
         NEW probe \in {"absent", "failed"}, Snapshots(l, probe), NEW n, n = NewId,
         NEW agent, agent = FALSE
  PROVE  /\ Adds(host.head, agent, host.tree, host.board)
         /\ \E pc \in {"snapped", "planned"} :
              /\ Seeds(l, pc, n, "tree")
              /\ past' = [past EXCEPT !.loose = past.loose \/ ~launch[l].dispatched]
              /\ pc = "snapped" <=> launch[l].dispatched
<1>1. /\ MayDecide(l) /\ Room
      /\ log' = Append(log, Child(host.head, FALSE, host.tree, host.board))
      /\ Becomes(l, [Decided(l) EXCEPT !.pc = IF launch[l].dispatched THEN "snapped" ELSE "planned",
                     !.fresh = TRUE, !.seed = NewId, !.probe = probe, !.took = "tree"])
      /\ past' = [past EXCEPT !.loose = past.loose \/ ~launch[l].dispatched]
  BY DEF Snapshots
<1>2. /\ UNCHANGED <<host, mirror, guest, bookmark, earlier, record, directive, fetch, scene, edits>>
      /\ failures' = failures \/ (failures < scene.failures /\ failures' = failures + 1)
  BY DEF Snapshots, NoBranchSeen, guestVars, filesVars, chosenVars, Works, Fails
<1>3. Adds(host.head, agent, host.tree, host.board)
  BY <1>1, CommitsAreTyped DEF Adds, WorkProductTypeOK
<1>4. n \in 0..MaxCommits
  BY CommitsAreTyped, ScenesAreTyped, <1>1 DEF Room, NewId
<1> DEFINE pc == IF launch[l].dispatched THEN "snapped" ELSE "planned"
<1>5. pc \in {"snapped", "planned"} /\ (pc = "snapped" <=> launch[l].dispatched)
  BY LaunchIsTyped
<1>6. PICK q : q = [Decided(l) EXCEPT !.pc = pc, !.fresh = TRUE, !.seed = n, !.probe = probe,
                                      !.took = "tree"] /\ Becomes(l, q)
  BY <1>1
<1> HIDE DEF pc
<1>7. Seeds(l, pc, n, "tree")
  <2>1. pc \in Pcs
    BY <1>5 DEF Pcs
  <2> QED BY <1>1, <1>2, <1>4, <1>6, <2>1, SeedsIs
<1> QED BY <1>1, <1>3, <1>5, <1>7

LEMMA SeedsHeadIs ==
  ASSUME WorkProductTypeOK, NEW l \in Launches, Plan(launch[l]),
         NEW probe \in {"absent", "failed"}, SeedsHead(l, probe)
  PROVE  /\ Seeds(l, "planned", host.head, "head") /\ log' = log /\ past' = past
         /\ host.tree = log[host.head].has
<1>1. /\ MayDecide(l) /\ log' = log /\ past' = past /\ host.tree = log[host.head].has
      /\ UNCHANGED <<host, mirror, guest, bookmark, earlier, record, directive, fetch, scene, edits>>
      /\ failures' = failures \/ (failures < scene.failures /\ failures' = failures + 1)
  BY DEF SeedsHead, NoBranchSeen, LaunchFrame, operatorVars, guestVars, filesVars, chosenVars,
         Works, Fails, Dirty
<1>2. PICK q : Becomes(l, q) /\ q = [Decided(l) EXCEPT !.pc = "planned", !.fresh = TRUE,
                                       !.seed = host.head, !.probe = probe]
  BY DEF SeedsHead
<1>3. host.head \in 0..MaxCommits /\ "planned" \in Pcs
  BY CommitsAreTyped DEF Commits, Pcs
<1>4. Seeds(l, "planned", host.head, "head")
  BY <1>1, <1>2, <1>3, SeedsIs
<1> QED BY <1>1, <1>4

LEMMA SnapshotFailsIs ==
  ASSUME WorkProductTypeOK, NEW l \in Launches, Plan(launch[l]), SnapshotFails(l)
  PROVE  Seeds(l, "planned", host.head, "nothing") /\ log' = log /\ past' = past
<1>1. /\ MayDecide(l) /\ log' = log /\ past' = past
      /\ UNCHANGED <<host, mirror, guest, bookmark, earlier, record, directive, fetch, scene, edits>>
      /\ failures' = failures \/ (failures < scene.failures /\ failures' = failures + 1)
  BY DEF SnapshotFails, LaunchFrame, operatorVars, guestVars, filesVars, chosenVars, Fails
<1>2. PICK q, probe : Becomes(l, q) /\ probe = "absent"
                      /\ q = [Decided(l) EXCEPT !.pc = "planned", !.fresh = TRUE,
                                       !.seed = host.head, !.probe = probe, !.took = "nothing"]
  BY DEF SnapshotFails
<1>3. host.head \in 0..MaxCommits /\ "planned" \in Pcs
  BY CommitsAreTyped DEF Commits, Pcs
<1>4. Seeds(l, "planned", host.head, "nothing")
  BY <1>1, <1>2, <1>3, SeedsIs
<1> QED BY <1>1, <1>4

-----------------------------------------------------------------------------
(* What every other step of a launch changes of it, and what it keeps.     *)

Others(l) ==
  launch' \in [Launches -> Launching] /\ \A k \in Launches : k # l => launch'[k] = launch[k]
SameText(l) ==
  launch'[l].prompted = launch[l].prompted /\ launch'[l].dispatched = launch[l].dispatched
SameSeed(l) ==
  /\ launch'[l].seed = launch[l].seed /\ launch'[l].fresh = launch[l].fresh
  /\ launch'[l].probe = launch[l].probe
SameBase(l) == launch'[l].base = launch[l].base /\ launch'[l].saw = launch[l].saw
SameSight(l) ==
  /\ launch'[l].took = launch[l].took /\ launch'[l].tip = launch[l].tip
  /\ launch'[l].tree = launch[l].tree /\ launch'[l].alone = launch[l].alone
  /\ launch'[l].guarded = launch[l].guarded /\ launch'[l].seen = launch[l].seen
SameFailures == failures' = failures \/ (failures < scene.failures /\ failures' = failures + 1)

LEMMA FailuresAreTyped ==
  ASSUME WorkProductTypeOK, SameFailures
  PROVE  failures' \in 0..scene.failures
<1>1. failures \in 0..scene.failures
  BY DEF WorkProductTypeOK
<1>2. failures \in Nat /\ failures <= scene.failures /\ scene.failures \in Nat
  BY <1>1, ScenesAreTyped
<1> QED BY <1>2 DEF SameFailures

LEMMA MovesIs ==
  ASSUME WorkProductTypeOK, NEW l \in Launches, NEW pc \in Pcs, MovesTo(l, pc)
  PROVE  /\ Others(l) /\ launch'[l].pc = pc
         /\ SameText(l) /\ SameSeed(l) /\ SameBase(l) /\ SameSight(l)
<1>1. launch[l] \in Launching /\ launch \in [Launches -> Launching]
  BY LaunchIsTyped
<1>2. PICK q : q = [launch[l] EXCEPT !.pc = pc] /\ Becomes(l, q)
  BY DEF MovesTo
<1>3. /\ q \in Launching /\ q.pc = pc
      /\ q.prompted = launch[l].prompted /\ q.dispatched = launch[l].dispatched
      /\ q.seed = launch[l].seed /\ q.fresh = launch[l].fresh /\ q.probe = launch[l].probe
      /\ q.base = launch[l].base /\ q.saw = launch[l].saw
      /\ q.took = launch[l].took /\ q.tip = launch[l].tip /\ q.tree = launch[l].tree
      /\ q.alone = launch[l].alone /\ q.guarded = launch[l].guarded /\ q.seen = launch[l].seen
  BY <1>1, <1>2 DEF Launching
<1>4. /\ launch'[l] = q /\ launch' \in [Launches -> Launching]
      /\ \A k \in Launches : k # l => launch'[k] = launch[k]
  BY <1>1, <1>2, <1>3, BecomesIs
<1> QED BY <1>3, <1>4 DEF Others, SameText, SameSeed, SameBase, SameSight

LEMMA StripIs ==
  ASSUME WorkProductTypeOK, NEW l \in Launches, NEW seed \in 0..MaxCommits,
         Becomes(l, [launch[l] EXCEPT !.pc = "planned", !.seed = seed])
  PROVE  /\ Others(l) /\ launch'[l].pc = "planned" /\ launch'[l].seed = seed
         /\ launch'[l].fresh = launch[l].fresh /\ launch'[l].probe = launch[l].probe
         /\ SameText(l) /\ SameBase(l) /\ SameSight(l)
<1>1. launch[l] \in Launching /\ launch \in [Launches -> Launching]
  BY LaunchIsTyped
<1>2. PICK q : q = [launch[l] EXCEPT !.pc = "planned", !.seed = seed] /\ Becomes(l, q)
  OBVIOUS
<1>3. /\ q \in Launching /\ q.pc = "planned" /\ q.seed = seed
      /\ q.prompted = launch[l].prompted /\ q.dispatched = launch[l].dispatched
      /\ q.fresh = launch[l].fresh /\ q.probe = launch[l].probe
      /\ q.base = launch[l].base /\ q.saw = launch[l].saw
      /\ q.took = launch[l].took /\ q.tip = launch[l].tip /\ q.tree = launch[l].tree
      /\ q.alone = launch[l].alone /\ q.guarded = launch[l].guarded /\ q.seen = launch[l].seen
  BY <1>1, <1>2 DEF Launching, Pcs
<1>4. /\ launch'[l] = q /\ launch' \in [Launches -> Launching]
      /\ \A k \in Launches : k # l => launch'[k] = launch[k]
  BY <1>1, <1>2, <1>3, BecomesIs
<1> QED BY <1>3, <1>4 DEF Others, SameText, SameBase, SameSight

\* A launch whose record is written has no eyes any more for its decision.
NoSight(q) ==
  q.took = "head" /\ q.tip = 0 /\ q.tree = {} /\ ~q.guarded /\ q.seen = {}

LEMMA ForgetsIs ==
  ASSUME WorkProductTypeOK, NEW l \in Launches, Becomes(l, Forgets(l, "recorded"))
  PROVE  /\ Others(l) /\ launch'[l].pc = "recorded"
         /\ SameText(l) /\ SameSeed(l) /\ SameBase(l) /\ NoSight(launch'[l])
<1>1. launch[l] \in Launching /\ launch \in [Launches -> Launching] /\ MaxCommits \in Nat
  BY LaunchIsTyped, WorkProductAssumption
<1>0. PICK q : q = Forgets(l, "recorded")
  OBVIOUS
<1>2. PICK alone, guarded : alone = TRUE /\ guarded = FALSE
  OBVIOUS
<1>3. PICK r : r = [launch[l] EXCEPT !.pc = "recorded", !.took = "head", !.tip = 0]
  OBVIOUS
<1>4. PICK s : s = [r EXCEPT !.tree = {}, !.alone = alone]
  OBVIOUS
<1>5. q = [s EXCEPT !.guarded = guarded, !.seen = {}]
  BY <1>0, <1>2, <1>3, <1>4 DEF Forgets
<1>6. alone \in BOOLEAN /\ guarded \in BOOLEAN /\ 0 \in 0..MaxCommits
  <2>1. alone \in BOOLEAN /\ guarded \in BOOLEAN
    BY <1>2
  <2>2. 0 \in 0..MaxCommits
    BY <1>1
  <2> QED BY <2>1, <2>2
<1>7. /\ r \in Launching /\ r.pc = "recorded" /\ r.took = "head" /\ r.tip = 0
      /\ r.prompted = launch[l].prompted /\ r.dispatched = launch[l].dispatched
      /\ r.seed = launch[l].seed /\ r.fresh = launch[l].fresh /\ r.probe = launch[l].probe
      /\ r.base = launch[l].base /\ r.saw = launch[l].saw
  BY <1>1, <1>3, <1>6 DEF Launching, Pcs
<1>8. /\ s \in Launching /\ s.pc = r.pc /\ s.took = r.took /\ s.tip = r.tip /\ s.tree = {}
      /\ s.prompted = r.prompted /\ s.dispatched = r.dispatched
      /\ s.seed = r.seed /\ s.fresh = r.fresh /\ s.probe = r.probe
      /\ s.base = r.base /\ s.saw = r.saw
  BY <1>4, <1>6, <1>7 DEF Launching
<1>9. /\ q \in Launching /\ q.pc = s.pc /\ q.took = s.took /\ q.tip = s.tip /\ q.tree = s.tree
      /\ q.guarded = guarded /\ q.seen = {}
      /\ q.prompted = s.prompted /\ q.dispatched = s.dispatched
      /\ q.seed = s.seed /\ q.fresh = s.fresh /\ q.probe = s.probe
      /\ q.base = s.base /\ q.saw = s.saw
  BY <1>5, <1>6, <1>8 DEF Launching
<1>10. /\ launch'[l] = q /\ launch' \in [Launches -> Launching]
       /\ \A k \in Launches : k # l => launch'[k] = launch[k]
  BY <1>0, <1>1, <1>9, BecomesIs
<1>11. ~q.guarded
  BY <1>2, <1>9
<1> QED BY <1>7, <1>8, <1>9, <1>10, <1>11 DEF Others, SameText, SameSeed, SameBase, NoSight

LEMMA RecordsIs ==
  ASSUME WorkProductTypeOK, NEW l \in Launches, Records(l)
  PROVE  /\ Others(l) /\ launch[l].pc = "planned" /\ launch'[l].pc = "recorded"
         /\ SameText(l) /\ SameSeed(l) /\ SameBase(l) /\ NoSight(launch'[l])
         /\ record' = launch[l].seed /\ past' \in Past
         /\ past'.minted = past.minted /\ past'.loose = past.loose
         /\ past'.replaced = past.replaced
         /\ ~past'.muddled => launch[l].alone
         /\ ~launch[l].fresh => (past'.pushes = "none" <=> mirror.branch = launch[l].seed)
         /\ UNCHANGED <<log, edits, host, mirror, guest, directive, bookmark, earlier, scene, fetch,
                        failures>>
<1>1. /\ launch[l].pc = "planned" /\ record' = launch[l].seed
      /\ Becomes(l, Forgets(l, "recorded"))
      /\ past' = [past EXCEPT !.muddled = ~launch[l].alone,
                              !.pushes = IF launch[l].fresh THEN past.pushes
                                         ELSE IF mirror.branch = launch[l].seed THEN "none" ELSE "some"]
      /\ UNCHANGED <<log, edits, host, mirror, guest, directive, bookmark, earlier, scene, fetch,
                     failures>>
  BY DEF Records, Works, operatorVars, guestVars, chosenVars
<1>2. past \in Past /\ launch[l].fresh \in BOOLEAN /\ launch[l].alone \in BOOLEAN
  BY LaunchIsTyped DEF WorkProductTypeOK
<1>3. PICK muddled, pushes :
        /\ muddled = ~launch[l].alone
        /\ pushes = IF launch[l].fresh THEN past.pushes
                    ELSE IF mirror.branch = launch[l].seed THEN "none" ELSE "some"
  OBVIOUS
<1>4. muddled \in BOOLEAN /\ (~muddled => launch[l].alone)
  BY <1>2, <1>3
<1>5. pushes \in {"none", "some"} /\ (~launch[l].fresh => (pushes = "none" <=> mirror.branch = launch[l].seed))
  BY <1>2, <1>3 DEF Past
<1>6. past' = [past EXCEPT !.muddled = muddled, !.pushes = pushes]
  BY <1>1, <1>3
<1>7. /\ past' \in Past /\ past'.minted = past.minted /\ past'.loose = past.loose
      /\ past'.muddled = muddled /\ past'.pushes = pushes /\ past'.replaced = past.replaced
  BY <1>2, <1>4, <1>5, <1>6 DEF Past
<1> QED BY <1>1, <1>4, <1>5, <1>7, ForgetsIs

\* A launch that only comes to be: nothing is decided yet.
LEMMA EnlistsIs ==
  ASSUME WorkProductTypeOK, NEW l \in Launches, NEW b \in BOOLEAN, Guards(l, b) \/ Starts(l, b)
  PROVE  /\ Others(l) /\ launch[l].pc = "idle" /\ launch'[l].pc \in {"cleared", "ready"}
         /\ launch'[l].seed = 0 /\ ~launch'[l].fresh /\ launch'[l].base = 0
         /\ launch'[l].saw = 0 /\ launch'[l].tip = 0 /\ launch'[l].took = "head"
         /\ launch'[l].guarded =>
              ~past.minted /\ Strays = {} /\ launch'[l].seen = AgentCommits(host.head)
         /\ past' \in Past /\ past'.minted /\ past'.pushes = past.pushes
         /\ past'.muddled = past.muddled /\ past'.loose = past.loose /\ past'.replaced = past.replaced
         /\ UNCHANGED <<log, edits, host, mirror, guest, record, directive, bookmark, earlier, scene,
                        fetch, failures>>
<1>1. /\ launch[l].pc = "idle"
      /\ past' = [past EXCEPT !.minted = TRUE]
      /\ UNCHANGED <<log, edits, host, mirror, guest, record, directive, bookmark, earlier, scene,
                     fetch, failures>>
  BY DEF Guards, Starts, Works, LaunchFrame, operatorVars, guestVars, filesVars, chosenVars
<1>2. /\ past' \in Past /\ past'.minted /\ past'.pushes = past.pushes
      /\ past'.muddled = past.muddled /\ past'.loose = past.loose /\ past'.replaced = past.replaced
  <2>1. PICK minted : minted = TRUE
    OBVIOUS
  <2>2. past' = [past EXCEPT !.minted = minted] /\ past \in Past /\ minted \in BOOLEAN
    BY <1>1, <2>1 DEF WorkProductTypeOK
  <2>3. /\ past' \in Past /\ past'.minted = minted /\ past'.pushes = past.pushes
        /\ past'.muddled = past.muddled /\ past'.loose = past.loose /\ past'.replaced = past.replaced
    BY <2>2 DEF Past
  <2> QED BY <2>1, <2>3
<1> DEFINE Plain(q) == /\ q \in Launching /\ q.seed = 0 /\ ~q.fresh /\ q.base = 0 /\ q.saw = 0
                       /\ q.tip = 0 /\ q.took = "head"
<1>3. Plain(IdleLaunch) /\ ~IdleLaunch.guarded
  <2>1. MaxCommits \in Nat
    BY WorkProductAssumption
  <2> QED BY <2>1 DEF IdleLaunch, Launching, Pcs
<1>4. \E q : /\ Becomes(l, q) /\ Plain(q) /\ q.pc \in {"cleared", "ready"}
             /\ q.guarded => ~past.minted /\ Strays = {} /\ q.seen = AgentCommits(host.head)
  <2>1. CASE Guards(l, b)
    <3>1. PICK seen, yes, guarded :
            seen = AgentCommits(host.head) /\ yes = TRUE /\ guarded = ~b
      OBVIOUS
    <3>2. seen \subseteq 1..MaxCommits /\ yes \in BOOLEAN /\ guarded \in BOOLEAN
      BY <3>1, CommitsAreTyped DEF AgentCommits
    <3>3. PICK r : r = [IdleLaunch EXCEPT !.pc = "cleared", !.dispatched = yes, !.prompted = yes]
      OBVIOUS
    <3>4. PICK q : q = [r EXCEPT !.guarded = guarded, !.seen = seen]
      OBVIOUS
    <3>5. Becomes(l, q)
      BY <2>1, <3>1, <3>3, <3>4 DEF Guards
    <3>6. guarded => ~past.minted /\ Strays = {} /\ seen = AgentCommits(host.head)
      BY <2>1, <3>1 DEF Guards
    <3>7. Plain(r) /\ r.pc = "cleared"
      <4> DEFINE idle == IdleLaunch
      <4> HIDE DEF idle
      <4>1. Plain(idle) /\ r = [idle EXCEPT !.pc = "cleared", !.dispatched = yes, !.prompted = yes]
        BY <1>3, <3>3 DEF idle
      <4> QED BY <3>2, <4>1 DEF Launching, Pcs
    <3>8. Plain(q) /\ q.pc = "cleared" /\ q.guarded = guarded /\ q.seen = seen
      BY <3>2, <3>4, <3>7 DEF Launching
    <3> QED BY <3>5, <3>6, <3>8
  <2>2. CASE Starts(l, b)
    <3>1. PICK q : q = [IdleLaunch EXCEPT !.pc = "ready", !.prompted = b] /\ Becomes(l, q)
      BY <2>2 DEF Starts
    <3>2. Plain(q) /\ q.pc = "ready" /\ ~q.guarded
      <4> DEFINE idle == IdleLaunch
      <4> HIDE DEF idle
      <4>1. /\ Plain(idle) /\ q = [idle EXCEPT !.pc = "ready", !.prompted = b] /\ ~idle.guarded
        BY <1>3, <3>1 DEF idle
      <4> QED BY <4>1 DEF Launching, Pcs
    <3> QED BY <3>1, <3>2
  <2> QED BY <2>1, <2>2
<1>5. PICK q : /\ Becomes(l, q) /\ Plain(q) /\ q.pc \in {"cleared", "ready"}
               /\ q.guarded => ~past.minted /\ Strays = {} /\ q.seen = AgentCommits(host.head)
  BY <1>4
<1>6. /\ launch'[l] = q /\ launch' \in [Launches -> Launching]
      /\ \A k \in Launches : k # l => launch'[k] = launch[k]
  BY <1>5, LaunchIsTyped, BecomesIs
<1> QED BY <1>1, <1>2, <1>5, <1>6 DEF Others

LEMMA ClaimsIs ==
  ASSUME WorkProductTypeOK, NEW l \in Launches, Claims(l)
  PROVE  /\ Others(l) /\ launch[l].pc = "cleared" /\ launch'[l].pc = "ready"
         /\ SameText(l) /\ SameSeed(l) /\ SameBase(l) /\ SameSight(l)
         /\ host'.head = host.head /\ host'.left = host.left /\ host' \in HostState
         /\ UNCHANGED <<log, edits, mirror, guest, record, directive, bookmark, earlier, scene, fetch,
                        past, failures>>
<1>1. /\ launch[l].pc = "cleared" /\ MovesTo(l, "ready") /\ host.board < scene.boards
      /\ host' = [host EXCEPT !.board = host.board + 1]
      /\ UNCHANGED <<log, edits, mirror, guest, record, directive, bookmark, earlier, scene, fetch,
                     past, failures>>
  BY DEF Claims, Works, guestVars, filesVars, chosenVars
<1>2. host \in HostState /\ scene.boards \in 1..MaxBoards /\ MaxBoards \in Nat
  BY ScenesAreTyped DEF WorkProductTypeOK, HostState
<1>3. host'.head = host.head /\ host'.left = host.left /\ host' \in HostState
  BY <1>1, <1>2 DEF HostState
<1>4. "ready" \in Pcs
  BY DEF Pcs
<1> QED BY <1>1, <1>3, <1>4, MovesIs

\* What becomes of a snapshot when the board is to be stripped from it.
StripsTo(l, n, agent, board) ==
  /\ Adds(host.head, agent, log[launch[l].seed].has, board) /\ launch'[l].seed = n
  /\ ~past'.loose => board = log[host.head].board

LEMMA StripsIs ==
  ASSUME WorkProductTypeOK, NEW l \in Launches, Plan(launch[l]), Strips(l) \/ StripFails(l), NEW n, n = NewId
  PROVE  /\ Others(l) /\ launch[l].pc = "snapped" /\ launch'[l].pc = "planned"
         /\ launch'[l].fresh = launch[l].fresh /\ launch'[l].probe = launch[l].probe
         /\ SameText(l) /\ SameBase(l) /\ SameSight(l)
         /\ past' \in Past /\ past'.minted = past.minted /\ past'.pushes = past.pushes
         /\ past'.muddled = past.muddled /\ past'.replaced = past.replaced
         /\ ~past'.loose => ~past.loose /\ launch[l].tip = host.head
         /\ \/ /\ launch'[l].seed = launch[l].seed /\ log' = log
               /\ ~past'.loose => log[launch[l].seed].board = log[host.head].board
            \/ \E agent, board : StripsTo(l, n, agent, board)
         /\ SameFailures
         /\ UNCHANGED <<edits, host, mirror, guest, record, directive, bookmark, earlier, scene, fetch>>
<1>1. /\ launch[l].pc = "snapped" /\ SameFailures
      /\ UNCHANGED <<edits, host, mirror, guest, record, directive, bookmark, earlier, scene, fetch>>
  BY DEF Strips, StripFails, Works, Fails, SameFailures, guestVars, filesVars, chosenVars
<1>2. PICK loose : /\ past' = [past EXCEPT !.loose = loose] /\ loose \in BOOLEAN
                   /\ loose = TRUE \/ (loose = (past.loose \/ launch[l].tip # host.head) /\ Strips(l))
  <2>1. past.loose \in BOOLEAN
    BY DEF WorkProductTypeOK, Past
  <2> QED BY <2>1 DEF Strips, StripFails
<1>3. /\ past' \in Past /\ past'.minted = past.minted /\ past'.pushes = past.pushes
      /\ past'.muddled = past.muddled /\ past'.loose = loose /\ past'.replaced = past.replaced
  BY <1>2 DEF WorkProductTypeOK, Past
<1>4. ~loose => ~past.loose /\ launch[l].tip = host.head /\ Strips(l)
  BY <1>2
<1>5. /\ launch[l].seed \in Commits /\ log[launch[l].seed].has \subseteq 1..MaxEdits
      /\ log[launch[l].seed].board \in 0..MaxBoards /\ host.head \in Commits
      /\ log[host.head].board \in 0..MaxBoards
  <2>1. launch[l].seed \in Nat /\ launch[l].seed # 0 /\ launch[l].seed <= Len(log) /\ Len(log) \in Nat
    BY <1>1, LaunchIsTyped, CommitsAreTyped DEF Plan, PlanIn
  <2>2. launch[l].seed \in Commits
    BY <2>1 DEF Commits
  <2> QED BY <2>2, CommitsAreTyped
<1>6. \/ /\ MovesTo(l, "planned") /\ log' = log
         /\ Strips(l) => log[launch[l].seed].board = log[host.head].board
      \/ \E board \in 0..MaxBoards : /\ StrippedSeed(l, board)
                                     /\ Strips(l) => board = log[host.head].board
  <2>1. CASE Strips(l)
    BY <1>5, <2>1 DEF Strips
  <2>2. CASE ~Strips(l)
    <3>1. StripFails(l)
      BY <2>2
    <3>2. 0 \in 0..MaxBoards
      BY ScenesAreTyped
    <3> QED BY <1>5, <2>2, <3>1, <3>2 DEF StripFails
  <2> QED BY <2>1, <2>2
<1>7. CASE /\ MovesTo(l, "planned") /\ log' = log
           /\ Strips(l) => log[launch[l].seed].board = log[host.head].board
  <2>1. "planned" \in Pcs
    BY DEF Pcs
  <2>2. /\ Others(l) /\ launch'[l].pc = "planned"
        /\ SameText(l) /\ SameSeed(l) /\ SameBase(l) /\ SameSight(l)
    BY <1>7, <2>1, MovesIs
  <2> QED BY <1>1, <1>3, <1>4, <1>7, <2>2 DEF SameSeed
<1>8. ASSUME NEW board \in 0..MaxBoards, StrippedSeed(l, board), Strips(l) => board = log[host.head].board
      PROVE  /\ \E agent : Adds(host.head, agent, log[launch[l].seed].has, board)
             /\ Others(l) /\ launch'[l].pc = "planned" /\ launch'[l].seed = n
             /\ launch'[l].fresh = launch[l].fresh /\ launch'[l].probe = launch[l].probe
             /\ SameText(l) /\ SameBase(l) /\ SameSight(l)
  <2>1. /\ Room /\ log' = Append(log, Child(host.head, FALSE, log[launch[l].seed].has, board))
        /\ Becomes(l, [launch[l] EXCEPT !.pc = "planned", !.seed = n])
    BY <1>8 DEF StrippedSeed
  <2>2. n \in 0..MaxCommits
    BY CommitsAreTyped, ScenesAreTyped, <2>1 DEF Room, NewId
  <2>3. Adds(host.head, FALSE, log[launch[l].seed].has, board)
    BY <1>5, <2>1 DEF Adds
  <2>4. /\ Others(l) /\ launch'[l].pc = "planned" /\ launch'[l].seed = n
        /\ launch'[l].fresh = launch[l].fresh /\ launch'[l].probe = launch[l].probe
        /\ SameText(l) /\ SameBase(l) /\ SameSight(l)
    BY <2>1, <2>2, StripIs
  <2> QED BY <2>3, <2>4
<1>9. ASSUME NEW board \in 0..MaxBoards, StrippedSeed(l, board), Strips(l) => board = log[host.head].board
      PROVE  /\ Others(l) /\ launch'[l].pc = "planned"
             /\ launch'[l].fresh = launch[l].fresh /\ launch'[l].probe = launch[l].probe
             /\ SameText(l) /\ SameBase(l) /\ SameSight(l)
             /\ \E agent : StripsTo(l, n, agent, board)
  BY <1>3, <1>4, <1>8, <1>9 DEF StripsTo
<1>10. CASE \E board \in 0..MaxBoards : /\ StrippedSeed(l, board)
                                        /\ Strips(l) => board = log[host.head].board
  <2>1. PICK board \in 0..MaxBoards : /\ StrippedSeed(l, board)
                                      /\ Strips(l) => board = log[host.head].board
    BY <1>10
  <2>2. /\ Others(l) /\ launch'[l].pc = "planned"
        /\ launch'[l].fresh = launch[l].fresh /\ launch'[l].probe = launch[l].probe
        /\ SameText(l) /\ SameBase(l) /\ SameSight(l)
        /\ \E agent : StripsTo(l, n, agent, board)
    BY <1>9, <2>1
  <2>3. ~past'.loose => ~past.loose /\ launch[l].tip = host.head
    BY <1>3, <1>4
  <2> QED BY <1>1, <1>3, <2>2, <2>3
<1> QED BY <1>6, <1>7, <1>10

\* What happened so far stays, but for what is let through and replaced.
SamePast ==
  /\ past' \in Past /\ past'.minted = past.minted /\ past'.pushes = past.pushes
  /\ past'.muddled = past.muddled

\* The text that is kept, and those it has replaced.
SameKept == directive' = directive /\ past'.replaced = past.replaced
Keeps(l) == directive' = l /\ past'.replaced = past.replaced \cup ({directive} \ {"none"})

LEMMA EmitsIs ==
  ASSUME WorkProductTypeOK, NEW l \in Launches, Emits(l)
  PROVE  /\ Others(l) /\ launch[l].pc = "recorded" /\ launch'[l].pc = "cloning"
         /\ SameText(l) /\ SameSeed(l) /\ SameBase(l) /\ SameSight(l)
         /\ directive' \in {directive, l}
         /\ launch[l].prompted => Keeps(l)
         /\ ~launch[l].prompted => SameKept
         /\ SamePast /\ past'.loose = past.loose
         /\ UNCHANGED <<log, edits, host, mirror, guest, record, bookmark, earlier, scene, fetch,
                        failures>>
<1>1. "cloning" \in Pcs
  BY DEF Pcs
<1>2. PICK texts : texts = past.replaced \cup ({directive} \ {"none"})
  OBVIOUS
<1>3. past \in Past /\ texts \subseteq Launches
  BY <1>2 DEF WorkProductTypeOK, Past
<1>4. PICK replaced : replaced = IF launch[l].prompted THEN texts ELSE past.replaced
  OBVIOUS
<1>5. past' = [past EXCEPT !.replaced = replaced]
  BY <1>2, <1>4 DEF Emits
<1>6. replaced \subseteq Launches
  BY <1>3, <1>4 DEF Past
<1>7. SamePast /\ past'.loose = past.loose /\ past'.replaced = replaced
  BY <1>3, <1>5, <1>6 DEF SamePast, Past
<1>8. /\ launch[l].prompted => Keeps(l)
      /\ ~launch[l].prompted => SameKept
      /\ directive' \in {directive, l}
  BY <1>2, <1>4, <1>7 DEF Emits, Keeps, SameKept
<1> QED BY <1>1, <1>7, <1>8, MovesIs DEF Emits, Works, operatorVars, guestVars, chosenVars

LEMMA ClonesIs ==
  ASSUME WorkProductTypeOK, NEW l \in Launches, Clones(l)
  PROVE  /\ Others(l) /\ launch[l].pc = "cloning" /\ launch'[l].pc = "seeding"
         /\ SameText(l) /\ SameSeed(l) /\ SameBase(l) /\ SameSight(l)
         /\ mirror' = [mirror EXCEPT !.there = TRUE]
         /\ UNCHANGED <<log, edits, host, guest, record, directive, bookmark, earlier, scene, fetch,
                        past, failures>>
<1>1. "seeding" \in Pcs
  BY DEF Pcs
<1> QED BY <1>1, MovesIs DEF Clones, Works, operatorVars, filesVars, chosenVars

LEMMA PushesSeedIs ==
  ASSUME WorkProductTypeOK, NEW l \in Launches, PushesSeed(l)
  PROVE  /\ Others(l) /\ launch[l].pc = "seeding" /\ launch'[l].pc = "basing"
         /\ SameText(l) /\ SameBase(l) /\ SameSight(l)
         /\ launch'[l].seed = 0 /\ ~launch'[l].fresh
         /\ launch[l].fresh => /\ mirror' = [mirror EXCEPT !.branch = launch[l].seed]
                               /\ past' = [past EXCEPT !.pushes = "none"]
         /\ ~launch[l].fresh => mirror' = mirror /\ past' = past
         /\ UNCHANGED <<log, edits, host, guest, record, directive, bookmark, earlier, scene, fetch,
                        failures>>
<1>1. /\ launch[l].pc = "seeding"
      /\ launch[l].fresh => /\ mirror' = [mirror EXCEPT !.branch = launch[l].seed]
                            /\ past' = [past EXCEPT !.pushes = "none"]
      /\ ~launch[l].fresh => mirror' = mirror /\ past' = past
      /\ UNCHANGED <<log, edits, host, guest, record, directive, bookmark, earlier, scene, fetch,
                     failures>>
  BY DEF PushesSeed, Works, operatorVars, filesVars, chosenVars
<1>2. launch[l] \in Launching /\ launch \in [Launches -> Launching] /\ MaxCommits \in Nat
  BY LaunchIsTyped, WorkProductAssumption
<1>3. PICK q : /\ Becomes(l, q)
               /\ q = [launch[l] EXCEPT !.pc = "basing", !.seed = 0, !.fresh = FALSE, !.probe = "branch"]
  BY DEF PushesSeed
<1>4. PICK no : no = FALSE
  OBVIOUS
<1>5. PICK r : r = [launch[l] EXCEPT !.pc = "basing", !.seed = 0]
  OBVIOUS
<1>6. q = [r EXCEPT !.fresh = no, !.probe = "branch"]
  BY <1>3, <1>4, <1>5
<1>7. no \in BOOLEAN
  BY <1>4
<1>12. 0 \in 0..MaxCommits
  BY <1>2
<1>8. /\ r \in Launching /\ r.pc = "basing" /\ r.seed = 0
      /\ r.prompted = launch[l].prompted /\ r.dispatched = launch[l].dispatched
      /\ r.base = launch[l].base /\ r.saw = launch[l].saw
      /\ r.took = launch[l].took /\ r.tip = launch[l].tip /\ r.tree = launch[l].tree
      /\ r.alone = launch[l].alone /\ r.guarded = launch[l].guarded /\ r.seen = launch[l].seen
  BY <1>2, <1>5, <1>12 DEF Launching, Pcs
<1>9. /\ q \in Launching /\ q.pc = r.pc /\ q.seed = r.seed /\ q.fresh = no
      /\ q.prompted = r.prompted /\ q.dispatched = r.dispatched
      /\ q.base = r.base /\ q.saw = r.saw
      /\ q.took = r.took /\ q.tip = r.tip /\ q.tree = r.tree
      /\ q.alone = r.alone /\ q.guarded = r.guarded /\ q.seen = r.seen
  BY <1>6, <1>7, <1>8 DEF Launching
<1>10. /\ launch'[l] = q /\ launch' \in [Launches -> Launching]
       /\ \A k \in Launches : k # l => launch'[k] = launch[k]
  BY <1>2, <1>3, <1>9, BecomesIs
<1>11. ~q.fresh
  BY <1>4, <1>9
<1> QED BY <1>1, <1>8, <1>9, <1>10, <1>11 DEF Others, SameText, SameBase, SameSight

LEMMA PushesBaseIs ==
  ASSUME WorkProductTypeOK, NEW l \in Launches, PushesBase(l)
  PROVE  /\ Others(l) /\ launch[l].pc = "basing" /\ launch'[l].pc = "booting"
         /\ SameText(l) /\ SameSeed(l) /\ SameSight(l)
         /\ launch'[l].base = 0 /\ launch'[l].saw = 0
         /\ launch[l].base # 0 => mirror' = [mirror EXCEPT !.base = launch[l].base]
         /\ launch[l].base = 0 => mirror' = mirror
         /\ UNCHANGED <<log, edits, host, guest, record, directive, bookmark, earlier, scene, fetch,
                        past, failures>>
<1>1. /\ launch[l].pc = "basing"
      /\ launch[l].base # 0 => mirror' = [mirror EXCEPT !.base = launch[l].base]
      /\ launch[l].base = 0 => mirror' = mirror
      /\ UNCHANGED <<log, edits, host, guest, record, directive, bookmark, earlier, scene, fetch,
                     past, failures>>
  BY DEF PushesBase, Works, operatorVars, filesVars, chosenVars
<1>2. launch[l] \in Launching /\ launch \in [Launches -> Launching] /\ MaxCommits \in Nat
  BY LaunchIsTyped, WorkProductAssumption
<1>3. PICK q : /\ Becomes(l, q)
               /\ q = [launch[l] EXCEPT !.pc = "booting", !.base = 0, !.saw = 0]
  BY DEF PushesBase
<1>6. 0 \in 0..MaxCommits
  BY <1>2
<1>4. /\ q \in Launching /\ q.pc = "booting" /\ q.base = 0 /\ q.saw = 0
      /\ q.prompted = launch[l].prompted /\ q.dispatched = launch[l].dispatched
      /\ q.seed = launch[l].seed /\ q.fresh = launch[l].fresh /\ q.probe = launch[l].probe
      /\ q.took = launch[l].took /\ q.tip = launch[l].tip /\ q.tree = launch[l].tree
      /\ q.alone = launch[l].alone /\ q.guarded = launch[l].guarded /\ q.seen = launch[l].seen
  BY <1>2, <1>3, <1>6 DEF Launching, Pcs
<1>5. /\ launch'[l] = q /\ launch' \in [Launches -> Launching]
      /\ \A k \in Launches : k # l => launch'[k] = launch[k]
  BY <1>2, <1>3, <1>4, BecomesIs
<1> QED BY <1>1, <1>4, <1>5 DEF Others, SameText, SameSeed, SameSight

\* A launch that has ended, in the guest or by dying.
Ended(q) ==
  /\ q.pc = "done" /\ q.seed = 0 /\ ~q.fresh /\ q.base = 0 /\ q.saw = 0 /\ q.tip = 0
  /\ q.took = "head" /\ ~q.guarded /\ ~q.prompted

LEMMA EndsIs ==
  ASSUME WorkProductTypeOK, NEW l \in Launches, Becomes(l, Done)
  PROVE  Others(l) /\ Ended(launch'[l])
<1>1. Ended(Done) /\ Done \in Launching
  <2>1. PICK q : q = [IdleLaunch EXCEPT !.pc = "done"]
    OBVIOUS
  <2>2. /\ q.pc = "done" /\ q.seed = 0 /\ ~q.fresh /\ q.base = 0 /\ q.saw = 0 /\ q.tip = 0
        /\ q.took = "head" /\ ~q.guarded /\ ~q.prompted
    BY <2>1 DEF IdleLaunch
  <2>3. q \in Launching
    <3>1. MaxCommits \in Nat
      BY WorkProductAssumption
    <3>2. PICK idle : idle = IdleLaunch
      OBVIOUS
    <3>3. idle \in Launching
      BY <3>1, <3>2 DEF IdleLaunch, Launching, Pcs
    <3>4. q = [idle EXCEPT !.pc = "done"]
      BY <2>1, <3>2
    <3> QED BY <3>3, <3>4 DEF Launching, Pcs
  <2> QED BY <2>1, <2>2, <2>3 DEF Done, Ended
<1>2. launch \in [Launches -> Launching]
  BY LaunchIsTyped
<1> HIDE DEF Done
<1> QED BY <1>1, <1>2, BecomesIs DEF Others

LEMMA DiesIs ==
  ASSUME WorkProductTypeOK, NEW l \in Launches, Dies(l)
  PROVE  /\ Others(l) /\ launch[l].pc \in Late /\ Ended(launch'[l])
         /\ past' \in Past /\ past'.minted = past.minted /\ past'.pushes = past.pushes
         /\ past'.loose = past.loose /\ past'.replaced = past.replaced
         /\ ~past'.muddled => ~past.muddled /\ ~Unseeded(l)
         /\ UNCHANGED <<log, edits, host, mirror, guest, record, directive, bookmark, earlier, scene,
                        fetch, failures>>
<1>1. /\ launch[l].pc \in Late /\ Becomes(l, Done)
      /\ past' = [past EXCEPT !.muddled = past.muddled \/ Unseeded(l)]
      /\ UNCHANGED <<log, edits, host, mirror, guest, record, directive, bookmark, earlier, scene,
                     fetch, failures>>
  BY DEF Dies, Late, Unseeded, Works, LaunchFrame, operatorVars, guestVars, filesVars, chosenVars
<1>2. PICK muddled : muddled = (past.muddled \/ Unseeded(l))
  OBVIOUS
<1>3. muddled \in BOOLEAN /\ (~muddled => ~past.muddled /\ ~Unseeded(l))
  BY <1>2
<1>4. past \in Past /\ past' = [past EXCEPT !.muddled = muddled]
  BY <1>1, <1>2 DEF WorkProductTypeOK
<1>5. /\ past' \in Past /\ past'.minted = past.minted /\ past'.pushes = past.pushes
      /\ past'.loose = past.loose /\ past'.muddled = muddled /\ past'.replaced = past.replaced
  BY <1>3, <1>4 DEF Past
<1> QED BY <1>1, <1>3, <1>5, EndsIs

\* How the workspace of a guest that boots comes about.
Cloned == guest.clone = 0 /\ guest'.clone = mirror.branch
KeptClone == guest.clone # 0 /\ guest'.clone = guest.clone
Forwarded == mirror.base # 0 /\ guest'.clone = mirror.base
Replayed(n, agent, has, board) ==
  /\ guest.clone # 0 /\ mirror.base # 0
  /\ ~Descends(guest.clone, mirror.base) /\ ~Descends(mirror.base, guest.clone)
  /\ Adds(mirror.base, agent, has, board) /\ board = MergedBoard(guest.clone, mirror.base)
  /\ guest'.clone = n

LEMMA BootsIs ==
  ASSUME WorkProductTypeOK, NEW l \in Launches, Boots(l), NEW n, n = NewId
  PROVE  /\ Others(l) /\ launch[l].pc = "booting" /\ Ended(launch'[l])
         /\ guest'.up /\ guest' = [up |-> TRUE, clone |-> guest'.clone, told |-> guest'.told]
         /\ launch[l].prompted => guest'.told = l
         /\ ~launch[l].prompted => guest'.told = "none"
         /\ SamePast /\ past'.replaced = past.replaced /\ (~past'.loose => ~past.loose)
         /\ \/ log' = log /\ (Cloned \/ KeptClone \/ Forwarded)
            \/ /\ \E agent, has, board : Replayed(n, agent, has, board)
               /\ ~past'.loose => From(guest.clone) \cap host.left = {}
         /\ UNCHANGED <<edits, host, mirror, record, directive, bookmark, earlier, scene, fetch,
                        failures>>
<1>1. /\ launch[l].pc = "booting" /\ Becomes(l, Done)
      /\ UNCHANGED <<edits, host, mirror, record, directive, bookmark, earlier, scene, fetch,
                     failures>>
  BY DEF Boots, Works, filesVars, chosenVars
<1> DEFINE told == IF launch[l].prompted THEN l ELSE "none"
           has == log[mirror.base].has \cup log[guest.clone].has
           Comes(c) == guest' = [up |-> TRUE, clone |-> c, told |-> told]
           Stays == log' = log /\ past' = past
           Brings == past' = [past EXCEPT !.loose = past.loose \/ From(guest.clone) \cap host.left # {}]
<1>2. \/ guest.clone = 0 /\ Comes(mirror.branch) /\ Stays
      \/ guest.clone # 0 /\ Comes(guest.clone) /\ Stays
      \/ mirror.base # 0 /\ Comes(mirror.base) /\ Stays
      \/ /\ guest.clone # 0 /\ mirror.base # 0
         /\ ~Descends(guest.clone, mirror.base) /\ ~Descends(mirror.base, guest.clone) /\ Room
         /\ log' = Append(log, Child(mirror.base, AgentCommits(guest.clone) \ From(mirror.base) # {},
                                     has, MergedBoard(guest.clone, mirror.base)))
         /\ Comes(n) /\ Brings
  BY DEF Boots
<1>3. /\ launch[l].prompted => told = l
      /\ ~launch[l].prompted => told = "none"
  OBVIOUS
<1> HIDE DEF told, has
<1>4. \A c : Comes(c) => /\ guest'.clone = c /\ guest'.up /\ guest'.told = told
                         /\ guest' = [up |-> TRUE, clone |-> guest'.clone, told |-> guest'.told]
  OBVIOUS
<1>8. past \in Past
  BY DEF WorkProductTypeOK
<1>5. CASE Stays /\ \/ guest.clone = 0 /\ Comes(mirror.branch)
                    \/ guest.clone # 0 /\ Comes(guest.clone)
                    \/ mirror.base # 0 /\ Comes(mirror.base)
  <2>1. Cloned \/ KeptClone \/ Forwarded
    BY <1>4, <1>5 DEF Cloned, KeptClone, Forwarded
  <2>2. guest'.up /\ guest'.told = told
        /\ guest' = [up |-> TRUE, clone |-> guest'.clone, told |-> guest'.told]
    BY <1>4, <1>5
  <2>3. SamePast /\ past'.replaced = past.replaced /\ (~past'.loose => ~past.loose)
    BY <1>5, <1>8 DEF SamePast
  <2> HIDE DEF Comes
  <2> QED BY <1>1, <1>3, <1>5, <2>1, <2>2, <2>3, EndsIs
<1>6. CASE /\ guest.clone # 0 /\ mirror.base # 0
           /\ ~Descends(guest.clone, mirror.base) /\ ~Descends(mirror.base, guest.clone) /\ Room
           /\ log' = Append(log, Child(mirror.base, AgentCommits(guest.clone) \ From(mirror.base) # {},
                                       has, MergedBoard(guest.clone, mirror.base)))
           /\ Comes(n) /\ Brings
  <2>1. PICK agent, board : /\ agent = (AgentCommits(guest.clone) \ From(mirror.base) # {})
                            /\ board = MergedBoard(guest.clone, mirror.base)
    OBVIOUS
  <2>2. guest.clone \in Commits /\ mirror.base \in Commits
    BY <1>6, CommitsAreTyped DEF WorkProductTypeOK, Commits
  <2>3. has \subseteq 1..MaxEdits /\ board \in 0..MaxBoards
    BY <2>1, <2>2, CommitsAreTyped, MergedBoardIsTyped DEF has
  <2>4. agent \in BOOLEAN /\ log' = Append(log, Child(mirror.base, agent, has, board)) /\ Room
    BY <1>6, <2>1
  <2>5. Adds(mirror.base, agent, has, board)
    BY <2>2, <2>3, <2>4 DEF Adds
  <2>6. Replayed(n, agent, has, board)
    BY <1>4, <1>6, <2>1, <2>5 DEF Replayed
  <2>7. guest'.up /\ guest'.told = told
        /\ guest' = [up |-> TRUE, clone |-> guest'.clone, told |-> guest'.told]
    BY <1>4, <1>6
  <2>8. PICK loose : loose = (past.loose \/ From(guest.clone) \cap host.left # {})
    OBVIOUS
  <2>9. loose \in BOOLEAN /\ past' = [past EXCEPT !.loose = loose]
    BY <1>6, <2>8
  <2>10. SamePast /\ past'.replaced = past.replaced /\ past'.loose = loose
    BY <1>8, <2>9 DEF SamePast, Past
  <2>11. ~past'.loose => ~past.loose /\ From(guest.clone) \cap host.left = {}
    BY <2>8, <2>10
  <2> HIDE DEF Comes
  <2> QED BY <1>1, <1>3, <2>6, <2>7, <2>10, <2>11, EndsIs
<1> QED BY <1>2, <1>5, <1>6

\* A launch that finds the guest up brings its text, and no more.
LEMMA JoinsIs ==
  ASSUME WorkProductTypeOK, NEW l \in Launches, Joins(l)
  PROVE  /\ Others(l) /\ launch[l].pc = "booting" /\ Ended(launch'[l]) /\ guest.up
         /\ guest' \in [up : {guest.up}, clone : {guest.clone}, told : Launches \cup {"none"}]
         /\ launch[l].prompted => guest'.told = l
         /\ ~launch[l].prompted => guest'.told = guest.told
         /\ UNCHANGED <<log, edits, host, mirror, record, directive, bookmark, earlier, scene, fetch,
                        past, failures>>
<1>1. /\ launch[l].pc = "booting" /\ Becomes(l, Done) /\ guest.up
      /\ UNCHANGED <<log, edits, host, mirror, record, directive, bookmark, earlier, scene, fetch,
                     past, failures>>
  BY DEF Joins, Works, operatorVars, filesVars, chosenVars
<1>2. PICK told : told = IF launch[l].prompted THEN l ELSE guest.told
  OBVIOUS
<1>3. guest \in [up : {guest.up}, clone : {guest.clone}, told : Launches \cup {"none"}]
  BY DEF WorkProductTypeOK
<1>4. guest' = [guest EXCEPT !.told = told] /\ told \in Launches \cup {"none"}
  BY <1>2, <1>3 DEF Joins
<1>5. /\ guest' \in [up : {guest.up}, clone : {guest.clone}, told : Launches \cup {"none"}]
      /\ guest'.told = told
  BY <1>3, <1>4
<1> QED BY <1>1, <1>2, <1>5, EndsIs

LEMMA AgentWorksIs ==
  ASSUME WorkProductTypeOK, guest.up => guest.clone # 0, AgentWorks, NEW n, n = NewId
  PROVE  /\ guest.up /\ guest' = [guest EXCEPT !.clone = n] /\ edits' \in 0..MaxEdits
         /\ \E agent, has : Adds(guest.clone, agent, has, log[guest.clone].board)
         /\ UNCHANGED <<host, mirror, record, directive, bookmark, earlier, scene, launch, fetch, past,
                        failures>>
<1>1. /\ guest.up /\ Room /\ edits < scene.edits /\ edits' = edits + 1
      /\ guest' = [guest EXCEPT !.clone = n]
      /\ log' = Append(log, Child(guest.clone, TRUE, log[guest.clone].has \cup {edits + 1},
                                  log[guest.clone].board))
      /\ UNCHANGED <<host, mirror, record, directive, bookmark, earlier, scene, launch, fetch, past,
                     failures>>
  BY DEF AgentWorks, GuestFrame, filesVars, chosenVars
<1>2. edits + 1 \in 1..MaxEdits /\ guest.clone \in Commits
  <2>1. edits \in 0..MaxEdits /\ scene.edits \in 1..MaxEdits /\ MaxEdits \in Nat
    BY ScenesAreTyped DEF WorkProductTypeOK
  <2>2. guest.clone \in 0..Len(log) /\ guest.clone # 0 /\ Len(log) \in Nat
    BY <1>1, CommitsAreTyped DEF WorkProductTypeOK
  <2> QED BY <1>1, <2>1, <2>2 DEF Commits
<1>3. log[guest.clone].has \cup {edits + 1} \subseteq 1..MaxEdits /\ log[guest.clone].board \in 0..MaxBoards
  BY <1>2, CommitsAreTyped
<1>4. PICK agent : agent = TRUE
  OBVIOUS
<1>5. Adds(guest.clone, agent, log[guest.clone].has \cup {edits + 1}, log[guest.clone].board)
  BY <1>1, <1>2, <1>3, <1>4 DEF Adds
<1>6. edits' \in 0..MaxEdits
  BY <1>1, <1>2
<1> QED BY <1>1, <1>5, <1>6

LEMMA AgentPushesIs ==
  ASSUME WorkProductTypeOK, AgentPushes
  PROVE  /\ guest.up /\ mirror' = [mirror EXCEPT !.branch = guest.clone]
         /\ past' \in Past /\ past'.minted = past.minted /\ past'.muddled = past.muddled
         /\ past'.replaced = past.replaced
         /\ past'.loose = past.loose /\ (past'.pushes = "none" <=> guest.clone = record)
         /\ UNCHANGED <<log, edits, host, guest, record, directive, bookmark, earlier, scene, launch,
                        fetch, failures>>
<1>1. /\ guest.up /\ mirror' = [mirror EXCEPT !.branch = guest.clone]
      /\ past' = [past EXCEPT !.pushes = IF guest.clone = record THEN "none" ELSE "some"]
      /\ UNCHANGED <<log, edits, host, guest, record, directive, bookmark, earlier, scene, launch,
                     fetch, failures>>
  BY DEF AgentPushes, GuestFrame, filesVars, chosenVars
<1>2. PICK pushes : pushes = IF guest.clone = record THEN "none" ELSE "some"
  OBVIOUS
<1>3. pushes \in {"none", "some"} /\ (pushes = "none" <=> guest.clone = record)
  BY <1>2
<1>4. past \in Past /\ past' = [past EXCEPT !.pushes = pushes]
  BY <1>1, <1>2 DEF WorkProductTypeOK
<1>5. /\ past' \in Past /\ past'.minted = past.minted /\ past'.muddled = past.muddled
      /\ past'.loose = past.loose /\ past'.pushes = pushes /\ past'.replaced = past.replaced
  BY <1>3, <1>4 DEF Past
<1> QED BY <1>1, <1>3, <1>5

LEMMA TalksIs ==
  ASSUME WorkProductTypeOK, GuestStops \/ Redelivers
  PROVE  /\ guest' \in [up : BOOLEAN, clone : {guest.clone}, told : Launches \cup {"none"}]
         /\ guest'.up => guest.up
         /\ guest'.told # "none" => directive # "none" /\ guest'.told = directive
         /\ UNCHANGED <<log, edits, host, mirror, record, directive, bookmark, earlier, scene, launch,
                        fetch, past, failures>>
<1>1. UNCHANGED <<log, edits, host, mirror, record, directive, bookmark, earlier, scene, launch,
                  fetch, past, failures>>
  BY DEF GuestStops, Redelivers, GuestFrame, filesVars, chosenVars
<1>2. /\ guest \in [up : BOOLEAN, clone : {guest.clone}, told : Launches \cup {"none"}]
      /\ directive \in Launches \cup {"none"}
  BY DEF WorkProductTypeOK
<1>3. CASE GuestStops
  <2>1. PICK up : up = FALSE
    OBVIOUS
  <2>2. guest' = [guest EXCEPT !.up = up, !.told = "none"] /\ up \in BOOLEAN /\ ~up
    BY <1>3, <2>1 DEF GuestStops
  <2>3. /\ guest' \in [up : BOOLEAN, clone : {guest.clone}, told : Launches \cup {"none"}]
        /\ guest'.up = up /\ guest'.told = "none"
    BY <1>2, <2>2
  <2> QED BY <1>1, <2>2, <2>3
<1>4. CASE Redelivers
  <2>1. guest.up /\ directive # "none" /\ guest' = [guest EXCEPT !.told = directive]
    BY <1>4 DEF Redelivers
  <2>2. guest' \in [up : BOOLEAN, clone : {guest.clone}, told : Launches \cup {"none"}]
    BY <1>2, <2>1
  <2> QED BY <1>1, <2>1, <2>2
<1> QED BY <1>3, <1>4

-----------------------------------------------------------------------------
(* The steps of fetch and deliver.                                         *)

LEMMA IdleFetchIsTyped ==
  ASSUME WorkProductTypeOK
  PROVE  /\ IdleFetch \in Fetching /\ IdleFetch.pc = "idle" /\ ~IdleFetch.exact /\ IdleFetch.head = 0
         /\ ~IdleFetch.blind
BY WorkProductAssumption DEF IdleFetch, Fetching

LEMMA LooksIs ==
  ASSUME WorkProductTypeOK, Looks
  PROVE  /\ fetch' \in Fetching /\ fetch'.pc = "looked" /\ fetch'.head = host.head /\ ~fetch'.exact
         /\ ~fetch'.blind => ~HasHostWorkOnTop
         /\ SameFailures
         /\ UNCHANGED <<log, edits, host, mirror, guest, record, directive, bookmark, earlier, scene,
                        launch, past>>
<1>1. /\ SameFailures
      /\ UNCHANGED <<log, edits, host, mirror, guest, record, directive, bookmark, earlier, scene,
                     launch, past>>
  BY DEF Looks, Works, Fails, SameFailures, operatorVars, guestVars, filesVars, chosenVars
<1>2. PICK idle, yes : idle = IdleFetch /\ yes = TRUE
  OBVIOUS
<1>3. host.head \in 0..MaxCommits
  BY CommitsAreTyped DEF Commits
<1>4. idle \in Fetching /\ ~idle.exact /\ ~idle.blind
  BY <1>2, IdleFetchIsTyped
<1>5. yes \in BOOLEAN
  BY <1>2
<1>6. \/ ~HasHostWorkOnTop /\ fetch' = [idle EXCEPT !.pc = "looked", !.head = host.head]
      \/ fetch' = [idle EXCEPT !.pc = "looked", !.head = host.head, !.blind = yes]
  BY <1>2 DEF Looks
<1>7. CASE ~HasHostWorkOnTop /\ fetch' = [idle EXCEPT !.pc = "looked", !.head = host.head]
  <2>1. /\ fetch' \in Fetching /\ fetch'.pc = "looked" /\ fetch'.head = host.head
        /\ fetch'.exact = idle.exact
    BY <1>3, <1>4, <1>7 DEF Fetching
  <2> QED BY <1>1, <1>4, <1>7, <2>1
<1>8. CASE fetch' = [idle EXCEPT !.pc = "looked", !.head = host.head, !.blind = yes]
  <2>1. /\ fetch' \in Fetching /\ fetch'.pc = "looked" /\ fetch'.head = host.head
        /\ fetch'.exact = idle.exact /\ fetch'.blind = yes
    BY <1>3, <1>4, <1>5, <1>8 DEF Fetching
  <2>2. fetch'.blind
    BY <1>2, <2>1
  <2> QED BY <1>1, <1>4, <2>1, <2>2
<1> QED BY <1>6, <1>7, <1>8

LEMMA PullsIs ==
  ASSUME WorkProductTypeOK, Pulls
  PROVE  /\ fetch.pc = "looked" /\ fetch' \in Fetching /\ fetch'.pc # "looked" /\ fetch'.head = 0
         /\ fetch'.exact => /\ fetch'.pc = "pulled" /\ fetch'.seed = record /\ ~past.muddled /\ Quiet
                            /\ bookmark' = mirror.branch
                            /\ fetch'.news <=> past.pushes = "some"
         /\ bookmark' = bookmark \/ (mirror.branch # 0 /\ bookmark' = mirror.branch)
         /\ UNCHANGED <<log, edits, host, mirror, guest, record, directive, earlier, scene,
                        launch, past, failures>>
<1>1. /\ fetch.pc = "looked"
      /\ UNCHANGED <<log, edits, host, mirror, guest, record, directive, earlier, scene,
                     launch, past, failures>>
  BY DEF Pulls, operatorVars, guestVars, filesVars, chosenVars
<1>2. PICK idle, news, exact : /\ idle = IdleFetch /\ news = (past.pushes = "some")
                               /\ exact = (~past.muddled /\ Quiet)
  OBVIOUS
<1>3. /\ record \in 0..MaxCommits /\ past \in Past
  BY CommitsAreTyped DEF WorkProductTypeOK
<1>4. idle \in Fetching /\ ~idle.exact /\ idle.pc = "idle" /\ idle.head = 0
  BY <1>2, IdleFetchIsTyped
<1>5. /\ news \in BOOLEAN /\ exact \in BOOLEAN /\ (news <=> past.pushes = "some")
      /\ exact => ~past.muddled /\ Quiet
  BY <1>2
<1>6. \/ fetch' = idle /\ bookmark' = bookmark
      \/ /\ mirror.branch # 0 /\ bookmark' = mirror.branch
         /\ fetch' = [idle EXCEPT !.pc = "pulled", !.seed = record, !.news = news, !.exact = exact]
  BY <1>2 DEF Pulls
<1>7. CASE fetch' = idle /\ bookmark' = bookmark
  <2>1. ~fetch'.exact /\ fetch' \in Fetching /\ fetch'.pc # "looked" /\ fetch'.head = 0
    BY <1>4, <1>7
  <2> QED BY <1>1, <1>7, <2>1
<1>8. CASE /\ mirror.branch # 0 /\ bookmark' = mirror.branch
           /\ fetch' = [idle EXCEPT !.pc = "pulled", !.seed = record, !.news = news, !.exact = exact]
  <2>1. PICK f : f = [idle EXCEPT !.pc = "pulled", !.seed = record]
    OBVIOUS
  <2>2. f \in Fetching /\ f.pc = "pulled" /\ f.seed = record /\ f.head = idle.head
    BY <1>3, <1>4, <2>1 DEF Fetching
  <2>3. fetch' = [f EXCEPT !.news = news, !.exact = exact]
    BY <1>8, <2>1
  <2>4. /\ fetch' \in Fetching /\ fetch'.pc = f.pc /\ fetch'.seed = f.seed /\ fetch'.news = news
        /\ fetch'.exact = exact /\ fetch'.head = f.head
    BY <1>5, <2>2, <2>3 DEF Fetching
  <2> QED BY <1>1, <1>4, <1>5, <1>8, <2>2, <2>4
<1> QED BY <1>6, <1>7, <1>8

LEMMA JudgesIs ==
  ASSUME WorkProductTypeOK, Judges
  PROVE  /\ fetch.pc = "pulled" /\ fetch' \in Fetching /\ fetch'.pc = "idle"
         /\ fetch'.head \in {0, fetch.head}
         /\ fetch'.exact => /\ fetch.exact /\ record = fetch.seed /\ fetch'.news = fetch.news
                            /\ fetch'.verdict = "warned" <=> bookmark = record
         /\ SameFailures
         /\ UNCHANGED <<log, edits, host, mirror, guest, record, directive, bookmark, earlier, scene,
                        launch, past>>
<1>1. /\ fetch.pc = "pulled" /\ SameFailures
      /\ UNCHANGED <<log, edits, host, mirror, guest, record, directive, bookmark, earlier, scene,
                     launch, past>>
  BY DEF Judges, Works, Fails, SameFailures, operatorVars, guestVars, filesVars, chosenVars
<1>2. PICK idle, exact, verdict :
        /\ idle = IdleFetch /\ exact = (fetch.exact /\ record = fetch.seed)
        /\ verdict = IF bookmark = record THEN "warned" ELSE "landed"
  OBVIOUS
<1>3. /\ idle \in Fetching /\ ~idle.exact /\ idle.pc = "idle" /\ idle.head = 0
      /\ fetch \in Fetching /\ 0 \in 0..MaxCommits
  BY <1>2, IdleFetchIsTyped, WorkProductAssumption DEF WorkProductTypeOK
<1>4. fetch.exact \in BOOLEAN
  BY <1>3 DEF Fetching
<1>5. /\ exact \in BOOLEAN /\ (exact => fetch.exact /\ record = fetch.seed)
      /\ verdict \in {"none", "landed", "warned"} /\ (verdict = "warned" <=> bookmark = record)
  BY <1>2, <1>4
<1>6. \/ fetch' = [fetch EXCEPT !.pc = "idle", !.seed = 0, !.exact = exact, !.verdict = verdict]
      \/ fetch' = [idle EXCEPT !.verdict = "landed"]
  BY <1>2 DEF Judges
<1>7. CASE fetch' = [idle EXCEPT !.verdict = "landed"]
  <2>1. fetch' \in Fetching /\ fetch'.pc = idle.pc /\ fetch'.exact = idle.exact /\ fetch'.head = idle.head
    BY <1>3, <1>7 DEF Fetching
  <2> QED BY <1>1, <1>3, <2>1
<1>8. CASE fetch' = [fetch EXCEPT !.pc = "idle", !.seed = 0, !.exact = exact, !.verdict = verdict]
  <2>1. PICK f : f = [fetch EXCEPT !.pc = "idle", !.seed = 0]
    OBVIOUS
  <2>2. f \in Fetching /\ f.pc = "idle" /\ f.news = fetch.news /\ f.head = fetch.head
    BY <1>3, <2>1 DEF Fetching
  <2>3. fetch' = [f EXCEPT !.exact = exact, !.verdict = verdict]
    BY <1>8, <2>1
  <2>4. /\ fetch' \in Fetching /\ fetch'.pc = f.pc /\ fetch'.news = f.news
        /\ fetch'.exact = exact /\ fetch'.verdict = verdict /\ fetch'.head = f.head
    BY <1>5, <2>2, <2>3 DEF Fetching
  <2> QED BY <1>1, <1>5, <2>2, <2>4
<1> QED BY <1>6, <1>7, <1>8

LEMMA DeliversIs ==
  ASSUME WorkProductTypeOK, Delivers
  PROVE  /\ \E c \in Commits : mirror' = [mirror EXCEPT !.delivered = c]
         /\ UNCHANGED <<log, edits, host, guest, record, directive, bookmark, earlier, scene,
                        launch, fetch, past, failures>>
<1>1. /\ \E c \in {host.head} \cup Bookmarks : mirror' = [mirror EXCEPT !.delivered = c]
      /\ UNCHANGED <<log, edits, host, guest, record, directive, bookmark, earlier, scene,
                     launch, fetch, past, failures>>
  BY DEF Delivers, operatorVars, filesVars, chosenVars
<1>2. {host.head} \cup Bookmarks \subseteq Commits
  BY CommitsAreTyped, BookmarksAreCommits
<1> QED BY <1>1, <1>2

\* What the operator does touches nothing but commits, HEAD and the tree.
LEMMA OperatorIs ==
  ASSUME OperatorStep
  PROVE  UNCHANGED <<mirror, guest, record, directive, bookmark, earlier, scene, launch, fetch,
                     failures, past>>
BY DEF OperatorStep, EditsTree, Tracks, EditsBoard, CommitsTree, Lands, FastForwards, CherryPicks,
       Resets, OperatorFrame, guestVars, filesVars, chosenVars


LEMMA StutterIs ==
  ASSUME UNCHANGED vars
  PROVE  UNCHANGED <<log, edits, host, mirror, guest, record, directive, bookmark, earlier, scene,
                     launch, fetch, failures, past>>
BY DEF vars, operatorVars, guestVars, filesVars, chosenVars

-----------------------------------------------------------------------------
(* Commits are only added, and what HEAD leaves is remembered.             *)

Advances == /\ Grows /\ HistoryIsKept /\ host' \in HostState' /\ edits' \in 0..MaxEdits

LEMMA SameLogAdvances ==
  ASSUME Types, log' = log, edits' = edits, host'.head = host.head, host'.left = host.left,
         host' \in HostState
  PROVE  Advances
<1>1. Grows /\ HistoryIsKept
  BY SameLogGrows DEF Types
<1>2. host' \in HostState' /\ edits' \in 0..MaxEdits
  BY DEF HostState, Types, WorkProductTypeOK
<1> QED BY <1>1, <1>2 DEF Advances

LEMMA NothingMovesAdvances ==
  ASSUME Types, log' = log, edits' = edits, host' = host
  PROVE  Advances
<1>1. host \in HostState
  BY DEF Types, WorkProductTypeOK, HostState
<1> QED BY <1>1, SameLogAdvances

LEMMA AddedAdvances ==
  ASSUME Types, NEW p, NEW agent, NEW has, NEW board, Adds(p, agent, has, board),
         edits' \in 0..MaxEdits, host' = host
  PROVE  Advances
<1>1. PICK n : n = NewId
  OBVIOUS
<1>2. Grows /\ HistoryIsKept
  BY <1>1, AddedLogGrows DEF Types
<1>3. host \in HostState /\ 1..Len(log) \subseteq 1..Len(log')
  BY <1>2, KeptIsKept DEF Types, WorkProductTypeOK, HostState, Grows, Commits
<1>4. host' \in HostState'
  BY <1>3 DEF HostState
<1> QED BY <1>2, <1>4 DEF Advances

LEMMA NextAdvances ==
  ASSUME Types, [Next]_vars
  PROVE  Advances
<1>0. WorkProductTypeOK /\ Linear /\ (\A l \in Launches : Plan(launch[l]))
      /\ (guest.up => guest.clone # 0) /\ edits \in 0..MaxEdits
  BY DEF Types, Plans, WorkProductTypeOK
<1>1. CASE OperatorStep
  BY <1>0, <1>1, OperatorAdvances DEF Advances
<1>2. CASE UNCHANGED vars
  BY <1>2, StutterIs, NothingMovesAdvances
<1>3. ASSUME NEW l \in Launches, LaunchStep(l) PROVE Advances
  <2>1. ASSUME NEW b \in BOOLEAN, Guards(l, b) \/ Starts(l, b) PROVE Advances
    BY <1>0, <2>1, EnlistsIs, NothingMovesAdvances
  <2>2. CASE Claims(l)
    BY <1>0, <2>2, ClaimsIs, SameLogAdvances
  <2>3. CASE Resumes(l)
    BY <1>0, <2>3, ResumesIs, NothingMovesAdvances DEF Decides
  <2>4. CASE SnapshotFails(l)
    BY <1>0, <2>4, SnapshotFailsIs, NothingMovesAdvances DEF Decides, Seeds
  <2>5. ASSUME NEW probe \in {"absent", "failed"}, SeedsHead(l, probe) PROVE Advances
    BY <1>0, <2>5, SeedsHeadIs, NothingMovesAdvances DEF Decides, Seeds
  <2>6. ASSUME NEW probe \in {"absent", "failed"}, Snapshots(l, probe) PROVE Advances
    <3>1. PICK n, agent : n = NewId /\ agent = FALSE
      OBVIOUS
    <3>2. Adds(host.head, agent, host.tree, host.board) /\ host' = host /\ edits' = edits
      BY <1>0, <2>6, <3>1, SnapshotsIs DEF Decides, Seeds
    <3> QED BY <1>0, <3>2, AddedAdvances
  <2>7. CASE Strips(l) \/ StripFails(l)
    <3>1. PICK n : n = NewId
      OBVIOUS
    <3>2. /\ log' = log \/ (\E agent, board : StripsTo(l, n, agent, board))
          /\ host' = host /\ edits' = edits
      BY <1>0, <2>7, <3>1, StripsIs
    <3>3. CASE log' = log
      BY <3>2, <3>3, NothingMovesAdvances
    <3>4. ASSUME NEW agent, NEW board, StripsTo(l, n, agent, board) PROVE Advances
      BY <1>0, <3>2, <3>4, AddedAdvances DEF StripsTo
    <3> QED BY <3>2, <3>3, <3>4
  <2>8. CASE Records(l)
    BY <1>0, <2>8, RecordsIs, NothingMovesAdvances
  <2>9. CASE Emits(l)
    BY <1>0, <2>9, EmitsIs, NothingMovesAdvances
  <2>10. CASE Clones(l)
    BY <1>0, <2>10, ClonesIs, NothingMovesAdvances
  <2>11. CASE PushesSeed(l)
    BY <1>0, <2>11, PushesSeedIs, NothingMovesAdvances
  <2>12. CASE PushesBase(l)
    BY <1>0, <2>12, PushesBaseIs, NothingMovesAdvances
  <2>13. CASE Boots(l)
    <3>1. PICK n : n = NewId
      OBVIOUS
    <3>2. /\ log' = log \/ (\E agent, has, board : Replayed(n, agent, has, board))
          /\ host' = host /\ edits' = edits
      BY <1>0, <2>13, <3>1, BootsIs
    <3>3. CASE log' = log
      BY <3>2, <3>3, NothingMovesAdvances
    <3>4. ASSUME NEW agent, NEW has, NEW board, Replayed(n, agent, has, board) PROVE Advances
      BY <1>0, <3>2, <3>4, AddedAdvances DEF Replayed
    <3> QED BY <3>2, <3>3, <3>4
  <2>14. CASE Dies(l)
    BY <1>0, <2>14, DiesIs, NothingMovesAdvances
  <2>15. CASE Joins(l)
    BY <1>0, <2>15, JoinsIs, NothingMovesAdvances
  <2> QED BY <1>3, <2>1, <2>2, <2>3, <2>4, <2>5, <2>6, <2>7, <2>8, <2>9, <2>10, <2>11, <2>12,
             <2>13, <2>14, <2>15 DEF LaunchStep
<1>4. CASE AgentWorks
  <2>1. PICK n : n = NewId
    OBVIOUS
  <2>2. /\ \E agent, has : Adds(guest.clone, agent, has, log[guest.clone].board)
        /\ host' = host /\ edits' \in 0..MaxEdits
    BY <1>0, <1>4, <2>1, AgentWorksIs
  <2> QED BY <2>2, AddedAdvances
<1>5. CASE AgentPushes \/ GuestStops \/ Redelivers \/ Looks \/ Pulls \/ Judges \/ Delivers
  <2>1. log' = log /\ host' = host /\ edits' = edits
    BY <1>0, <1>5, AgentPushesIs, TalksIs, LooksIs, PullsIs, JudgesIs, DeliversIs
  <2> QED BY <2>1, NothingMovesAdvances
<1> QED BY <1>1, <1>2, <1>3, <1>4, <1>5 DEF Next

-----------------------------------------------------------------------------
(* The state stays typed.                                                  *)

MirrorTyped == mirror' \in MirrorState' /\ (mirror.branch # 0 => mirror'.branch # 0)
GuestTyped == guest' \in GuestState' /\ (guest'.up => guest'.clone # 0)
RefsTyped == {bookmark', earlier', record'} \subseteq 0..Len(log')
FetchTyped == fetch' \in Fetching /\ fetch'.head <= Len(log') /\ (fetch'.pc = "looked" => fetch'.head # 0)
LaunchesTyped == launch' \in [Launches -> Launching]
                 /\ \A l \in Launches : PlanIn(launch'[l], Len(log'), mirror'.branch)
RestTyped == /\ directive' \in Launches \cup {"none"} /\ failures' \in 0..scene.failures
             /\ past' \in Past /\ scene' = scene
AllTyped == MirrorTyped /\ GuestTyped /\ RefsTyped /\ FetchTyped /\ LaunchesTyped /\ RestTyped

LEMMA AllTypedIs ==
  ASSUME Types, Advances, AllTyped
  PROVE  Types'
<1>1. WorkProductTypeOK'
  <2>1. log' \in Seq(Commit) /\ Len(log') <= MaxCommits /\ edits' \in 0..MaxEdits /\ host' \in HostState'
    BY DEF Advances, Grows
  <2>2. /\ mirror' \in MirrorState' /\ guest' \in GuestState' /\ {bookmark, earlier, record}' \subseteq 0..Len(log')
        /\ directive' \in Launches \cup {"none"} /\ launch' \in [Launches -> Launching]
        /\ fetch' \in Fetching /\ past' \in Past
    BY DEF AllTyped, MirrorTyped, GuestTyped, RefsTyped, FetchTyped, LaunchesTyped, RestTyped
  <2>3. \A l \in Launches : launch'[l].pc \in {"snapped", "planned", "recorded"} => launch'[l].seed # 0
    BY DEF AllTyped, LaunchesTyped, PlanIn
  <2>4. scene' \in Scenes /\ failures' \in 0..scene'.failures
    BY DEF AllTyped, RestTyped, Types, WorkProductTypeOK
  <2> QED BY <2>1, <2>2, <2>3, <2>4 DEF WorkProductTypeOK, HostState, MirrorState, GuestState
<1>2. Linear'
  BY DEF Advances, Grows
<1>3. Plans'
  BY DEF AllTyped, LaunchesTyped, Plans, Plan
<1>4. (guest'.up => guest'.clone # 0) /\ fetch'.head <= Len(log') /\ (fetch'.pc = "looked" => fetch'.head # 0)
  BY DEF AllTyped, GuestTyped, FetchTyped
<1> QED BY <1>1, <1>2, <1>3, <1>4 DEF Types

\* What is left alone stays typed.
LEMMA StaysTyped ==
  ASSUME Types, Advances
  PROVE  /\ Len(log) \in Nat /\ Len(log') \in Nat /\ Len(log) <= Len(log')
         /\ mirror \in MirrorState /\ guest \in GuestState
         /\ MirrorState \subseteq MirrorState' /\ GuestState \subseteq GuestState'
         /\ 0..Len(log) \subseteq 0..Len(log') /\ Commits \subseteq 0..Len(log')
         /\ {bookmark, earlier, record} \subseteq 0..Len(log)
         /\ mirror' = mirror => MirrorTyped
         /\ guest' = guest => GuestTyped
         /\ UNCHANGED <<bookmark, earlier, record>> => RefsTyped
         /\ fetch' = fetch => FetchTyped
         /\ launch' = launch /\ MirrorTyped => LaunchesTyped
         /\ UNCHANGED <<directive, failures, past, scene>> => RestTyped
<1>1. Len(log) \in Nat /\ Len(log') \in Nat /\ Len(log) <= Len(log') /\ 0..Len(log) \subseteq 0..Len(log')
      /\ Commits \subseteq 0..Len(log')
  BY CommitsAreTyped DEF Types, Advances, Grows, Kept, Commits
<1>2. /\ mirror \in MirrorState /\ guest \in GuestState
      /\ {bookmark, earlier, record} \subseteq 0..Len(log)
  BY DEF Types, WorkProductTypeOK, MirrorState, GuestState
<1>3. MirrorState \subseteq MirrorState'
  <2>1. ASSUME NEW m \in MirrorState PROVE m \in MirrorState'
    BY <1>1 DEF MirrorState
  <2> QED BY <2>1
<1>4. GuestState \subseteq GuestState'
  <2>1. ASSUME NEW m \in GuestState PROVE m \in GuestState'
    BY <1>1 DEF GuestState
  <2> QED BY <2>1
<1>5. mirror' = mirror => MirrorTyped
  BY <1>2, <1>3 DEF MirrorTyped
<1>6. guest' = guest => GuestTyped
  BY <1>2, <1>4 DEF GuestTyped, Types
<1>7. UNCHANGED <<bookmark, earlier, record>> => RefsTyped
  BY <1>1, <1>2 DEF RefsTyped
<1>8. fetch' = fetch => FetchTyped
  <2>1. fetch \in Fetching /\ fetch.head <= Len(log) /\ (fetch.pc = "looked" => fetch.head # 0)
        /\ MaxCommits \in Nat
    BY WorkProductAssumption DEF Types, WorkProductTypeOK
  <2>2. fetch.head \in Nat
    BY <2>1 DEF Fetching
  <2> QED BY <1>1, <2>1, <2>2 DEF FetchTyped
<1>9. launch' = launch /\ MirrorTyped => LaunchesTyped
  <2> SUFFICES ASSUME launch' = launch, MirrorTyped PROVE LaunchesTyped
    OBVIOUS
  <2>1. launch \in [Launches -> Launching]
    BY DEF Types, WorkProductTypeOK
  <2>2. ASSUME NEW l \in Launches PROVE PlanIn(launch[l], Len(log'), mirror'.branch)
    <3>1. PlanIn(launch[l], Len(log), mirror.branch)
      BY DEF Types, Plans, Plan
    <3>2. launch[l].seed \in Nat /\ launch[l].base \in Nat /\ launch[l].saw \in Nat /\ launch[l].tip \in Nat
      BY LaunchIsTyped DEF Types
    <3> QED BY <1>1, <3>1, <3>2 DEF PlanIn, MirrorTyped
  <2> QED BY <2>1, <2>2 DEF LaunchesTyped
<1>10. UNCHANGED <<directive, failures, past, scene>> => RestTyped
  BY DEF RestTyped, Types, WorkProductTypeOK
<1> QED BY <1>1, <1>2, <1>3, <1>4, <1>5, <1>6, <1>7, <1>8, <1>9, <1>10

\* So only the launch that moves is to be looked at.
LEMMA OthersStayTyped ==
  ASSUME Types, Advances, MirrorTyped, NEW l \in Launches, Others(l),
         PlanIn(launch'[l], Len(log'), mirror'.branch)
  PROVE  LaunchesTyped
<1>1. Len(log) \in Nat /\ Len(log') \in Nat /\ Len(log) <= Len(log')
  BY StaysTyped
<1>2. ASSUME NEW k \in Launches, k # l PROVE PlanIn(launch'[k], Len(log'), mirror'.branch)
  <2>1. PlanIn(launch[k], Len(log), mirror.branch) /\ launch'[k] = launch[k]
    BY <1>2 DEF Types, Plans, Plan, Others
  <2>2. launch[k].seed \in Nat /\ launch[k].base \in Nat /\ launch[k].saw \in Nat /\ launch[k].tip \in Nat
    BY LaunchIsTyped DEF Types
  <2> QED BY <1>1, <2>1, <2>2 DEF PlanIn, MirrorTyped
<1> QED BY <1>2 DEF LaunchesTyped, Others

\* A decision plans on commits that are there.
LEMMA DecisionIsTyped ==
  ASSUME Types, Advances, NEW l \in Launches, Decides(l), past' \in Past, failures' \in 0..scene.failures,
         launch'[l].seed \in 1..Len(log'), launch'[l].base \in {0, host.head},
         launch'[l].pc \in {"snapped", "planned"},
         launch'[l].pc = "snapped" => launch'[l].fresh /\ launch'[l].took = "tree",
         launch'[l].fresh \/ mirror.branch # 0,
         launch'[l].fresh => launch'[l].probe \in {"absent", "failed"}
  PROVE  AllTyped
<1>1. /\ MirrorTyped /\ GuestTyped /\ RefsTyped /\ FetchTyped /\ mirror' = mirror
      /\ Len(log) \in Nat /\ Len(log') \in Nat /\ Len(log) <= Len(log')
      /\ mirror.base \in 0..Len(log) /\ host.head \in 1..Len(log)
  BY StaysTyped DEF Decides, Types, WorkProductTypeOK
<1>2. RestTyped
  BY DEF Decides, RestTyped, Types, WorkProductTypeOK
<1>3. launch'[l].tip = host.head /\ launch'[l].saw = mirror.base
  BY DEF Decides
<1>4. PlanIn(launch'[l], Len(log'), mirror'.branch)
  BY <1>1, <1>3 DEF PlanIn
<1>5. LaunchesTyped
  BY <1>1, <1>4, OthersStayTyped DEF Others, Decides
<1> QED BY <1>1, <1>2, <1>5 DEF AllTyped

LEMMA LaunchStaysTyped ==
  ASSUME Types, Advances, NEW l \in Launches, LaunchStep(l)
  PROVE  AllTyped
<1>0. /\ WorkProductTypeOK /\ Linear /\ Plan(launch[l])
      /\ Len(log) \in Nat /\ Len(log') \in Nat /\ Len(log) <= Len(log')
      /\ mirror \in MirrorState /\ guest \in GuestState
      /\ MirrorState \subseteq MirrorState' /\ GuestState \subseteq GuestState'
      /\ 0..Len(log) \subseteq 0..Len(log') /\ Commits \subseteq 0..Len(log')
      /\ {bookmark, earlier, record} \subseteq 0..Len(log)
      /\ past \in Past
  BY StaysTyped DEF Types, Plans, WorkProductTypeOK
<1>1. /\ launch[l].seed \in Nat /\ launch[l].base \in Nat /\ launch[l].saw \in Nat /\ launch[l].tip \in Nat
      /\ PlanIn(launch[l], Len(log), mirror.branch)
  BY <1>0, LaunchIsTyped DEF Plan
<1>2. ASSUME NEW b \in BOOLEAN, Guards(l, b) \/ Starts(l, b) PROVE AllTyped
  <2>1. /\ Others(l) /\ launch'[l].pc \in {"cleared", "ready"}
        /\ launch'[l].seed = 0 /\ ~launch'[l].fresh /\ launch'[l].base = 0
        /\ launch'[l].saw = 0 /\ launch'[l].tip = 0 /\ launch'[l].took = "head"
        /\ past' \in Past
        /\ UNCHANGED <<mirror, guest, record, directive, bookmark, earlier, scene, fetch, failures>>
    BY <1>0, <1>2, EnlistsIs
  <2>2. PlanIn(launch'[l], Len(log'), mirror'.branch)
    BY <1>0, <2>1 DEF PlanIn
  <2>3. MirrorTyped /\ GuestTyped /\ RefsTyped /\ FetchTyped
    BY <2>1, StaysTyped
  <2>4. RestTyped
    BY <1>0, <2>1 DEF RestTyped, WorkProductTypeOK
  <2> QED BY <2>1, <2>2, <2>3, <2>4, OthersStayTyped DEF AllTyped
<1>3. CASE Claims(l)
  <2>1. /\ Others(l) /\ launch[l].pc = "cleared" /\ launch'[l].pc = "ready"
        /\ SameSeed(l) /\ SameBase(l) /\ SameSight(l)
        /\ UNCHANGED <<mirror, guest, record, directive, bookmark, earlier, scene, fetch, past, failures>>
    BY <1>0, <1>3, ClaimsIs
  <2>2. PlanIn(launch'[l], Len(log'), mirror'.branch)
    BY <1>0, <1>1, <2>1 DEF PlanIn, SameSeed, SameBase, SameSight
  <2>3. MirrorTyped /\ GuestTyped /\ RefsTyped /\ FetchTyped /\ RestTyped
    BY <2>1, StaysTyped
  <2> QED BY <2>1, <2>2, <2>3, OthersStayTyped DEF AllTyped
<1>4. CASE Resumes(l)
  <2>1. /\ Decides(l) /\ past' = past /\ failures' \in 0..scene.failures
        /\ launch'[l].pc = "planned" /\ ~launch'[l].fresh /\ mirror.branch # 0
        /\ launch'[l].seed = mirror.branch /\ launch'[l].base \in {0, host.head}
    BY <1>0, <1>4, ResumesIs
  <2>2. launch'[l].seed \in 1..Len(log')
    BY <1>0, <2>1 DEF MirrorState
  <2> QED BY <1>0, <2>1, <2>2, DecisionIsTyped
<1>5. ASSUME NEW took, NEW pc \in {"snapped", "planned"}, NEW seed \in 1..Len(log'),
             Seeds(l, pc, seed, took), past' \in Past, pc = "snapped" => took = "tree"
      PROVE  AllTyped
  <2>1. /\ Decides(l) /\ failures' \in 0..scene.failures
        /\ launch'[l].pc = pc /\ launch'[l].fresh /\ launch'[l].seed = seed /\ launch'[l].took = took
        /\ launch'[l].probe \in {"absent", "failed"} /\ launch'[l].base = 0
    BY <1>5 DEF Seeds
  <2> QED BY <1>5, <2>1, DecisionIsTyped
<1>6. host.head \in 1..Len(log')
  BY <1>0, CommitsAreTyped DEF Commits
<1>7. CASE SnapshotFails(l)
  BY <1>0, <1>5, <1>6, <1>7, SnapshotFailsIs
<1>8. ASSUME NEW probe \in {"absent", "failed"}, SeedsHead(l, probe) PROVE AllTyped
  BY <1>0, <1>5, <1>6, <1>8, SeedsHeadIs
<1>9. ASSUME NEW probe \in {"absent", "failed"}, Snapshots(l, probe) PROVE AllTyped
  <2>1. PICK n, agent : n = NewId /\ agent = FALSE
    OBVIOUS
  <2>2. PICK pc \in {"snapped", "planned"} :
           /\ Seeds(l, pc, n, "tree")
           /\ past' = [past EXCEPT !.loose = past.loose \/ ~launch[l].dispatched]
    BY <1>0, <1>9, <2>1, SnapshotsIs
  <2>3. Adds(host.head, agent, host.tree, host.board)
    BY <1>0, <1>9, <2>1, SnapshotsIs
  <2>4. n \in 1..Len(log')
    BY <1>0, <2>1, <2>3, AddedLogGrows
  <2>5. PICK loose : loose = (past.loose \/ ~launch[l].dispatched)
    OBVIOUS
  <2>6. loose \in BOOLEAN /\ past' = [past EXCEPT !.loose = loose]
    BY <2>2, <2>5
  <2>7. past' \in Past
    BY <1>0, <2>6 DEF Past
  <2> QED BY <1>5, <2>2, <2>4, <2>7
<1>10. CASE Strips(l) \/ StripFails(l)
  <2>1. PICK n : n = NewId
    OBVIOUS
  <2>2. /\ Others(l) /\ launch[l].pc = "snapped" /\ launch'[l].pc = "planned"
        /\ launch'[l].fresh = launch[l].fresh /\ launch'[l].probe = launch[l].probe
        /\ SameBase(l) /\ SameSight(l) /\ past' \in Past /\ SameFailures
        /\ \/ launch'[l].seed = launch[l].seed
           \/ \E agent, board : StripsTo(l, n, agent, board)
        /\ UNCHANGED <<mirror, guest, record, directive, bookmark, earlier, scene, fetch>>
    BY <1>0, <1>10, <2>1, StripsIs
  <2>3. ASSUME NEW agent, NEW board, StripsTo(l, n, agent, board) PROVE launch'[l].seed \in 1..Len(log')
    BY <1>0, <2>1, <2>3, AddedLogGrows DEF StripsTo
  <2>4. launch'[l].seed \in 1..Len(log')
    <3>1. launch[l].seed \in 1..Len(log')
      BY <1>0, <1>1, <2>2 DEF PlanIn
    <3> QED BY <2>2, <2>3, <3>1
  <2>5. PlanIn(launch'[l], Len(log'), mirror'.branch)
    BY <1>0, <1>1, <2>2, <2>4 DEF PlanIn, SameBase, SameSight
  <2>6. MirrorTyped /\ GuestTyped /\ RefsTyped /\ FetchTyped
    BY <2>2, StaysTyped
  <2>7. RestTyped
    BY <1>0, <2>2, FailuresAreTyped DEF RestTyped, WorkProductTypeOK
  <2> QED BY <2>2, <2>5, <2>6, <2>7, OthersStayTyped DEF AllTyped
<1>11. CASE Records(l)
  <2>1. /\ Others(l) /\ launch[l].pc = "planned" /\ launch'[l].pc = "recorded"
        /\ SameSeed(l) /\ SameBase(l) /\ NoSight(launch'[l])
        /\ record' = launch[l].seed /\ past' \in Past
        /\ UNCHANGED <<log, mirror, guest, directive, bookmark, earlier, scene, fetch, failures>>
    BY <1>0, <1>11, RecordsIs
  <2>2. PlanIn(launch'[l], Len(log'), mirror'.branch)
    BY <1>0, <1>1, <2>1 DEF PlanIn, SameSeed, SameBase, NoSight
  <2>3. MirrorTyped /\ GuestTyped /\ FetchTyped
    BY <2>1, StaysTyped
  <2>4. RefsTyped
    <3>1. launch[l].seed \in 0..Len(log)
      BY <1>0, <1>1 DEF PlanIn
    <3> QED BY <1>0, <2>1, <3>1 DEF RefsTyped
  <2>5. RestTyped
    BY <1>0, <2>1 DEF RestTyped, WorkProductTypeOK
  <2> QED BY <2>1, <2>2, <2>3, <2>4, <2>5, OthersStayTyped DEF AllTyped
<1>12. CASE Emits(l)
  <2>1. /\ Others(l) /\ launch[l].pc = "recorded" /\ launch'[l].pc = "cloning"
        /\ SameSeed(l) /\ SameBase(l) /\ SameSight(l)
        /\ directive' \in {directive, l} /\ SamePast
        /\ UNCHANGED <<log, mirror, guest, record, bookmark, earlier, scene, fetch, failures>>
    BY <1>0, <1>12, EmitsIs
  <2>2. PlanIn(launch'[l], Len(log'), mirror'.branch)
    BY <1>0, <1>1, <2>1 DEF PlanIn, SameSeed, SameBase, SameSight
  <2>3. MirrorTyped /\ GuestTyped /\ RefsTyped /\ FetchTyped
    BY <2>1, StaysTyped
  <2>4. RestTyped
    BY <1>0, <2>1 DEF RestTyped, WorkProductTypeOK, SamePast
  <2> QED BY <2>1, <2>2, <2>3, <2>4, OthersStayTyped DEF AllTyped
<1>13. CASE Clones(l)
  <2>1. /\ Others(l) /\ launch[l].pc = "cloning" /\ launch'[l].pc = "seeding"
        /\ SameSeed(l) /\ SameBase(l) /\ SameSight(l)
        /\ UNCHANGED <<log, guest, record, directive, bookmark, earlier, scene, fetch, past, failures>>
    BY <1>0, <1>13, ClonesIs
  <2>2. MirrorTyped /\ mirror'.branch = mirror.branch
    <3>1. PICK yes : yes = TRUE
      OBVIOUS
    <3>2. yes \in BOOLEAN /\ mirror' = [mirror EXCEPT !.there = yes]
      BY <1>0, <1>13, <3>1, ClonesIs
    <3>3. mirror' \in MirrorState /\ mirror'.branch = mirror.branch
      BY <1>0, <3>2 DEF MirrorState
    <3> QED BY <1>0, <3>3 DEF MirrorTyped
  <2>3. PlanIn(launch'[l], Len(log'), mirror'.branch)
    BY <1>0, <1>1, <2>1, <2>2 DEF PlanIn, SameSeed, SameBase, SameSight
  <2>4. GuestTyped /\ RefsTyped /\ FetchTyped /\ RestTyped
    BY <2>1, StaysTyped
  <2> QED BY <2>1, <2>2, <2>3, <2>4, OthersStayTyped DEF AllTyped
<1>14. CASE PushesSeed(l)
  <2>1. /\ Others(l) /\ launch[l].pc = "seeding" /\ launch'[l].pc = "basing"
        /\ SameBase(l) /\ SameSight(l) /\ launch'[l].seed = 0 /\ ~launch'[l].fresh
        /\ launch[l].fresh => /\ mirror' = [mirror EXCEPT !.branch = launch[l].seed]
                              /\ past' = [past EXCEPT !.pushes = "none"]
        /\ ~launch[l].fresh => mirror' = mirror /\ past' = past
        /\ UNCHANGED <<log, guest, record, directive, bookmark, earlier, scene, fetch, failures>>
    BY <1>0, <1>14, PushesSeedIs
  <2>2. launch[l].seed \in 1..Len(log) /\ (launch[l].fresh \/ mirror.branch # 0)
    BY <1>0, <1>1, <2>1 DEF PlanIn
  <2>3. MirrorTyped /\ mirror'.branch # 0
    <3>1. CASE launch[l].fresh
      <4>1. mirror' \in MirrorState /\ mirror'.branch = launch[l].seed
        BY <1>0, <2>1, <2>2, <3>1 DEF MirrorState
      <4> QED BY <1>0, <2>2, <4>1 DEF MirrorTyped
    <3>2. CASE ~launch[l].fresh
      BY <2>1, <2>2, <3>2, StaysTyped
    <3> QED BY <3>1, <3>2
  <2>4. PlanIn(launch'[l], Len(log'), mirror'.branch)
    BY <1>0, <1>1, <2>1, <2>3 DEF PlanIn, SameBase, SameSight
  <2>5. GuestTyped /\ RefsTyped /\ FetchTyped
    BY <2>1, StaysTyped
  <2>6. past' \in Past
    BY <1>0, <2>1 DEF Past
  <2>7. RestTyped
    BY <1>0, <2>1, <2>6 DEF RestTyped, WorkProductTypeOK
  <2> QED BY <2>1, <2>3, <2>4, <2>5, <2>7, OthersStayTyped DEF AllTyped
<1>15. CASE PushesBase(l)
  <2>1. /\ Others(l) /\ launch[l].pc = "basing" /\ launch'[l].pc = "booting"
        /\ SameSeed(l) /\ SameSight(l) /\ launch'[l].base = 0 /\ launch'[l].saw = 0
        /\ launch[l].base # 0 => mirror' = [mirror EXCEPT !.base = launch[l].base]
        /\ launch[l].base = 0 => mirror' = mirror
        /\ UNCHANGED <<log, guest, record, directive, bookmark, earlier, scene, fetch, past, failures>>
    BY <1>0, <1>15, PushesBaseIs
  <2>2. launch[l].base \in 0..Len(log)
    BY <1>0, <1>1 DEF PlanIn
  <2>3. MirrorTyped /\ mirror'.branch = mirror.branch
    <3>1. mirror' \in MirrorState /\ mirror'.branch = mirror.branch
      BY <1>0, <2>1, <2>2 DEF MirrorState
    <3> QED BY <1>0, <3>1 DEF MirrorTyped
  <2>4. PlanIn(launch'[l], Len(log'), mirror'.branch)
    BY <1>0, <1>1, <2>1, <2>3 DEF PlanIn, SameSeed, SameSight
  <2>5. GuestTyped /\ RefsTyped /\ FetchTyped /\ RestTyped
    BY <2>1, StaysTyped
  <2> QED BY <2>1, <2>3, <2>4, <2>5, OthersStayTyped DEF AllTyped
<1>16. ASSUME Others(l), Ended(launch'[l]), mirror' = mirror PROVE LaunchesTyped
  <2>1. MirrorTyped
    BY <1>16, StaysTyped
  <2>2. PlanIn(launch'[l], Len(log'), mirror'.branch)
    BY <1>0, <1>16 DEF PlanIn, Ended
  <2> QED BY <1>16, <2>1, <2>2, OthersStayTyped
<1>17. CASE Boots(l)
  <2>1. PICK n : n = NewId
    OBVIOUS
  <2>2. /\ Others(l) /\ launch[l].pc = "booting" /\ Ended(launch'[l])
        /\ guest' = [up |-> TRUE, clone |-> guest'.clone, told |-> guest'.told]
        /\ launch[l].prompted => guest'.told = l
        /\ ~launch[l].prompted => guest'.told = "none"
        /\ Cloned \/ KeptClone \/ Forwarded \/ \E agent, has, board : Replayed(n, agent, has, board)
        /\ SamePast
        /\ UNCHANGED <<mirror, record, directive, bookmark, earlier, scene, fetch, failures>>
    BY <1>0, <1>17, <2>1, BootsIs
  <2>3. mirror.branch # 0
    BY <1>1, <2>2 DEF PlanIn
  <2>4. guest'.clone \in 1..Len(log')
    <3>1. CASE Cloned \/ KeptClone \/ Forwarded
      BY <1>0, <2>3, <3>1 DEF Cloned, KeptClone, Forwarded, MirrorState, GuestState
    <3>2. ASSUME NEW agent, NEW has, NEW board, Replayed(n, agent, has, board) PROVE guest'.clone \in 1..Len(log')
      BY <1>0, <2>1, <3>2, AddedLogGrows DEF Replayed
    <3> QED BY <2>2, <3>1, <3>2
  <2>5. GuestTyped
    <3>1. guest'.told \in Launches \cup {"none"}
      BY <2>2
    <3>2. PICK up, c, told : up = TRUE /\ c = guest'.clone /\ told = guest'.told
      OBVIOUS
    <3>3. up \in BOOLEAN
      BY <3>2
    <3>4. guest' = [up |-> up, clone |-> c, told |-> told] /\ c \in 1..Len(log') /\ told \in Launches \cup {"none"}
      BY <2>2, <2>4, <3>1, <3>2
    <3>5. guest' \in GuestState' /\ guest'.clone # 0
      BY <1>0, <3>3, <3>4 DEF GuestState
    <3> QED BY <3>5 DEF GuestTyped
  <2>6. MirrorTyped /\ RefsTyped /\ FetchTyped
    BY <2>2, StaysTyped
  <2>7. RestTyped
    BY <1>0, <2>2 DEF RestTyped, WorkProductTypeOK, SamePast
  <2> QED BY <1>16, <2>2, <2>5, <2>6, <2>7 DEF AllTyped
<1>18. CASE Dies(l)
  <2>1. /\ Others(l) /\ Ended(launch'[l]) /\ past' \in Past
        /\ UNCHANGED <<mirror, guest, record, directive, bookmark, earlier, scene, fetch, failures>>
    BY <1>0, <1>18, DiesIs
  <2>2. MirrorTyped /\ GuestTyped /\ RefsTyped /\ FetchTyped
    BY <2>1, StaysTyped
  <2>3. RestTyped
    BY <1>0, <2>1 DEF RestTyped, WorkProductTypeOK
  <2> QED BY <1>16, <2>1, <2>2, <2>3 DEF AllTyped
<1>19. CASE Joins(l)
  <2>1. /\ Others(l) /\ Ended(launch'[l]) /\ guest.up
        /\ guest' \in [up : {guest.up}, clone : {guest.clone}, told : Launches \cup {"none"}]
        /\ UNCHANGED <<mirror, record, directive, bookmark, earlier, scene, fetch, past, failures>>
    BY <1>0, <1>19, JoinsIs
  <2>2. MirrorTyped /\ RefsTyped /\ FetchTyped /\ RestTyped
    BY <2>1, StaysTyped
  <2>3. guest.clone # 0 /\ guest.up \in BOOLEAN /\ guest.clone \in 0..Len(log')
    BY <1>0, <2>1 DEF Types, GuestState
  <2>4. guest' \in GuestState' /\ guest'.clone # 0
    BY <2>1, <2>3 DEF GuestState
  <2> QED BY <1>16, <2>1, <2>2, <2>4 DEF AllTyped, GuestTyped
<1> QED BY <1>2, <1>3, <1>4, <1>7, <1>8, <1>9, <1>10, <1>11, <1>12, <1>13, <1>14, <1>15,
           <1>17, <1>18, <1>19 DEF LaunchStep

LEMMA TypesStay ==
  ASSUME Types, [Next]_vars
  PROVE  Types' /\ Advances
<1>0. Advances
  BY NextAdvances
<1>1. /\ WorkProductTypeOK /\ (guest.up => guest.clone # 0)
      /\ Len(log) \in Nat /\ Len(log') \in Nat /\ Len(log) <= Len(log')
      /\ mirror \in MirrorState /\ guest \in GuestState
      /\ MirrorState \subseteq MirrorState' /\ GuestState \subseteq GuestState'
      /\ 0..Len(log) \subseteq 0..Len(log') /\ Commits \subseteq 0..Len(log')
      /\ {bookmark, earlier, record} \subseteq 0..Len(log) /\ Linear
  BY <1>0, StaysTyped DEF Types
<1>2. CASE OperatorStep
  <2>1. UNCHANGED <<mirror, guest, record, directive, bookmark, earlier, scene, launch, fetch,
                    failures, past>>
    BY <1>2, OperatorIs
  <2> QED BY <1>0, <2>1, StaysTyped, AllTypedIs DEF AllTyped
<1>3. CASE UNCHANGED vars
  BY <1>0, <1>3, StutterIs, StaysTyped, AllTypedIs DEF AllTyped
<1>4. ASSUME NEW l \in Launches, LaunchStep(l) PROVE Types' /\ Advances
  BY <1>0, <1>4, LaunchStaysTyped, AllTypedIs
<1>5. CASE AgentWorks
  <2>1. PICK n : n = NewId
    OBVIOUS
  <2>2. /\ guest' = [guest EXCEPT !.clone = n]
        /\ \E agent, has : Adds(guest.clone, agent, has, log[guest.clone].board)
        /\ UNCHANGED <<mirror, record, directive, bookmark, earlier, scene, launch, fetch, past, failures>>
    BY <1>1, <1>5, <2>1, AgentWorksIs
  <2>3. n \in 1..Len(log')
    BY <1>1, <2>1, <2>2, AddedLogGrows
  <2>4. GuestTyped
    BY <1>1, <2>2, <2>3 DEF GuestTyped, GuestState
  <2> QED BY <1>0, <2>2, <2>4, StaysTyped, AllTypedIs DEF AllTyped
<1>6. CASE AgentPushes
  <2>1. /\ guest.up /\ mirror' = [mirror EXCEPT !.branch = guest.clone] /\ past' \in Past
        /\ UNCHANGED <<log, guest, record, directive, bookmark, earlier, scene, launch, fetch, failures>>
    BY <1>1, <1>6, AgentPushesIs
  <2>2. MirrorTyped
    <3>1. guest.clone \in 1..Len(log)
      BY <1>1, <2>1 DEF GuestState
    <3>2. mirror' \in MirrorState /\ mirror'.branch = guest.clone
      BY <1>1, <2>1, <3>1 DEF MirrorState
    <3> QED BY <1>1, <3>1, <3>2 DEF MirrorTyped
  <2>3. RestTyped
    BY <1>1, <2>1 DEF RestTyped, WorkProductTypeOK
  <2> QED BY <1>0, <2>1, <2>2, <2>3, StaysTyped, AllTypedIs DEF AllTyped
<1>7. CASE GuestStops \/ Redelivers
  <2>1. /\ guest' \in [up : BOOLEAN, clone : {guest.clone}, told : Launches \cup {"none"}]
        /\ guest'.up => guest.up
        /\ UNCHANGED <<log, mirror, record, directive, bookmark, earlier, scene, launch, fetch, past, failures>>
    BY <1>1, <1>7, TalksIs
  <2>2. GuestTyped
    BY <1>1, <2>1 DEF GuestTyped, GuestState
  <2> QED BY <1>0, <2>1, <2>2, StaysTyped, AllTypedIs DEF AllTyped
<1>8. CASE Looks
  <2>1. /\ fetch' \in Fetching /\ fetch'.head = host.head /\ SameFailures
        /\ UNCHANGED <<log, mirror, guest, record, directive, bookmark, earlier, scene, launch, past>>
    BY <1>1, <1>8, LooksIs
  <2>2. FetchTyped
    BY <1>1, <2>1, CommitsAreTyped DEF FetchTyped, Commits
  <2>3. RestTyped
    BY <1>1, <2>1, FailuresAreTyped DEF RestTyped, WorkProductTypeOK
  <2> QED BY <1>0, <2>1, <2>2, <2>3, StaysTyped, AllTypedIs DEF AllTyped
<1>9. CASE Pulls
  <2>1. /\ fetch' \in Fetching /\ fetch'.pc # "looked" /\ fetch'.head = 0
        /\ bookmark' = bookmark \/ (mirror.branch # 0 /\ bookmark' = mirror.branch)
        /\ UNCHANGED <<log, mirror, guest, record, directive, earlier, scene, launch, past, failures>>
    BY <1>1, <1>9, PullsIs
  <2>2. FetchTyped
    BY <1>1, <2>1 DEF FetchTyped
  <2>3. RefsTyped
    BY <1>1, <2>1 DEF RefsTyped, MirrorState
  <2> QED BY <1>0, <2>1, <2>2, <2>3, StaysTyped, AllTypedIs DEF AllTyped
<1>10. CASE Judges
  <2>1. /\ fetch' \in Fetching /\ fetch'.pc = "idle" /\ fetch'.head \in {0, fetch.head} /\ SameFailures
        /\ UNCHANGED <<log, mirror, guest, record, directive, bookmark, earlier, scene, launch, past>>
    BY <1>1, <1>10, JudgesIs
  <2>2. FetchTyped
    BY <1>1, <2>1 DEF FetchTyped, Types
  <2>3. RestTyped
    BY <1>1, <2>1, FailuresAreTyped DEF RestTyped, WorkProductTypeOK
  <2> QED BY <1>0, <2>1, <2>2, <2>3, StaysTyped, AllTypedIs DEF AllTyped
<1>11. CASE Delivers
  <2>1. PICK c \in Commits : mirror' = [mirror EXCEPT !.delivered = c]
    BY <1>1, <1>11, DeliversIs
  <2>2. UNCHANGED <<log, guest, record, directive, bookmark, earlier, scene, launch, fetch, past, failures>>
    BY <1>1, <1>11, DeliversIs
  <2>3. MirrorTyped
    <3>1. c \in 0..Len(log)
      BY DEF Commits
    <3>2. mirror' \in MirrorState /\ mirror'.branch = mirror.branch
      BY <1>1, <2>1, <3>1 DEF MirrorState
    <3> QED BY <1>1, <3>2 DEF MirrorTyped
  <2> QED BY <1>0, <2>2, <2>3, StaysTyped, AllTypedIs DEF AllTyped
<1> QED BY <1>2, <1>3, <1>4, <1>5, <1>6, <1>7, <1>8, <1>9, <1>10, <1>11 DEF Next

-----------------------------------------------------------------------------
(* The base in the mirror is something that was HEAD.                      *)

LEMMA HeadKeeps ==
  ASSUME Types, Advances
  PROVE  /\ host.head \in Commits /\ host'.head \in Commits' /\ host.left \subseteq host'.left
         /\ From(host.head) \subseteq log'[host'.head].from \cup host'.left
         /\ \A c \in Commits : c \in Commits' /\ From(c)' = From(c) /\ log'[c] = log[c]
<1>1. host.head \in Commits /\ \A c \in Commits : c \in Commits' /\ From(c)' = From(c) /\ log'[c] = log[c]
  BY CommitsAreTyped, KeptIsKept DEF Types, Advances, Grows, Kept
<1>2. /\ host'.head \in Commits' /\ host.left \subseteq host'.left
      /\ From(host.head) \subseteq log'[host'.head].from \cup host'.left
  BY DEF Advances, HistoryIsKept, Commits
<1> QED BY <1>1, <1>2

BaseStep ==
  /\ mirror'.base = mirror.base \/ (mirror'.base # 0 /\ \E l \in Launches : launch[l].base = mirror'.base)
  /\ \A l \in Launches : \/ launch'[l].base = 0
                         \/ launch'[l].base = launch[l].base /\ launch'[l].saw = launch[l].saw
                         \/ launch'[l].base = host.head /\ launch'[l].saw = mirror.base

LEMMA BasesMove ==
  ASSUME Types, [Next]_vars
  PROVE  BaseStep
<1>0. /\ WorkProductTypeOK /\ (\A l \in Launches : Plan(launch[l])) /\ (guest.up => guest.clone # 0)
      /\ mirror \in MirrorState
  BY DEF Types, Plans, WorkProductTypeOK, MirrorState
<1>1. mirror'.base = mirror.base /\ launch' = launch => BaseStep
  BY DEF BaseStep
<1>2. ASSUME NEW l \in Launches, LaunchStep(l) PROVE BaseStep
  <2>1. ASSUME Others(l), mirror'.base = mirror.base,
               \/ launch'[l].base = 0
               \/ SameBase(l)
               \/ launch'[l].base = host.head /\ launch'[l].saw = mirror.base
        PROVE  BaseStep
    BY <2>1 DEF BaseStep, Others, SameBase
  <2>2. ASSUME Decides(l), launch'[l].base \in {0, host.head} PROVE BaseStep
    BY <2>1, <2>2 DEF Decides, Others
  <2>3. ASSUME NEW b \in BOOLEAN, Guards(l, b) \/ Starts(l, b) PROVE BaseStep
    BY <1>0, <2>1, <2>3, EnlistsIs
  <2>4. CASE Claims(l)
    BY <1>0, <2>1, <2>4, ClaimsIs
  <2>5. CASE Resumes(l)
    BY <1>0, <2>2, <2>5, ResumesIs
  <2>6. CASE SnapshotFails(l)
    BY <1>0, <2>2, <2>6, SnapshotFailsIs DEF Seeds
  <2>7. ASSUME NEW probe \in {"absent", "failed"}, SeedsHead(l, probe) PROVE BaseStep
    BY <1>0, <2>2, <2>7, SeedsHeadIs DEF Seeds
  <2>8. ASSUME NEW probe \in {"absent", "failed"}, Snapshots(l, probe) PROVE BaseStep
    <3>1. PICK n, agent : n = NewId /\ agent = FALSE
      OBVIOUS
    <3>2. PICK pc : Seeds(l, pc, n, "tree")
      BY <1>0, <2>8, <3>1, SnapshotsIs
    <3> QED BY <2>2, <3>2 DEF Seeds
  <2>9. CASE Strips(l) \/ StripFails(l)
    <3>1. PICK n : n = NewId
      OBVIOUS
    <3> QED BY <1>0, <2>1, <2>9, <3>1, StripsIs
  <2>10. CASE Records(l)
    BY <1>0, <2>1, <2>10, RecordsIs
  <2>11. CASE Emits(l)
    BY <1>0, <2>1, <2>11, EmitsIs
  <2>12. CASE Clones(l)
    <3>1. mirror' = [mirror EXCEPT !.there = TRUE] /\ Others(l) /\ SameBase(l)
      BY <1>0, <2>12, ClonesIs
    <3>2. mirror'.base = mirror.base
      BY <1>0, <3>1 DEF MirrorState
    <3> QED BY <2>1, <3>1, <3>2
  <2>13. CASE PushesSeed(l)
    <3>1. /\ Others(l) /\ SameBase(l)
          /\ mirror' = [mirror EXCEPT !.branch = launch[l].seed] \/ mirror' = mirror
      BY <1>0, <2>13, PushesSeedIs
    <3>2. mirror'.base = mirror.base
      BY <1>0, <3>1 DEF MirrorState
    <3> QED BY <2>1, <3>1, <3>2
  <2>14. CASE PushesBase(l)
    <3>1. /\ Others(l) /\ launch'[l].base = 0
          /\ launch[l].base # 0 => mirror' = [mirror EXCEPT !.base = launch[l].base]
          /\ launch[l].base = 0 => mirror' = mirror
      BY <1>0, <2>14, PushesBaseIs
    <3>2. mirror'.base = mirror.base \/ (mirror'.base # 0 /\ mirror'.base = launch[l].base)
      BY <1>0, <3>1 DEF MirrorState
    <3> QED BY <3>1, <3>2 DEF BaseStep, Others
  <2>15. CASE Boots(l)
    <3>1. PICK n : n = NewId
      OBVIOUS
    <3> QED BY <1>0, <2>1, <2>15, <3>1, BootsIs DEF Ended
  <2>16. CASE Dies(l) \/ Joins(l)
    BY <1>0, <2>1, <2>16, DiesIs, JoinsIs DEF Ended
  <2> QED BY <1>2, <2>3, <2>4, <2>5, <2>6, <2>7, <2>8, <2>9, <2>10, <2>11, <2>12, <2>13, <2>14,
             <2>15, <2>16 DEF LaunchStep
<1>3. CASE OperatorStep
  BY <1>1, <1>3, OperatorIs
<1>4. CASE UNCHANGED vars
  BY <1>1, <1>4, StutterIs
<1>5. CASE AgentWorks
  <2>1. PICK n : n = NewId
    OBVIOUS
  <2> QED BY <1>0, <1>1, <1>5, <2>1, AgentWorksIs
<1>6. CASE AgentPushes
  <2>1. mirror' = [mirror EXCEPT !.branch = guest.clone] /\ launch' = launch
    BY <1>0, <1>6, AgentPushesIs
  <2>2. mirror'.base = mirror.base
    BY <1>0, <2>1 DEF MirrorState
  <2> QED BY <1>1, <2>1, <2>2
<1>7. CASE GuestStops \/ Redelivers \/ Looks \/ Pulls \/ Judges
  BY <1>0, <1>1, <1>7, TalksIs, LooksIs, PullsIs, JudgesIs
<1>8. CASE Delivers
  <2>1. PICK c \in Commits : mirror' = [mirror EXCEPT !.delivered = c]
    BY <1>0, <1>8, DeliversIs
  <2>2. mirror'.base = mirror.base
    BY <1>0, <2>1 DEF MirrorState
  <2> QED BY <1>0, <1>1, <1>8, <2>2, DeliversIs
<1> QED BY <1>2, <1>3, <1>4, <1>5, <1>6, <1>7, <1>8 DEF Next

LEMMA BasesStayHeads ==
  ASSUME Types, BasesAreHeads, Advances, BaseStep
  PROVE  BasesAreHeads'
<1> DEFINE Known == From(host.head) \cup host.left
           KnownNow == log'[host'.head].from \cup host'.left
<1>1. /\ host.head \in Commits /\ Known \subseteq KnownNow /\ host.left \subseteq host'.left
      /\ \A c \in Commits : From(c)' = From(c)
      /\ host.head \in From(host.head)
  BY HeadKeeps DEF Types, Linear
<1>2. \A c \in Nat : c # 0 /\ c <= Len(log) => c \in Commits
  BY CommitsAreTyped DEF Types, Commits
<1>3. \A l \in Launches : launch[l].base \in Nat /\ launch[l].base <= Len(log)
  BY LaunchIsTyped DEF Types, Plans, Plan, PlanIn
<1>4. mirror.base # 0 => mirror.base \in Known
  BY DEF BasesAreHeads, Seen
<1>5. mirror'.base # 0 => mirror'.base \in Known
  BY <1>4 DEF BasesAreHeads, BaseStep, Seen
<1>6. ASSUME NEW l \in Launches, launch'[l].base # 0
      PROVE  /\ launch'[l].base \in Known
             /\ launch'[l].saw # 0 => launch'[l].saw \in log'[launch'[l].base].from \cup host.left
  <2>1. CASE launch'[l].base = launch[l].base /\ launch'[l].saw = launch[l].saw
    <3>1. launch[l].base \in Known /\ launch[l].base \in Commits
          /\ (launch[l].saw # 0 => launch[l].saw \in From(launch[l].base) \cup host.left)
      BY <1>2, <1>3, <1>6, <2>1 DEF BasesAreHeads, Seen
    <3> QED BY <1>1, <2>1, <3>1 DEF From
  <2>2. CASE launch'[l].base = host.head /\ launch'[l].saw = mirror.base
    BY <1>1, <1>4, <2>2 DEF From
  <2> QED BY <1>6, <2>1, <2>2 DEF BaseStep
<1> HIDE DEF Known
<1>7. /\ mirror'.base # 0 => mirror'.base \in KnownNow
      /\ \A l \in Launches : launch'[l].base # 0 =>
           /\ launch'[l].base \in KnownNow
           /\ launch'[l].saw # 0 => launch'[l].saw \in log'[launch'[l].base].from \cup host'.left
  BY <1>1, <1>5, <1>6
<1> QED BY <1>7 DEF BasesAreHeads, Seen, From

-----------------------------------------------------------------------------
(* A seed is the working tree it was taken from.                           *)

Deciding(l) == launch[l].pc \in {"snapped", "planned"} /\ launch[l].fresh

\* The plan to seed the guest anew is what it was, but for the board.
CarriesSeed(l) ==
  /\ Deciding(l) /\ launch'[l].took = launch[l].took /\ launch'[l].tip = launch[l].tip
  /\ launch'[l].tree = launch[l].tree
  /\ log'[launch'[l].seed].has = log[launch[l].seed].has
  /\ launch[l].took = "head" => launch'[l].seed = launch[l].seed
\* Or it is made in this step.
TakesSeed(l) ==
  /\ launch'[l].tip = host.head /\ launch'[l].tree = host.tree
  /\ launch'[l].took = "tree" => log'[launch'[l].seed].has = host.tree
  /\ launch'[l].took = "head" => launch'[l].seed = host.head /\ host.tree = log[host.head].has
SeedStep == \A l \in Launches : Deciding(l)' => CarriesSeed(l) \/ TakesSeed(l)

LEMMA SeedsMove ==
  ASSUME Types, Advances, [Next]_vars
  PROVE  SeedStep
<1>0. /\ WorkProductTypeOK /\ (\A l \in Launches : Plan(launch[l])) /\ (guest.up => guest.clone # 0)
      /\ Linear /\ \A c \in Commits : log'[c] = log[c]
  BY HeadKeeps DEF Types, Plans
<1>1. ASSUME NEW l \in Launches, launch'[l] = launch[l], Deciding(l)' PROVE CarriesSeed(l)
  <2>1. Deciding(l)
    BY <1>1 DEF Deciding
  <2>2. launch[l].seed \in Commits
    <3>1. launch[l].seed \in Nat /\ launch[l].seed # 0 /\ launch[l].seed <= Len(log) /\ Len(log) \in Nat
      BY <1>0, <2>1, LaunchIsTyped, CommitsAreTyped DEF Deciding, Plan, PlanIn
    <3> QED BY <3>1 DEF Commits
  <2> QED BY <1>0, <1>1, <2>1, <2>2 DEF CarriesSeed
<1>2. launch' = launch => SeedStep
  BY <1>1 DEF SeedStep
<1>3. ASSUME NEW l \in Launches, LaunchStep(l) PROVE SeedStep
  <2>1. ASSUME Others(l), Deciding(l)' => CarriesSeed(l) \/ TakesSeed(l) PROVE SeedStep
    BY <1>1, <2>1 DEF SeedStep, Others
  <2>2. ASSUME Others(l), launch'[l].pc \notin {"snapped", "planned"} PROVE SeedStep
    BY <2>1, <2>2 DEF Deciding
  <2>3. ASSUME NEW b \in BOOLEAN, Guards(l, b) \/ Starts(l, b) PROVE SeedStep
    BY <1>0, <2>2, <2>3, EnlistsIs
  <2>4. CASE Claims(l)
    BY <1>0, <2>2, <2>4, ClaimsIs
  <2>5. CASE Resumes(l)
    <3>1. Decides(l) /\ ~launch'[l].fresh
      BY <1>0, <2>5, ResumesIs
    <3> QED BY <2>1, <3>1 DEF Decides, Others, Deciding
  <2>6. CASE SnapshotFails(l)
    <3>1. Decides(l) /\ launch'[l].took = "nothing"
      BY <1>0, <2>6, SnapshotFailsIs DEF Seeds
    <3>2. TakesSeed(l)
      BY <3>1 DEF Decides, TakesSeed
    <3> QED BY <2>1, <3>1, <3>2 DEF Decides, Others
  <2>7. ASSUME NEW probe \in {"absent", "failed"}, SeedsHead(l, probe) PROVE SeedStep
    <3>1. /\ Decides(l) /\ launch'[l].took = "head" /\ launch'[l].seed = host.head
          /\ host.tree = log[host.head].has
      BY <1>0, <2>7, SeedsHeadIs DEF Seeds
    <3>2. TakesSeed(l)
      BY <3>1 DEF Decides, TakesSeed
    <3> QED BY <2>1, <3>1, <3>2 DEF Decides, Others
  <2>8. ASSUME NEW probe \in {"absent", "failed"}, Snapshots(l, probe) PROVE SeedStep
    <3>1. PICK n, agent : n = NewId /\ agent = FALSE
      OBVIOUS
    <3>2. PICK pc : Seeds(l, pc, n, "tree")
      BY <1>0, <2>8, <3>1, SnapshotsIs
    <3>3. Adds(host.head, agent, host.tree, host.board)
      BY <1>0, <2>8, <3>1, SnapshotsIs
    <3>4. log'[n].has = host.tree
      BY <1>0, <3>1, <3>3, AddedLogGrows
    <3>5. Decides(l) /\ launch'[l].took = "tree" /\ launch'[l].seed = n
      BY <3>2 DEF Seeds
    <3>6. TakesSeed(l)
      BY <3>4, <3>5 DEF Decides, TakesSeed
    <3> QED BY <2>1, <3>5, <3>6 DEF Decides, Others
  <2>9. CASE Strips(l) \/ StripFails(l)
    <3>1. PICK n : n = NewId
      OBVIOUS
    <3>2. /\ Others(l) /\ launch[l].pc = "snapped" /\ SameSight(l)
          /\ launch'[l].fresh = launch[l].fresh
          /\ \/ launch'[l].seed = launch[l].seed /\ log' = log
             \/ \E agent, board : StripsTo(l, n, agent, board)
      BY <1>0, <2>9, <3>1, StripsIs
    <3>3. launch[l].took = "tree" /\ launch[l].fresh
      BY <1>0, <3>2 DEF Plan, PlanIn
    <3>4. log'[launch'[l].seed].has = log[launch[l].seed].has
      <4>1. ASSUME NEW agent, NEW board, StripsTo(l, n, agent, board)
            PROVE  log'[launch'[l].seed].has = log[launch[l].seed].has
        BY <1>0, <3>1, <4>1, AddedLogGrows DEF StripsTo
      <4> QED BY <3>2, <4>1
    <3>5. CarriesSeed(l)
      BY <3>2, <3>3, <3>4 DEF CarriesSeed, Deciding, SameSight
    <3> QED BY <2>1, <3>2, <3>5
  <2>10. CASE Records(l)
    BY <1>0, <2>2, <2>10, RecordsIs
  <2>11. CASE Emits(l)
    BY <1>0, <2>2, <2>11, EmitsIs
  <2>12. CASE Clones(l)
    BY <1>0, <2>2, <2>12, ClonesIs
  <2>13. CASE PushesSeed(l)
    BY <1>0, <2>2, <2>13, PushesSeedIs
  <2>14. CASE PushesBase(l)
    BY <1>0, <2>2, <2>14, PushesBaseIs
  <2>15. CASE Boots(l)
    <3>1. PICK n : n = NewId
      OBVIOUS
    <3> QED BY <1>0, <2>2, <2>15, <3>1, BootsIs DEF Ended
  <2>16. CASE Dies(l) \/ Joins(l)
    BY <1>0, <2>2, <2>16, DiesIs, JoinsIs DEF Ended
  <2> QED BY <1>3, <2>3, <2>4, <2>5, <2>6, <2>7, <2>8, <2>9, <2>10, <2>11, <2>12, <2>13, <2>14,
             <2>15, <2>16 DEF LaunchStep
<1>4. CASE OperatorStep
  BY <1>2, <1>4, OperatorIs
<1>5. CASE UNCHANGED vars
  BY <1>2, <1>5, StutterIs
<1>6. CASE AgentWorks
  <2>1. PICK n : n = NewId
    OBVIOUS
  <2> QED BY <1>0, <1>2, <1>6, <2>1, AgentWorksIs
<1>7. CASE AgentPushes \/ GuestStops \/ Redelivers \/ Looks \/ Pulls \/ Judges \/ Delivers
  BY <1>0, <1>2, <1>7, AgentPushesIs, TalksIs, LooksIs, PullsIs, JudgesIs, DeliversIs
<1> QED BY <1>3, <1>4, <1>5, <1>6, <1>7 DEF Next

LEMMA SeedsStayTheTree ==
  ASSUME Types, SeedsAreTheTree, Advances, SeedStep
  PROVE  SeedsAreTheTree'
<1>1. host.head \in Commits /\ \A c \in Commits : log'[c] = log[c]
  BY HeadKeeps
<1>2. ASSUME NEW l \in Launches, Deciding(l)'
      PROVE  /\ launch'[l].took = "tree" => log'[launch'[l].seed].has = launch'[l].tree
             /\ launch'[l].took = "head" => /\ log'[launch'[l].tip].has = launch'[l].tree
                                            /\ launch'[l].seed = launch'[l].tip
  <2>1. CASE CarriesSeed(l)
    <3>1. /\ launch[l].took = "tree" => log[launch[l].seed].has = launch[l].tree
          /\ launch[l].took = "head" => /\ log[launch[l].tip].has = launch[l].tree
                                        /\ launch[l].seed = launch[l].tip
      BY <2>1 DEF CarriesSeed, Deciding, SeedsAreTheTree
    <3>2. launch[l].tip \in Commits
      <4>1. launch[l].tip \in Nat /\ launch[l].tip # 0 /\ launch[l].tip <= Len(log) /\ Len(log) \in Nat
        BY <2>1, LaunchIsTyped, CommitsAreTyped DEF CarriesSeed, Deciding, Types, Plans, Plan, PlanIn
      <4> QED BY <4>1 DEF Commits
    <3> QED BY <1>1, <2>1, <3>1, <3>2 DEF CarriesSeed
  <2>2. CASE TakesSeed(l)
    BY <1>1, <2>2 DEF TakesSeed
  <2> QED BY <1>2, <2>1, <2>2 DEF SeedStep
<1> QED BY <1>2 DEF SeedsAreTheTree, Deciding

-----------------------------------------------------------------------------
(* Beyond HEAD the board is the one of the commit that was built on.       *)

\* HEAD's own history is not beyond HEAD.
LEMMA HeadKeepsBoard ==
  ASSUME Types, NEW r \in From(host.head)
  PROVE  r \in Commits /\ KeepsBoard(r)
<1>1. r \in Commits /\ From(r) \subseteq From(host.head)
  BY CommitsAreTyped, DescentIsTransitive DEF Types
<1> QED BY <1>1 DEF KeepsBoard

\* The fork of two commits in what the log has become.
LEMMA ForkAfter ==
  ASSUME Types, Advances, NEW a \in 1..Len(log'), NEW b \in 1..Len(log')
  PROVE  /\ Fork(a, b)' \in log'[a].from \cap log'[b].from
         /\ \A e \in log'[a].from \cap log'[b].from : e <= Fork(a, b)'
<1> DEFINE S == log'[a].from \cap log'[b].from
<1>1. S # {} /\ S \subseteq 1..Len(log') /\ Len(log') \in Nat
  <2>1. Len(log') \in Nat
    BY DEF Advances, Grows, Kept
  <2>2. 1 \in log'[a].from /\ 1 \in log'[b].from /\ log'[a].from \subseteq 1..a
    BY DEF Advances, Grows, Linear, Commits, From
  <2> QED BY <2>1, <2>2
<1>2. Fork(a, b)' = Max(S)
  BY DEF Fork, From
<1> HIDE DEF S
<1>3. Max(S) \in S /\ \A x \in S : x <= Max(S)
  BY <1>1, MaxIsMax
<1> QED BY <1>2, <1>3 DEF S

\* Whatever the step does, a board that stays goes on to do so where HEAD has
\* not left what it was built on: else HEAD only takes in commits, of which the
\* board stays too.
LEMMA BoardStaysKept ==
  ASSUME Types, Advances, NEW r \in Commits, KeepsBoard(r), From(r) \cap host'.left = {}
  PROVE  KeepsBoard(r)'
<1>0. PICK h, k : h = host.head /\ k = host'.head
  OBVIOUS
<1>1. /\ h \in Commits /\ From(r) \cap From(h) \subseteq log'[k].from /\ k \in 1..Len(log')
      /\ \A c \in Commits : c \in 1..Len(log') /\ From(c)' = From(c) /\ log'[c] = log[c] /\ c \in Nat
  BY <1>0, HeadKeeps, CommitsAreTyped DEF Commits, Types
<1>2. SUFFICES ASSUME NEW d \in From(r), d \notin log'[k].from
               PROVE  log'[d].board = log'[Fork(d, k)'].board
  <2>1. ASSUME NEW d \in log'[r].from \ log'[k].from PROVE log'[d].board = log'[Fork(d, k)'].board
    BY <1>1, <1>2, <2>1 DEF From
  <2> QED BY <1>0, <2>1 DEF KeepsBoard, From, Fork
<1>3. /\ d \in Commits /\ From(d) \subseteq From(r) /\ d \notin From(h)
      /\ \A e \in From(d) : e \in Commits /\ From(e) = {x \in From(d) : x <= e}
  <2>1. d \in Commits /\ From(d) \subseteq From(r)
    BY DescentIsTransitive DEF Types
  <2>2. \A e \in From(d) : e \in Commits
    BY <2>1, DescentIsTransitive DEF Types
  <2>3. \A e \in From(d) : From(e) = {x \in From(d) : x <= e}
    BY <2>1 DEF Types, Linear
  <2> QED BY <1>1, <1>2, <2>1, <2>2, <2>3
<1>4. /\ Fork(d, h) \in From(d) \cap From(h) /\ Fork(d, h) \in Commits
      /\ \A e \in From(d) \cap From(h) : e <= Fork(d, h)
      /\ log[d].board = log[Fork(d, h)].board
  BY <1>0, <1>1, <1>3, ForkIsLast DEF KeepsBoard, Types
<1>5. PICK f : f = Fork(d, k)'
  OBVIOUS
<1>6. /\ f \in From(d) /\ f \in log'[k].from
      /\ \A e \in From(d) \cap log'[k].from : e <= f
  <2>1. d \in 1..Len(log') /\ log'[d].from = From(d)
    BY <1>1, <1>3 DEF From
  <2> QED BY <1>1, <1>5, <2>1, ForkAfter
<1>7. PICK g : g = Fork(d, h)
  OBVIOUS
<1>8. f \in Commits /\ g \in Commits /\ f \in Nat /\ g \in Nat /\ g <= f
  BY <1>1, <1>3, <1>4, <1>6, <1>7
<1>9. CASE f \in From(h)
  <2>1. f <= g
    BY <1>4, <1>6, <1>7, <1>9
  <2>2. f = g
    BY <1>8, <2>1
  <2> QED BY <1>1, <1>3, <1>4, <1>5, <1>7, <1>8, <2>2
<1>10. CASE f \notin From(h)
  <2>1. log[f].board = log[Fork(f, h)].board
    BY <1>0, <1>3, <1>6, <1>10 DEF KeepsBoard
  <2>2. g \in From(f) \cap From(h) /\ \A e \in From(f) \cap From(h) : e <= g
    BY <1>3, <1>4, <1>6, <1>7, <1>8
  <2>3. Fork(f, h) = g
    BY <1>1, <1>8, <2>2, ForkIsLast DEF Types
  <2> QED BY <1>1, <1>3, <1>4, <1>5, <1>7, <1>8, <2>1, <2>3
<1> QED BY <1>9, <1>10

\* A commit whose board is its parent's, or that parent itself.
Extends(r, p) ==
  /\ p \in Commits /\ r \in 1..Len(log')
  /\ log'[r].from = From(p) \cup {r} /\ log'[r].board = log[p].board

LEMMA BoardStaysInChildren ==
  ASSUME Types, Advances, host'.head = host.head, NEW r, NEW p, Extends(r, p), KeepsBoard(p)
  PROVE  KeepsBoard(r)'
<1>0. PICK h : h = host.head
  OBVIOUS
<1>1. /\ h \in Commits /\ p \in Commits /\ r \in 1..Len(log')
      /\ log'[r].from = From(p) \cup {r} /\ log'[r].board = log[p].board
      /\ \A c \in Commits : c \in 1..Len(log') /\ From(c)' = From(c) /\ log'[c] = log[c] /\ c \in Nat
  BY <1>0, HeadKeeps, CommitsAreTyped DEF Commits, Types, Extends
<1>2. SUFFICES ASSUME NEW d \in From(p) \cup {r}, d \notin From(h)
               PROVE  log'[d].board = log'[Fork(d, h)'].board
  <2>1. log'[h].from = From(h)
    BY <1>1 DEF From
  <2>2. ASSUME NEW d \in log'[r].from \ log'[h].from PROVE log'[d].board = log'[Fork(d, h)'].board
    BY <1>1, <1>2, <2>1, <2>2
  <2> QED BY <1>0, <2>2 DEF KeepsBoard, From, Fork
<1>3. /\ Fork(p, h) \in Commits /\ Fork(p, h) \in From(p) \cap From(h)
      /\ \A e \in From(p) \cap From(h) : e <= Fork(p, h)
      /\ p \notin From(h) => log[p].board = log[Fork(p, h)].board
      /\ p \in From(p) /\ From(p) \subseteq 1..p
  <2>1. p \in From(p) /\ From(p) \subseteq 1..p
    BY <1>1 DEF Types, Linear
  <2> QED BY <1>0, <1>1, <2>1, ForkIsLast DEF KeepsBoard, Types
<1>4. CASE d \in From(p)
  <2>1. d \in Commits
    BY <1>1, <1>4, DescentIsTransitive DEF Types
  <2>2. log[d].board = log[Fork(d, h)].board /\ Fork(d, h) \in Commits
    BY <1>0, <1>1, <1>2, <1>4, <2>1, ForkIsLast DEF KeepsBoard, Types
  <2>3. Fork(d, h)' = Fork(d, h)
    BY <1>1, <2>1 DEF Fork
  <2> QED BY <1>1, <2>1, <2>2, <2>3
<1>5. CASE d = r
  <2>1. Fork(r, h)' = Fork(p, h)
    <3>1. log'[r].from \cap log'[h].from = From(p) \cap From(h)
      BY <1>1, <1>2, <1>5 DEF From
    <3> QED BY <3>1 DEF Fork, From
  <2>2. CASE p \in From(h)
    <3>1. Fork(p, h) = p
      <4>1. p \in From(p) \cap From(h) /\ \A e \in From(p) \cap From(h) : e <= p
        BY <1>3, <2>2
      <4> QED BY <1>1, <4>1, ForkIsLast DEF Types
    <3> QED BY <1>1, <1>5, <2>1, <3>1
  <2>3. CASE p \notin From(h)
    BY <1>1, <1>3, <1>5, <2>1, <2>3
  <2> QED BY <2>2, <2>3
<1> QED BY <1>2, <1>4, <1>5

\* Replaying such a branch on the base brings no board along.
LEMMA ReplayKeepsBoard ==
  ASSUME Types, NEW c \in Commits, NEW base \in From(host.head), KeepsBoard(c),
         ~Descends(c, base), ~Descends(base, c)
  PROVE  MergedBoard(c, base) = log[base].board
<1> DEFINE h == host.head
<1>1. /\ h \in Commits /\ base \in Commits /\ From(base) \subseteq From(h)
      /\ \A e \in From(h) : e \in From(base) \/ base \in From(e)
  BY CommitsAreTyped, DescentIsTransitive DEF Types
<1>2. base \notin From(c) /\ c \notin From(base)
  BY DEF Descends
<1>3. c \in From(c)
  BY DEF Types, Linear
<1>4. c \notin From(h)
  BY <1>1, <1>2
<1>5. log[c].board = log[Fork(c, h)].board
  BY <1>3, <1>4 DEF KeepsBoard
<1>6. PICK f : f = Fork(c, h)
  OBVIOUS
<1>7. f \in From(c) /\ f \in From(h) /\ \A e \in From(c) \cap From(h) : e <= f
  BY <1>1, <1>6, ForkIsLast DEF Types
<1>8. From(f) \subseteq From(c)
  BY <1>7, DescentIsTransitive DEF Types
<1>9. f \in From(base)
  BY <1>1, <1>2, <1>7, <1>8
<1>10. Fork(c, base) = f
  BY <1>1, <1>7, <1>9, ForkIsLast DEF Types
<1> QED BY <1>5, <1>6, <1>10 DEF MergedBoard

\* Where a ref goes: to where a ref is, to a commit whose board is that of
\* a ref or of HEAD's history, or onto commits that HEAD has left.
RefOrNew(x) ==
  \/ x \in Commits /\ IsRef(x)
  \/ /\ host'.head = host.head /\ host'.left = host.left
     /\ \E p : Extends(x, p) /\ (IsRef(p) \/ p \in From(host.head))
  \/ log'[x].from \cap host'.left # {}
RefStep ==
  /\ \A x \in {bookmark', earlier', mirror'.branch, guest'.clone} : x = 0 \/ RefOrNew(x)
  /\ \A l \in Launches :
       launch'[l].pc # "snapped" => launch'[l].seed = 0 \/ RefOrNew(launch'[l].seed)
SnapStep ==
  \A l \in Launches : launch'[l].pc = "snapped" =>
    \/ launch[l].pc = "snapped" /\ launch'[l].seed = launch[l].seed /\ launch'[l].tip = launch[l].tip
    \/ /\ launch'[l].tip = host.head /\ launch'[l].seed \in 1..Len(log')
       /\ log'[launch'[l].seed].from = From(host.head) \cup {launch'[l].seed}
BoardStep == ~past'.loose => ~past.loose /\ RefStep /\ SnapStep

LEMMA RefsAreRefs ==
  ASSUME Types
  PROVE  /\ \A x \in {bookmark, earlier, mirror.branch, guest.clone} : x = 0 \/ RefOrNew(x)
         /\ \A l \in Launches : launch[l].pc # "snapped" => launch[l].seed = 0 \/ RefOrNew(launch[l].seed)
<1>1. \A x \in {bookmark, earlier, mirror.branch, guest.clone} : x # 0 => x \in Commits /\ IsRef(x)
  BY CommitsAreTyped DEF Types, WorkProductTypeOK, Commits, IsRef
<1>2. ASSUME NEW l \in Launches, launch[l].pc # "snapped", launch[l].seed # 0
      PROVE  launch[l].seed \in Commits /\ IsRef(launch[l].seed)
  <2>1. launch[l].seed \in Nat /\ launch[l].seed <= Len(log) /\ Len(log) \in Nat
    BY LaunchIsTyped, CommitsAreTyped DEF Types, Plans, Plan, PlanIn
  <2>2. launch[l].seed \in Commits
    BY <1>2, <2>1 DEF Commits
  <2> QED BY <1>2, <2>2 DEF IsRef
<1> QED BY <1>1, <1>2 DEF RefOrNew

\* What was HEAD once can be a ref.
LEMMA HeadsAreRefs ==
  ASSUME Types, Advances, host' = host, NEW r, Seen(r)
  PROVE  RefOrNew(r)
<1>0. host.left \subseteq Commits
  BY DEF Types, WorkProductTypeOK, Commits
<1>1. r \in Commits /\ r \in 1..Len(log') /\ log'[r] = log[r] /\ r \in From(r)
  BY <1>0, HeadKeeps, HeadKeepsBoard DEF Types, Linear, Commits, Seen
<1>2. log'[r].from = From(r) \cup {r} /\ log'[r].board = log[r].board
  BY <1>1 DEF From
<1>3. Extends(r, r)
  BY <1>1, <1>2 DEF Extends
<1> QED BY <1>2, <1>3 DEF RefOrNew, Seen

LEMMA BoardsMove ==
  ASSUME Types, BasesAreHeads, BoardStays, Advances, [Next]_vars
  PROVE  BoardStep
<1>0. /\ WorkProductTypeOK /\ Linear /\ (\A l \in Launches : Plan(launch[l])) /\ (guest.up => guest.clone # 0)
      /\ mirror \in MirrorState /\ guest \in GuestState /\ past \in Past
  BY DEF Types, Plans, WorkProductTypeOK, MirrorState, GuestState
<1>1. /\ \A x \in {bookmark, earlier, mirror.branch, guest.clone} : x = 0 \/ RefOrNew(x)
      /\ \A l \in Launches : launch[l].pc # "snapped" => launch[l].seed = 0 \/ RefOrNew(launch[l].seed)
  BY RefsAreRefs
<1>2. ASSUME \A x \in {bookmark', earlier', mirror'.branch, guest'.clone} : x = 0 \/ RefOrNew(x),
             launch' = launch, ~past'.loose => ~past.loose
      PROVE  BoardStep
  BY <1>1, <1>2 DEF BoardStep, RefStep, SnapStep
<1>3. UNCHANGED <<bookmark, earlier, mirror, guest, launch, past>> => BoardStep
  BY <1>1, <1>2
<1>4. ASSUME NEW l \in Launches, LaunchStep(l) PROVE BoardStep
  <2>1. ASSUME Others(l), ~past'.loose => ~past.loose,
               \A x \in {bookmark', earlier', mirror'.branch, guest'.clone} : x = 0 \/ RefOrNew(x),
               launch'[l].pc # "snapped", ~past'.loose => launch'[l].seed = 0 \/ RefOrNew(launch'[l].seed)
        PROVE  BoardStep
    <3> SUFFICES ASSUME ~past'.loose PROVE ~past.loose /\ RefStep /\ SnapStep
      BY DEF BoardStep
    <3>1. ASSUME NEW k \in Launches, launch'[k].pc # "snapped"
          PROVE  launch'[k].seed = 0 \/ RefOrNew(launch'[k].seed)
      <4>1. CASE k = l
        BY <2>1, <4>1
      <4>2. CASE k # l
        BY <1>1, <2>1, <3>1, <4>2 DEF Others
      <4> QED BY <4>1, <4>2
    <3>2. ASSUME NEW k \in Launches, launch'[k].pc = "snapped" PROVE launch'[k] = launch[k]
      BY <2>1, <3>2 DEF Others
    <3> QED BY <2>1, <3>1, <3>2 DEF RefStep, SnapStep
  <2>2. ASSUME Others(l), UNCHANGED <<bookmark, earlier, mirror, guest>>, ~past'.loose => ~past.loose,
               launch'[l].pc # "snapped", launch'[l].seed = 0 \/ RefOrNew(launch'[l].seed)
        PROVE  BoardStep
    BY <1>1, <2>1, <2>2
  <2>3. ASSUME Others(l), UNCHANGED <<bookmark, earlier, mirror, guest>>, ~past'.loose => ~past.loose,
               launch'[l].pc # "snapped", launch[l].pc # "snapped", SameSeed(l)
        PROVE  BoardStep
    <3>1. launch'[l].seed = 0 \/ RefOrNew(launch'[l].seed)
      BY <1>1, <2>3 DEF SameSeed
    <3> QED BY <2>2, <2>3, <3>1
  <2>4. ASSUME NEW b \in BOOLEAN, Guards(l, b) \/ Starts(l, b) PROVE BoardStep
    BY <1>0, <2>2, <2>4, EnlistsIs
  <2>5. CASE Claims(l)
    BY <1>0, <2>3, <2>5, ClaimsIs
  <2>6. CASE Resumes(l)
    <3>1. /\ Decides(l) /\ past' = past /\ launch'[l].pc = "planned" /\ launch'[l].seed = mirror.branch
      BY <1>0, <2>6, ResumesIs
    <3>2. mirror.branch = 0 \/ RefOrNew(mirror.branch)
      BY <1>1
    <3> QED BY <2>2, <3>1, <3>2 DEF Decides, Others
  <2>7. ASSUME NEW took, Seeds(l, "planned", host.head, took), past' = past PROVE BoardStep
    <3>1. Decides(l) /\ launch'[l].pc = "planned" /\ launch'[l].seed = host.head
      BY <2>7 DEF Seeds
    <3>2. RefOrNew(host.head)
      <4>1. Seen(host.head)
        BY <1>0, CommitsAreTyped DEF Linear, Seen
      <4> QED BY <3>1, <4>1, HeadsAreRefs DEF Decides
    <3> QED BY <2>2, <2>7, <3>1, <3>2 DEF Decides, Others
  <2>8. CASE SnapshotFails(l)
    BY <1>0, <2>7, <2>8, SnapshotFailsIs
  <2>9. ASSUME NEW probe \in {"absent", "failed"}, SeedsHead(l, probe) PROVE BoardStep
    BY <1>0, <2>7, <2>9, SeedsHeadIs
  <2>10. ASSUME NEW probe \in {"absent", "failed"}, Snapshots(l, probe) PROVE BoardStep
    <3>1. PICK n, agent : n = NewId /\ agent = FALSE
      OBVIOUS
    <3>2. PICK pc \in {"snapped", "planned"} :
             /\ Seeds(l, pc, n, "tree")
             /\ past' = [past EXCEPT !.loose = past.loose \/ ~launch[l].dispatched]
             /\ pc = "snapped" <=> launch[l].dispatched
      BY <1>0, <2>10, <3>1, SnapshotsIs
    <3>3. Adds(host.head, agent, host.tree, host.board)
      BY <1>0, <2>10, <3>1, SnapshotsIs
    <3>4. n \in 1..Len(log') /\ log'[n].from = From(host.head) \cup {n}
      BY <1>0, <3>1, <3>3, AddedLogGrows
    <3>5. ~past'.loose => ~past.loose /\ pc = "snapped"
      <4>1. PICK loose : loose = (past.loose \/ ~launch[l].dispatched)
        OBVIOUS
      <4>2. past' = [past EXCEPT !.loose = loose]
        BY <3>2, <4>1
      <4>3. past'.loose = loose
        BY <1>0, <4>2 DEF Past
      <4> QED BY <3>2, <4>1, <4>3
    <3>6. Decides(l) /\ launch'[l].pc = pc /\ launch'[l].seed = n
      BY <3>2 DEF Seeds
    <3>7. ASSUME ~past'.loose PROVE RefStep /\ SnapStep
      <4>1. /\ \A k \in Launches : k # l => launch'[k] = launch[k]
            /\ launch'[l].pc = "snapped" /\ launch'[l].tip = host.head
            /\ UNCHANGED <<bookmark, earlier, mirror, guest>>
        BY <3>5, <3>6, <3>7 DEF Decides
      <4>2. ASSUME NEW k \in Launches, launch'[k].pc # "snapped"
            PROVE  launch'[k].seed = 0 \/ RefOrNew(launch'[k].seed)
        BY <1>1, <4>1, <4>2
      <4>3. SnapStep
        BY <3>4, <3>6, <4>1 DEF SnapStep
      <4> QED BY <1>1, <4>1, <4>2, <4>3 DEF RefStep
    <3> QED BY <3>5, <3>7 DEF BoardStep
  <2>11. CASE Strips(l) \/ StripFails(l)
    <3>1. PICK n : n = NewId
      OBVIOUS
    <3>2. /\ Others(l) /\ launch[l].pc = "snapped" /\ launch'[l].pc = "planned"
          /\ ~past'.loose => ~past.loose /\ launch[l].tip = host.head
          /\ \/ /\ launch'[l].seed = launch[l].seed /\ log' = log
                /\ ~past'.loose => log[launch[l].seed].board = log[host.head].board
             \/ \E agent, board : StripsTo(l, n, agent, board)
          /\ UNCHANGED <<host, bookmark, earlier, mirror, guest>>
      BY <1>0, <2>11, <3>1, StripsIs
    <3>3. ASSUME ~past'.loose PROVE Extends(launch'[l].seed, host.head)
      <4>1. host.head \in Commits
        BY <1>0, CommitsAreTyped
      <4>2. CASE /\ launch'[l].seed = launch[l].seed /\ log' = log
                 /\ log[launch[l].seed].board = log[host.head].board
        <5>1. From(launch[l].seed) = From(host.head) \cup {launch[l].seed}
          BY <3>2, <3>3 DEF BoardStays
        <5>2. launch[l].seed \in 1..Len(log)
          BY <1>0, <3>2, LaunchIsTyped, CommitsAreTyped DEF Plan, PlanIn
        <5> QED BY <4>1, <4>2, <5>1, <5>2 DEF Extends, From
      <4>3. ASSUME NEW agent, NEW board, StripsTo(l, n, agent, board)
            PROVE  Extends(launch'[l].seed, host.head)
        <5>1. /\ Adds(host.head, agent, log[launch[l].seed].has, board) /\ launch'[l].seed = n
              /\ board = log[host.head].board
          BY <3>3, <4>3 DEF StripsTo
        <5>2. /\ n \in 1..Len(log') /\ log'[n].from = From(host.head) \cup {n} /\ log'[n].board = board
          BY <1>0, <3>1, <5>1, AddedLogGrows
        <5> QED BY <4>1, <5>1, <5>2 DEF Extends
      <4> QED BY <3>2, <3>3, <4>2, <4>3
    <3>4. ASSUME ~past'.loose PROVE RefOrNew(launch'[l].seed)
      <4>1. host.head \in From(host.head)
        BY <1>0, CommitsAreTyped DEF Linear
      <4> QED BY <3>2, <3>3, <3>4, <4>1 DEF RefOrNew
    <3> QED BY <1>1, <2>1, <3>2, <3>4
  <2>12. CASE Records(l)
    BY <1>0, <2>3, <2>12, RecordsIs
  <2>13. CASE Emits(l)
    BY <1>0, <2>3, <2>13, EmitsIs
  <2>14. CASE Clones(l)
    <3>1. /\ Others(l) /\ launch[l].pc = "cloning" /\ launch'[l].pc = "seeding" /\ SameSeed(l)
          /\ mirror' = [mirror EXCEPT !.there = TRUE]
          /\ UNCHANGED <<bookmark, earlier, guest, past>>
      BY <1>0, <2>14, ClonesIs
    <3>2. mirror'.branch = mirror.branch
      BY <1>0, <3>1 DEF MirrorState
    <3>3. launch'[l].seed = 0 \/ RefOrNew(launch'[l].seed)
      BY <1>1, <3>1 DEF SameSeed
    <3> QED BY <1>1, <2>1, <3>1, <3>2, <3>3
  <2>15. CASE PushesSeed(l)
    <3>1. /\ Others(l) /\ launch[l].pc = "seeding" /\ launch'[l].pc = "basing" /\ launch'[l].seed = 0
          /\ launch[l].fresh => /\ mirror' = [mirror EXCEPT !.branch = launch[l].seed]
                                /\ past' = [past EXCEPT !.pushes = "none"]
          /\ ~launch[l].fresh => mirror' = mirror /\ past' = past
          /\ UNCHANGED <<bookmark, earlier, guest>>
      BY <1>0, <2>15, PushesSeedIs
    <3>2. mirror'.branch \in {launch[l].seed, mirror.branch} /\ past'.loose = past.loose
      BY <1>0, <3>1 DEF MirrorState, Past
    <3>3. mirror'.branch = 0 \/ RefOrNew(mirror'.branch)
      BY <1>1, <3>1, <3>2
    <3> QED BY <1>1, <2>1, <3>1, <3>2, <3>3
  <2>16. CASE PushesBase(l)
    <3>1. /\ Others(l) /\ launch[l].pc = "basing" /\ launch'[l].pc = "booting" /\ SameSeed(l)
          /\ mirror' = [mirror EXCEPT !.base = launch[l].base] \/ mirror' = mirror
          /\ UNCHANGED <<bookmark, earlier, guest, past>>
      BY <1>0, <2>16, PushesBaseIs
    <3>2. mirror'.branch = mirror.branch
      BY <1>0, <3>1 DEF MirrorState
    <3>3. launch'[l].seed = 0 \/ RefOrNew(launch'[l].seed)
      BY <1>1, <3>1 DEF SameSeed
    <3> QED BY <1>1, <2>1, <3>1, <3>2, <3>3
  <2>17. CASE Boots(l)
    <3>1. PICK n : n = NewId
      OBVIOUS
    <3>2. /\ Others(l) /\ Ended(launch'[l])
          /\ ~past'.loose => ~past.loose
          /\ \/ log' = log /\ (Cloned \/ KeptClone \/ Forwarded)
             \/ /\ \E agent, has, board : Replayed(n, agent, has, board)
                /\ ~past'.loose => From(guest.clone) \cap host.left = {}
          /\ UNCHANGED <<host, mirror, bookmark, earlier>>
      BY <1>0, <2>17, <3>1, BootsIs
    <3>3. mirror.base # 0 => Seen(mirror.base)
      BY DEF BasesAreHeads
    <3>4. ASSUME ~past'.loose PROVE guest'.clone = 0 \/ RefOrNew(guest'.clone)
      <4>1. CASE Cloned \/ KeptClone
        BY <1>1, <4>1 DEF Cloned, KeptClone
      <4>2. CASE Forwarded
        BY <3>2, <3>3, <4>2, HeadsAreRefs DEF Forwarded
      <4>3. ASSUME NEW agent, NEW has, NEW board, Replayed(n, agent, has, board),
                   From(guest.clone) \cap host.left = {}
            PROVE  RefOrNew(guest'.clone)
        <5>1. /\ guest.clone # 0 /\ mirror.base # 0
              /\ ~Descends(guest.clone, mirror.base) /\ ~Descends(mirror.base, guest.clone)
              /\ Adds(mirror.base, agent, has, board)
              /\ board = MergedBoard(guest.clone, mirror.base) /\ guest'.clone = n
          BY <4>3 DEF Replayed
        <5>2. guest.clone \in Commits /\ IsRef(guest.clone) /\ mirror.base \in Commits
          BY <1>0, <5>1 DEF GuestState, MirrorState, Commits, IsRef
        <5>3. n \in 1..Len(log') /\ log'[n].from = From(mirror.base) \cup {n} /\ log'[n].board = board
          BY <1>0, <3>1, <5>1, AddedLogGrows
        <5>4. CASE mirror.base \in host.left
          <6>1. mirror.base \in From(mirror.base)
            BY <1>0, <5>2 DEF Linear
          <6> QED BY <3>2, <5>1, <5>3, <5>4, <6>1 DEF RefOrNew
        <5>5. CASE mirror.base \in From(host.head)
          <6>1. KeepsBoard(guest.clone)
            BY <3>2, <3>4, <4>3, <5>2 DEF BoardStays
          <6>2. board = log[mirror.base].board
            BY <5>1, <5>2, <5>5, <6>1, ReplayKeepsBoard
          <6>3. Extends(n, mirror.base)
            BY <5>2, <5>3, <6>2 DEF Extends
          <6> QED BY <3>2, <5>1, <5>5, <6>3 DEF RefOrNew
        <5> QED BY <3>3, <5>1, <5>4, <5>5 DEF Seen
      <4> QED BY <3>2, <3>4, <4>1, <4>2, <4>3
    <3>5. CASE past'.loose
      BY <3>5 DEF BoardStep
    <3>6. CASE ~past'.loose
      BY <1>1, <2>1, <3>2, <3>4, <3>6 DEF Ended
    <3> QED BY <3>5, <3>6
  <2>18. CASE Dies(l) \/ Joins(l)
    <3>1. CASE Dies(l)
      BY <1>0, <2>2, <3>1, DiesIs DEF Ended
    <3>2. CASE Joins(l)
      <4>1. /\ Others(l) /\ Ended(launch'[l]) /\ guest'.clone = guest.clone
            /\ UNCHANGED <<mirror, bookmark, earlier, past>>
        BY <1>0, <3>2, JoinsIs
      <4> QED BY <1>1, <2>1, <4>1 DEF Ended
    <3> QED BY <2>18, <3>1, <3>2
  <2> QED BY <1>4, <2>4, <2>5, <2>6, <2>8, <2>9, <2>10, <2>11, <2>12, <2>13, <2>14, <2>15, <2>16,
             <2>17, <2>18 DEF LaunchStep
<1>5. CASE OperatorStep
  BY <1>3, <1>5, OperatorIs
<1>6. CASE UNCHANGED vars
  BY <1>3, <1>6, StutterIs
<1>7. CASE AgentWorks
  <2>1. PICK n : n = NewId
    OBVIOUS
  <2>2. PICK agent, has : Adds(guest.clone, agent, has, log[guest.clone].board)
    BY <1>0, <1>7, <2>1, AgentWorksIs
  <2>3. /\ guest' = [guest EXCEPT !.clone = n] /\ guest.up
        /\ UNCHANGED <<host, bookmark, earlier, mirror, launch, past>>
    BY <1>0, <1>7, <2>1, AgentWorksIs
  <2>4. /\ n \in 1..Len(log') /\ log'[n].from = From(guest.clone) \cup {n}
        /\ log'[n].board = log[guest.clone].board
    BY <1>0, <2>1, <2>2, AddedLogGrows
  <2>5. guest'.clone = n /\ guest.clone \in Commits /\ IsRef(guest.clone)
    BY <1>0, <2>3 DEF GuestState, Commits, IsRef
  <2>6. RefOrNew(guest'.clone)
    BY <2>3, <2>4, <2>5 DEF RefOrNew, Extends
  <2> QED BY <1>1, <1>2, <2>3, <2>6
<1>8. CASE AgentPushes
  <2>1. /\ mirror' = [mirror EXCEPT !.branch = guest.clone] /\ past'.loose = past.loose
        /\ UNCHANGED <<bookmark, earlier, guest, launch>>
    BY <1>0, <1>8, AgentPushesIs
  <2>2. mirror'.branch = guest.clone
    BY <1>0, <2>1 DEF MirrorState
  <2> QED BY <1>1, <1>2, <2>1, <2>2
<1>9. CASE GuestStops \/ Redelivers
  <2>1. /\ guest' \in [up : BOOLEAN, clone : {guest.clone}, told : Launches \cup {"none"}]
        /\ UNCHANGED <<bookmark, earlier, mirror, launch, past>>
    BY <1>0, <1>9, TalksIs
  <2>2. guest'.clone = guest.clone
    BY <2>1
  <2> QED BY <1>1, <1>2, <2>1, <2>2
<1>10. CASE Looks \/ Judges
  BY <1>0, <1>3, <1>10, LooksIs, JudgesIs
<1>11. CASE Pulls
  <2>1. /\ bookmark' = bookmark \/ bookmark' = mirror.branch
        /\ UNCHANGED <<earlier, mirror, guest, launch, past>>
    BY <1>0, <1>11, PullsIs
  <2> QED BY <1>1, <1>2, <2>1
<1>12. CASE Delivers
  <2>1. PICK c \in Commits : mirror' = [mirror EXCEPT !.delivered = c]
    BY <1>0, <1>12, DeliversIs
  <2>2. UNCHANGED <<bookmark, earlier, guest, launch, past>>
    BY <1>0, <1>12, DeliversIs
  <2>3. mirror'.branch = mirror.branch
    BY <1>0, <2>1 DEF MirrorState
  <2> QED BY <1>1, <1>2, <2>2, <2>3
<1> QED BY <1>4, <1>5, <1>6, <1>7, <1>8, <1>9, <1>10, <1>11, <1>12 DEF Next

LEMMA BoardsStay ==
  ASSUME Types, Types', BoardStays, Advances, BoardStep
  PROVE  BoardStays'
<1> SUFFICES ASSUME ~past'.loose
             PROVE  /\ \A r \in 1..Len(log') :
                         IsRef(r)' /\ log'[r].from \cap host'.left = {} => KeepsBoard(r)'
                    /\ \A l \in Launches : launch'[l].pc = "snapped" =>
                         log'[launch'[l].seed].from = log'[launch'[l].tip].from \cup {launch'[l].seed}
  BY DEF BoardStays, Commits, From
<1>1. ~past.loose /\ RefStep /\ SnapStep
  BY DEF BoardStep
<1>2. /\ \A r \in Commits : IsRef(r) /\ From(r) \cap host.left = {} => KeepsBoard(r)
      /\ \A l \in Launches : launch[l].pc = "snapped" =>
           From(launch[l].seed) = From(launch[l].tip) \cup {launch[l].seed}
  BY <1>1 DEF BoardStays
<1>3. ASSUME NEW r, RefOrNew(r), log'[r].from \cap host'.left = {} PROVE KeepsBoard(r)'
  <2>0. host.left \subseteq host'.left /\ \A c \in Commits : log'[c] = log[c]
    BY HeadKeeps
  <2>1. CASE r \in Commits /\ IsRef(r)
    <3>1. From(r) \cap host'.left = {} /\ From(r) \cap host.left = {}
      BY <1>3, <2>0, <2>1 DEF From
    <3> QED BY <1>2, <2>1, <3>1, BoardStaysKept
  <2>2. ASSUME NEW p, host'.head = host.head, host'.left = host.left, Extends(r, p),
               IsRef(p) \/ p \in From(host.head)
        PROVE  KeepsBoard(r)'
    <3>1. p \in Commits /\ From(p) \cap host.left = {}
      BY <1>3, <2>2 DEF Extends
    <3>2. KeepsBoard(p)
      BY <1>2, <2>2, <3>1, HeadKeepsBoard
    <3> QED BY <2>2, <3>2, BoardStaysInChildren
  <2> QED BY <1>3, <2>1, <2>2 DEF RefOrNew
<1>4. ASSUME NEW r \in 1..Len(log'), IsRef(r)' PROVE RefOrNew(r)
  BY <1>1, <1>4 DEF IsRef, RefStep
<1>5. ASSUME NEW l \in Launches, launch'[l].pc = "snapped"
      PROVE  log'[launch'[l].seed].from = log'[launch'[l].tip].from \cup {launch'[l].seed}
  <2>0. \A c \in Commits : log'[c] = log[c]
    BY HeadKeeps
  <2>1. CASE launch[l].pc = "snapped" /\ launch'[l].seed = launch[l].seed /\ launch'[l].tip = launch[l].tip
    <3>1. launch[l].seed \in Commits /\ launch[l].tip \in Commits
      BY <2>1, LaunchIsTyped, CommitsAreTyped DEF Types, Plans, Plan, PlanIn, Commits
    <3> QED BY <1>2, <2>0, <2>1, <3>1 DEF From
  <2>2. CASE /\ launch'[l].tip = host.head
             /\ log'[launch'[l].seed].from = From(host.head) \cup {launch'[l].seed}
    BY <2>0, <2>2, HeadKeeps DEF From
  <2> QED BY <1>1, <1>5, <2>1, <2>2 DEF SnapStep
<1> QED BY <1>3, <1>4, <1>5

-----------------------------------------------------------------------------
(* Before the instance has its name, and what its guard saw.               *)

LEMMA NothingStaysBefore ==
  ASSUME Types, NothingBefore, [Next]_vars
  PROVE  NothingBefore'
<1>0. /\ WorkProductTypeOK /\ (\A l \in Launches : Plan(launch[l])) /\ (guest.up => guest.clone # 0)
      /\ mirror \in MirrorState /\ past \in Past
  BY DEF Types, Plans, WorkProductTypeOK, MirrorState
<1>1. ASSUME past'.minted = past.minted, ~past.minted PROVE
        /\ mirror.branch = 0 /\ bookmark = 0 /\ ~guest.up
        /\ \A l \in Launches : launch[l].pc \in {"idle", "done"}
  BY <1>1 DEF NothingBefore
<1>2. ASSUME past'.minted = past.minted,
             ~past.minted => /\ mirror'.branch = mirror.branch /\ bookmark' = bookmark
                             /\ guest'.up = guest.up /\ launch' = launch
      PROVE  NothingBefore'
  BY <1>2 DEF NothingBefore
<1>3. ASSUME NEW l \in Launches, LaunchStep(l) PROVE NothingBefore'
  <2>1. ASSUME past'.minted = past.minted, launch[l].pc \notin {"idle", "done"} PROVE NothingBefore'
    BY <1>1, <2>1 DEF NothingBefore
  <2>2. ASSUME Decides(l), past'.minted = past.minted PROVE NothingBefore'
    BY <2>1, <2>2 DEF Decides
  <2>3. ASSUME NEW b \in BOOLEAN, Guards(l, b) \/ Starts(l, b) PROVE NothingBefore'
    BY <1>0, <2>3, EnlistsIs DEF NothingBefore
  <2>4. CASE Claims(l)
    BY <1>0, <2>1, <2>4, ClaimsIs
  <2>5. CASE Resumes(l)
    BY <1>0, <2>2, <2>5, ResumesIs
  <2>6. CASE SnapshotFails(l)
    BY <1>0, <2>2, <2>6, SnapshotFailsIs DEF Seeds
  <2>7. ASSUME NEW probe \in {"absent", "failed"}, SeedsHead(l, probe) PROVE NothingBefore'
    BY <1>0, <2>2, <2>7, SeedsHeadIs DEF Seeds
  <2>8. ASSUME NEW probe \in {"absent", "failed"}, Snapshots(l, probe) PROVE NothingBefore'
    <3>1. PICK n, agent : n = NewId /\ agent = FALSE
      OBVIOUS
    <3>2. PICK pc : /\ Seeds(l, pc, n, "tree")
                    /\ past' = [past EXCEPT !.loose = past.loose \/ ~launch[l].dispatched]
      BY <1>0, <2>8, <3>1, SnapshotsIs
    <3>3. past'.minted = past.minted
      BY <1>0, <3>2 DEF Past
    <3> QED BY <2>2, <3>2, <3>3 DEF Seeds
  <2>9. CASE Strips(l) \/ StripFails(l)
    <3>1. PICK n : n = NewId
      OBVIOUS
    <3> QED BY <1>0, <2>1, <2>9, <3>1, StripsIs
  <2>10. CASE Records(l)
    BY <1>0, <2>1, <2>10, RecordsIs
  <2>11. CASE Emits(l)
    BY <1>0, <2>1, <2>11, EmitsIs DEF SamePast
  <2>12. CASE Clones(l)
    BY <1>0, <2>1, <2>12, ClonesIs
  <2>13. CASE PushesSeed(l)
    <3>1. /\ launch[l].pc = "seeding"
          /\ past' = [past EXCEPT !.pushes = "none"] \/ past' = past
      BY <1>0, <2>13, PushesSeedIs
    <3>2. past'.minted = past.minted
      BY <1>0, <3>1 DEF Past
    <3> QED BY <2>1, <3>1, <3>2
  <2>14. CASE PushesBase(l)
    BY <1>0, <2>1, <2>14, PushesBaseIs
  <2>15. CASE Boots(l)
    <3>1. PICK n : n = NewId
      OBVIOUS
    <3> QED BY <1>0, <2>1, <2>15, <3>1, BootsIs DEF SamePast
  <2>16. CASE Dies(l) \/ Joins(l)
    BY <1>0, <2>1, <2>16, DiesIs, JoinsIs DEF Late
  <2> QED BY <1>3, <2>3, <2>4, <2>5, <2>6, <2>7, <2>8, <2>9, <2>10, <2>11, <2>12, <2>13, <2>14,
             <2>15, <2>16 DEF LaunchStep
<1>4. ASSUME past'.minted = past.minted, guest.up PROVE NothingBefore'
  BY <1>1, <1>4 DEF NothingBefore
<1>5. CASE OperatorStep
  BY <1>2, <1>5, OperatorIs
<1>6. CASE UNCHANGED vars
  BY <1>2, <1>6, StutterIs
<1>7. CASE AgentWorks
  <2>1. PICK n : n = NewId
    OBVIOUS
  <2> QED BY <1>0, <1>4, <1>7, <2>1, AgentWorksIs
<1>8. CASE AgentPushes
  BY <1>0, <1>4, <1>8, AgentPushesIs
<1>9. CASE GuestStops \/ Redelivers
  <2>1. /\ past' = past /\ (guest'.up => guest.up) /\ guest'.up \in BOOLEAN
        /\ UNCHANGED <<mirror, bookmark, launch>>
    BY <1>0, <1>9, TalksIs
  <2> QED BY <1>1, <2>1 DEF NothingBefore
<1>10. CASE Looks \/ Judges
  BY <1>0, <1>2, <1>10, LooksIs, JudgesIs
<1>11. CASE Pulls
  <2>1. /\ bookmark' = bookmark \/ mirror.branch # 0
        /\ UNCHANGED <<mirror, guest, launch, past>>
    BY <1>0, <1>11, PullsIs
  <2> QED BY <1>1, <1>2, <2>1
<1>12. CASE Delivers
  <2>1. PICK c \in Commits : mirror' = [mirror EXCEPT !.delivered = c]
    BY <1>0, <1>12, DeliversIs
  <2>2. mirror'.branch = mirror.branch
    BY <1>0, <2>1 DEF MirrorState
  <2> QED BY <1>0, <1>2, <1>12, <2>2, DeliversIs
<1> QED BY <1>3, <1>5, <1>6, <1>7, <1>8, <1>9, <1>10, <1>11, <1>12 DEF Next

\* What a launch has seen stays what it was, or it sees now, before there is
\* an instance.
SeesNow(q) == ~past.minted /\ Strays = {} /\ q.seen = AgentCommits(host.head)
SightStep ==
  /\ earlier' = earlier
  /\ \A l \in Launches : launch'[l].guarded =>
       \/ launch[l].guarded /\ launch'[l].seen = launch[l].seen
       \/ SeesNow(launch'[l])

LEMMA SightsMove ==
  ASSUME Types, [Next]_vars
  PROVE  SightStep
<1>0. WorkProductTypeOK /\ (\A l \in Launches : Plan(launch[l])) /\ (guest.up => guest.clone # 0)
  BY DEF Types, Plans
<1>1. earlier' = earlier /\ launch' = launch => SightStep
  BY DEF SightStep
<1>2. ASSUME NEW l \in Launches, LaunchStep(l) PROVE SightStep
  <2>1. ASSUME Others(l), earlier' = earlier,
               launch'[l].guarded => \/ launch[l].guarded /\ launch'[l].seen = launch[l].seen
                                     \/ SeesNow(launch'[l])
        PROVE  SightStep
    BY <2>1 DEF SightStep, Others
  <2>2. ASSUME Decides(l) PROVE SightStep
    BY <2>1, <2>2 DEF Decides, Others
  <2>3. ASSUME Others(l), earlier' = earlier, SameSight(l) PROVE SightStep
    BY <2>1, <2>3 DEF SameSight
  <2>4. ASSUME NEW b \in BOOLEAN, Guards(l, b) \/ Starts(l, b) PROVE SightStep
    BY <1>0, <2>1, <2>4, EnlistsIs DEF SeesNow
  <2>5. CASE Claims(l)
    BY <1>0, <2>3, <2>5, ClaimsIs
  <2>6. CASE Resumes(l)
    BY <1>0, <2>2, <2>6, ResumesIs
  <2>7. CASE SnapshotFails(l)
    BY <1>0, <2>2, <2>7, SnapshotFailsIs DEF Seeds
  <2>8. ASSUME NEW probe \in {"absent", "failed"}, SeedsHead(l, probe) PROVE SightStep
    BY <1>0, <2>2, <2>8, SeedsHeadIs DEF Seeds
  <2>9. ASSUME NEW probe \in {"absent", "failed"}, Snapshots(l, probe) PROVE SightStep
    <3>1. PICK n, agent : n = NewId /\ agent = FALSE
      OBVIOUS
    <3>2. PICK pc : Seeds(l, pc, n, "tree")
      BY <1>0, <2>9, <3>1, SnapshotsIs
    <3> QED BY <2>2, <3>2 DEF Seeds
  <2>10. CASE Strips(l) \/ StripFails(l)
    <3>1. PICK n : n = NewId
      OBVIOUS
    <3> QED BY <1>0, <2>3, <2>10, <3>1, StripsIs
  <2>11. CASE Records(l)
    BY <1>0, <2>1, <2>11, RecordsIs DEF NoSight
  <2>12. CASE Emits(l)
    BY <1>0, <2>3, <2>12, EmitsIs
  <2>13. CASE Clones(l)
    BY <1>0, <2>3, <2>13, ClonesIs
  <2>14. CASE PushesSeed(l)
    BY <1>0, <2>3, <2>14, PushesSeedIs
  <2>15. CASE PushesBase(l)
    BY <1>0, <2>3, <2>15, PushesBaseIs
  <2>16. CASE Boots(l)
    <3>1. PICK n : n = NewId
      OBVIOUS
    <3> QED BY <1>0, <2>1, <2>16, <3>1, BootsIs DEF Ended
  <2>17. CASE Dies(l) \/ Joins(l)
    BY <1>0, <2>1, <2>17, DiesIs, JoinsIs DEF Ended
  <2> QED BY <1>2, <2>4, <2>5, <2>6, <2>7, <2>8, <2>9, <2>10, <2>11, <2>12, <2>13, <2>14, <2>15,
             <2>16, <2>17 DEF LaunchStep
<1>3. CASE OperatorStep
  BY <1>1, <1>3, OperatorIs
<1>4. CASE UNCHANGED vars
  BY <1>1, <1>4, StutterIs
<1>5. CASE AgentWorks
  <2>1. PICK n : n = NewId
    OBVIOUS
  <2> QED BY <1>0, <1>1, <1>5, <2>1, AgentWorksIs
<1>6. CASE AgentPushes \/ GuestStops \/ Redelivers \/ Looks \/ Pulls \/ Judges \/ Delivers
  BY <1>0, <1>1, <1>6, AgentPushesIs, TalksIs, LooksIs, PullsIs, JudgesIs, DeliversIs
<1> QED BY <1>2, <1>3, <1>4, <1>5, <1>6 DEF Next

LEMMA GuardsSawEarlier ==
  ASSUME Types, NothingBefore, GuardedSaw, Advances, SightStep
  PROVE  GuardedSaw'
<1>1. earlier # 0 => earlier \in Commits /\ From(earlier)' = From(earlier)
  <2>1. earlier \in 0..Len(log) /\ Len(log) \in Nat
    BY CommitsAreTyped DEF Types, WorkProductTypeOK
  <2>2. \A c \in Commits : From(c)' = From(c)
    BY HeadKeeps
  <2>3. earlier # 0 => earlier \in Commits
    BY <2>1 DEF Commits
  <2>4. earlier' = earlier
    BY DEF SightStep
  <2> QED BY <2>2, <2>3, <2>4 DEF From
<1>2. UNION {From(b)' : b \in {earlier'} \ {0}} = UNION {From(b) : b \in {earlier} \ {0}}
  BY <1>1 DEF SightStep, From
<1>3. ASSUME NEW l \in Launches, launch'[l].guarded
      PROVE  launch'[l].seen \subseteq UNION {From(b) : b \in {earlier} \ {0}}
  <2>1. CASE launch[l].guarded /\ launch'[l].seen = launch[l].seen
    BY <2>1 DEF GuardedSaw
  <2>2. CASE SeesNow(launch'[l])
    <3>1. Bookmarks = {earlier} \ {0}
      BY <2>2 DEF SeesNow, NothingBefore, Bookmarks
    <3>2. launch'[l].seen \subseteq Frozen
      BY <2>2 DEF SeesNow, Strays
    <3> QED BY <3>1, <3>2 DEF Frozen
  <2> QED BY <1>3, <2>1, <2>2 DEF SightStep
<1> QED BY <1>2, <1>3 DEF GuardedSaw

-----------------------------------------------------------------------------
(* The texts of sessions are in the directive.                             *)

Telling(q) == q.prompted /\ q.pc \in Late \ {"recorded"}
KeptNow(l) == directive' # "none" /\ (l = directive' \/ l \in past'.replaced)
TextStep ==
  /\ \A l : KeptText(l) => KeptNow(l)
  /\ \A l \in Launches : Telling(launch'[l]) => Telling(launch[l]) \/ KeptNow(l)
  /\ guest'.told # "none" => \/ guest'.told = guest.told
                             \/ directive # "none" /\ guest'.told = directive
                             \/ \E l \in Launches : guest'.told = l /\ Telling(launch[l])

LEMMA TextsMove ==
  ASSUME Types, [Next]_vars
  PROVE  TextStep
<1>0. /\ WorkProductTypeOK /\ (\A l \in Launches : Plan(launch[l])) /\ (guest.up => guest.clone # 0)
      /\ guest \in GuestState /\ past \in Past /\ "none" \notin Launches
  BY ScenesAreTyped DEF Types, Plans, WorkProductTypeOK, GuestState
<1>1. SameKept /\ guest'.told = guest.told /\ launch' = launch => TextStep
  BY DEF TextStep, SameKept, KeptText, KeptNow
<1>2. ASSUME NEW l \in Launches, LaunchStep(l) PROVE TextStep
  <2>1. ASSUME Others(l), SameKept, guest' = guest, Telling(launch'[l]) => Telling(launch[l])
        PROVE  TextStep
    BY <2>1 DEF TextStep, Others, SameKept, KeptText, KeptNow
  <2>2. ASSUME Others(l), SameKept, guest' = guest,
               launch'[l].pc \in (Pcs \ Late) \cup {"recorded"}
        PROVE  TextStep
    BY <2>1, <2>2 DEF Telling, Late
  <2>3. ASSUME Decides(l), past'.replaced = past.replaced, launch'[l].pc \in {"snapped", "planned"}
        PROVE  TextStep
    BY <2>2, <2>3 DEF Decides, Others, Late, Pcs, SameKept
  <2>4. ASSUME NEW b \in BOOLEAN, Guards(l, b) \/ Starts(l, b) PROVE TextStep
    BY <1>0, <2>2, <2>4, EnlistsIs DEF Late, Pcs, SameKept
  <2>5. CASE Claims(l)
    BY <1>0, <2>2, <2>5, ClaimsIs DEF Late, Pcs, SameKept
  <2>6. CASE Resumes(l)
    BY <1>0, <2>3, <2>6, ResumesIs
  <2>7. CASE SnapshotFails(l)
    BY <1>0, <2>3, <2>7, SnapshotFailsIs DEF Seeds
  <2>8. ASSUME NEW probe \in {"absent", "failed"}, SeedsHead(l, probe) PROVE TextStep
    BY <1>0, <2>3, <2>8, SeedsHeadIs DEF Seeds
  <2>9. ASSUME NEW probe \in {"absent", "failed"}, Snapshots(l, probe) PROVE TextStep
    <3>1. PICK n, agent : n = NewId /\ agent = FALSE
      OBVIOUS
    <3>2. PICK pc \in {"snapped", "planned"} :
            /\ Seeds(l, pc, n, "tree")
            /\ past' = [past EXCEPT !.loose = past.loose \/ ~launch[l].dispatched]
      BY <1>0, <2>9, <3>1, SnapshotsIs
    <3>3. past'.replaced = past.replaced
      BY <1>0, <3>2 DEF Past
    <3> QED BY <2>3, <3>2, <3>3 DEF Seeds
  <2>10. CASE Strips(l) \/ StripFails(l)
    <3>1. PICK n : n = NewId
      OBVIOUS
    <3> QED BY <1>0, <2>2, <2>10, <3>1, StripsIs DEF Late, Pcs, SameKept
  <2>11. CASE Records(l)
    BY <1>0, <2>2, <2>11, RecordsIs DEF Late, Pcs, SameKept
  <2>12. CASE Emits(l)
    <3>1. /\ Others(l) /\ SameText(l) /\ guest' = guest /\ launch[l].pc = "recorded"
          /\ launch[l].prompted => Keeps(l)
          /\ ~launch[l].prompted => SameKept
      BY <1>0, <2>12, EmitsIs
    <3>2. CASE launch[l].prompted
      <4>1. Keeps(l) /\ l # "none"
        BY <1>0, <3>1, <3>2
      <4>2. KeptNow(l) /\ \A k : KeptText(k) => KeptNow(k)
        BY <4>1 DEF Keeps, KeptText, KeptNow
      <4> QED BY <3>1, <4>2 DEF TextStep, Others
    <3>3. CASE ~launch[l].prompted
      BY <2>1, <3>1, <3>3 DEF Telling, SameText
    <3> QED BY <3>2, <3>3
  <2>13. CASE Clones(l)
    BY <1>0, <2>1, <2>13, ClonesIs DEF Telling, SameText, Late, SameKept
  <2>14. CASE PushesSeed(l)
    <3>1. /\ Others(l) /\ launch[l].pc = "seeding" /\ SameText(l)
          /\ past' = [past EXCEPT !.pushes = "none"] \/ past' = past
          /\ UNCHANGED <<guest, directive>>
      BY <1>0, <2>14, PushesSeedIs
    <3>2. SameKept
      BY <1>0, <3>1 DEF SameKept, Past
    <3> QED BY <2>1, <3>1, <3>2 DEF Telling, SameText, Late
  <2>15. CASE PushesBase(l)
    BY <1>0, <2>1, <2>15, PushesBaseIs DEF Telling, SameText, Late, SameKept
  <2>16. ASSUME Others(l), launch[l].pc = "booting", Ended(launch'[l]), SameKept,
                launch[l].prompted => guest'.told = l,
                ~launch[l].prompted => guest'.told \in {"none", guest.told}
         PROVE  TextStep
    <3>1. ~Telling(launch'[l]) /\ (launch[l].prompted => Telling(launch[l]))
      BY <2>16 DEF Telling, Late, Ended
    <3> QED BY <2>16, <3>1 DEF TextStep, Others, SameKept, KeptText, KeptNow
  <2>17. CASE Boots(l)
    <3>1. PICK n : n = NewId
      OBVIOUS
    <3> QED BY <1>0, <2>16, <2>17, <3>1, BootsIs DEF SameKept
  <2>18. CASE Joins(l)
    BY <1>0, <2>16, <2>18, JoinsIs DEF SameKept
  <2>19. CASE Dies(l)
    BY <1>0, <2>1, <2>19, DiesIs DEF Ended, Telling, SameKept
  <2> QED BY <1>2, <2>4, <2>5, <2>6, <2>7, <2>8, <2>9, <2>10, <2>11, <2>12, <2>13, <2>14, <2>15,
             <2>17, <2>18, <2>19 DEF LaunchStep
<1>3. CASE OperatorStep
  BY <1>1, <1>3, OperatorIs DEF SameKept
<1>4. CASE UNCHANGED vars
  BY <1>1, <1>4, StutterIs DEF SameKept
<1>5. CASE AgentWorks
  <2>1. PICK n : n = NewId
    OBVIOUS
  <2>2. guest' = [guest EXCEPT !.clone = n] /\ SameKept /\ launch' = launch
    BY <1>0, <1>5, <2>1, AgentWorksIs DEF SameKept
  <2>3. guest'.told = guest.told
    BY <1>0, <2>2 DEF GuestState
  <2> QED BY <1>1, <2>2, <2>3
<1>6. CASE GuestStops \/ Redelivers
  BY <1>0, <1>6, TalksIs DEF TextStep, KeptText, KeptNow
<1>7. CASE AgentPushes \/ Looks \/ Pulls \/ Judges \/ Delivers
  BY <1>0, <1>1, <1>7, AgentPushesIs, LooksIs, PullsIs, JudgesIs, DeliversIs
     DEF SameKept
<1> QED BY <1>2, <1>3, <1>4, <1>5, <1>6, <1>7 DEF Next

LEMMA TextStaysKept ==
  ASSUME TextIsKept, TextStep
  PROVE  TextIsKept'
<1>1. \A l \in Launches : Telling(launch[l]) => KeptText(l)
  BY DEF TextIsKept, Telling
<1>2. guest.told # "none" => KeptText(guest.told)
  BY DEF TextIsKept, DirectiveOutlivesTheLaunch, KeptText
<1>3. \A l \in Launches : Telling(launch'[l]) => KeptNow(l)
  BY <1>1 DEF TextStep
<1>4. guest'.told # "none" => KeptNow(guest'.told)
  <2>1. directive # "none" => KeptText(directive)
    BY DEF KeptText
  <2> QED BY <1>1, <1>2, <2>1 DEF TextStep
<1> QED BY <1>3, <1>4 DEF TextIsKept, Telling, DirectiveOutlivesTheLaunch, KeptNow, KeptText

-----------------------------------------------------------------------------
(* A fetch, from its look to its verdict.                                  *)

\* What the fetch and its bookmark do, and who moves them.
LookStep ==
  fetch'.pc = "looked" =>
    /\ bookmark' = bookmark
    /\ \/ fetch' = fetch
       \/ fetch'.head = host.head /\ (~fetch'.blind => ~HasHostWorkOnTop)

FetchStands == bookmark' = bookmark /\ fetch' = fetch

LEMMA FetchesMove ==
  ASSUME Types, [Next]_vars
  PROVE  FetchStands \/ Looks \/ Pulls \/ Judges
<1>0. WorkProductTypeOK /\ (\A l \in Launches : Plan(launch[l])) /\ (guest.up => guest.clone # 0)
  BY DEF Types, Plans
<1>1. ASSUME NEW l \in Launches, LaunchStep(l) PROVE FetchStands
  <2>1. ASSUME Decides(l) PROVE FetchStands
    BY <2>1 DEF Decides, FetchStands
  <2>2. ASSUME NEW probe \in {"absent", "failed"}, Snapshots(l, probe) PROVE FetchStands
    <3>1. PICK n, agent : n = NewId /\ agent = FALSE
      OBVIOUS
    <3>2. PICK pc : Seeds(l, pc, n, "tree")
      BY <1>0, <2>2, <3>1, SnapshotsIs
    <3> QED BY <2>1, <3>2 DEF Seeds
  <2>3. ASSUME NEW probe \in {"absent", "failed"}, SeedsHead(l, probe) PROVE FetchStands
    BY <1>0, <2>1, <2>3, SeedsHeadIs DEF Seeds
  <2>4. CASE Resumes(l) \/ SnapshotFails(l)
    BY <1>0, <2>1, <2>4, ResumesIs, SnapshotFailsIs DEF Seeds
  <2>5. ASSUME NEW b \in BOOLEAN, Guards(l, b) \/ Starts(l, b) PROVE FetchStands
    BY <1>0, <2>5, EnlistsIs DEF FetchStands
  <2>6. CASE Strips(l) \/ StripFails(l) \/ Boots(l)
    <3>1. PICK n : n = NewId
      OBVIOUS
    <3> QED BY <1>0, <2>6, <3>1, StripsIs, BootsIs DEF FetchStands
  <2>7. CASE Claims(l) \/ Records(l) \/ Emits(l)
    BY <1>0, <2>7, ClaimsIs, RecordsIs, EmitsIs DEF FetchStands
  <2>8. CASE Clones(l) \/ PushesSeed(l) \/ PushesBase(l) \/ Joins(l) \/ Dies(l)
    BY <1>0, <2>8, ClonesIs, PushesSeedIs, PushesBaseIs, JoinsIs, DiesIs DEF FetchStands
  <2> QED BY <1>1, <2>2, <2>3, <2>4, <2>5, <2>6, <2>7, <2>8 DEF LaunchStep
<1>2. CASE OperatorStep \/ UNCHANGED vars
  BY <1>2, OperatorIs, StutterIs DEF FetchStands
<1>3. CASE AgentWorks
  <2>1. PICK n : n = NewId
    OBVIOUS
  <2> QED BY <1>0, <1>3, <2>1, AgentWorksIs DEF FetchStands
<1>4. CASE AgentPushes \/ GuestStops \/ Redelivers \/ Delivers
  BY <1>0, <1>4, AgentPushesIs, TalksIs, DeliversIs DEF FetchStands
<1> QED BY <1>1, <1>2, <1>3, <1>4 DEF Next

LEMMA LooksStayFirst ==
  ASSUME Types, LookedFirst, Advances, [Next]_vars
  PROVE  LookedFirst'
<1>0. WorkProductTypeOK
  BY DEF Types
<1>1. LookStep
  BY <1>0, FetchesMove, LooksIs, PullsIs, JudgesIs DEF FetchStands, LookStep
<1>2. SUFFICES ASSUME fetch'.pc = "looked", ~fetch'.blind
               PROVE  ~(/\ bookmark # 0 /\ fetch'.head # bookmark
                        /\ bookmark \in log'[fetch'.head].from)
  BY <1>1 DEF LookedFirst, LookStep, Descends, From
<1>3. host.head \in Commits /\ \A c \in Commits : log'[c] = log[c]
  BY HeadKeeps
<1>4. CASE fetch' = fetch
  <2>1. fetch.head \in Commits
    <3>1. fetch.head \in Nat /\ fetch.head <= Len(log) /\ fetch.head # 0 /\ Len(log) \in Nat
      BY <1>0, <1>2, <1>4, CommitsAreTyped DEF Types, WorkProductTypeOK, Fetching
    <3> QED BY <3>1 DEF Commits
  <2> QED BY <1>2, <1>3, <1>4, <2>1 DEF LookedFirst, Descends, From
<1>5. CASE fetch'.head = host.head /\ ~HasHostWorkOnTop
  BY <1>3, <1>5 DEF HasHostWorkOnTop, Descends, From
<1> QED BY <1>1, <1>2, <1>4, <1>5 DEF LookStep

-----------------------------------------------------------------------------
(* Launches that overlap no other.                                         *)

\* A launch enlists or claims, decides, strips its seed, or is past that.
PcMove(l) ==
  /\ Others(l)
  /\ \/ launch[l].pc \in AtRest /\ launch'[l].pc \in AtRest
     \/ ~Locked /\ launch'[l].pc \in {"snapped", "planned"} /\ (launch'[l].alone => Quiet)
     \/ /\ launch[l].pc = "snapped" /\ launch'[l].pc = "planned"
        /\ launch'[l].alone = launch[l].alone
     \/ launch[l].pc \notin AtRest /\ launch'[l].pc \notin {"snapped", "planned"}

LEMMA LaunchesMove ==
  ASSUME Types, [Next]_vars
  PROVE  launch' = launch \/ \E l \in Launches : PcMove(l)
<1>0. WorkProductTypeOK /\ (\A l \in Launches : Plan(launch[l])) /\ (guest.up => guest.clone # 0)
  BY DEF Types, Plans
<1>1. ASSUME NEW l \in Launches, LaunchStep(l) PROVE PcMove(l)
  <2>1. ASSUME Decides(l), launch'[l].pc \in {"snapped", "planned"} PROVE PcMove(l)
    BY <2>1 DEF Decides, Others, PcMove
  <2>2. ASSUME Others(l), launch[l].pc \notin AtRest, launch'[l].pc \notin {"snapped", "planned"}
        PROVE  PcMove(l)
    BY <2>2 DEF PcMove
  <2>3. ASSUME NEW b \in BOOLEAN, Guards(l, b) \/ Starts(l, b) PROVE PcMove(l)
    BY <1>0, <2>3, EnlistsIs DEF PcMove, AtRest
  <2>4. CASE Claims(l)
    BY <1>0, <2>4, ClaimsIs DEF PcMove, AtRest
  <2>5. CASE Resumes(l)
    BY <1>0, <2>1, <2>5, ResumesIs
  <2>6. CASE SnapshotFails(l)
    BY <1>0, <2>1, <2>6, SnapshotFailsIs DEF Seeds
  <2>7. ASSUME NEW probe \in {"absent", "failed"}, SeedsHead(l, probe) PROVE PcMove(l)
    BY <1>0, <2>1, <2>7, SeedsHeadIs DEF Seeds
  <2>8. ASSUME NEW probe \in {"absent", "failed"}, Snapshots(l, probe) PROVE PcMove(l)
    <3>1. PICK n, agent : n = NewId /\ agent = FALSE
      OBVIOUS
    <3>2. PICK pc \in {"snapped", "planned"} : Seeds(l, pc, n, "tree")
      BY <1>0, <2>8, <3>1, SnapshotsIs
    <3> QED BY <2>1, <3>2 DEF Seeds
  <2>9. CASE Strips(l) \/ StripFails(l)
    <3>1. PICK n : n = NewId
      OBVIOUS
    <3> QED BY <1>0, <2>9, <3>1, StripsIs DEF PcMove, SameSight
  <2>10. CASE Records(l) \/ Emits(l) \/ Clones(l)
    BY <1>0, <2>2, <2>10, RecordsIs, EmitsIs, ClonesIs DEF AtRest
  <2>11. CASE PushesSeed(l) \/ PushesBase(l) \/ Joins(l) \/ Dies(l)
    BY <1>0, <2>2, <2>11, PushesSeedIs, PushesBaseIs, JoinsIs, DiesIs DEF AtRest, Late, Ended
  <2>12. CASE Boots(l)
    <3>1. PICK n : n = NewId
      OBVIOUS
    <3> QED BY <1>0, <2>2, <2>12, <3>1, BootsIs DEF AtRest, Ended
  <2> QED BY <1>1, <2>3, <2>4, <2>5, <2>6, <2>7, <2>8, <2>9, <2>10, <2>11, <2>12 DEF LaunchStep
<1>2. CASE OperatorStep \/ UNCHANGED vars
  BY <1>2, OperatorIs, StutterIs
<1>3. CASE AgentWorks
  <2>1. PICK n : n = NewId
    OBVIOUS
  <2> QED BY <1>0, <1>3, <2>1, AgentWorksIs
<1>4. CASE AgentPushes \/ GuestStops \/ Redelivers \/ Looks \/ Pulls \/ Judges \/ Delivers
  BY <1>0, <1>4, AgentPushesIs, TalksIs, LooksIs, PullsIs, JudgesIs, DeliversIs
<1> QED BY <1>1, <1>2, <1>3, <1>4 DEF Next

LEMMA DecidingStaysAlone ==
  ASSUME Types, AloneWhileDeciding, [Next]_vars
  PROVE  AloneWhileDeciding'
<1>1. CASE launch' = launch
  BY <1>1 DEF AloneWhileDeciding
<1>2. ASSUME NEW m \in Launches, PcMove(m) PROVE AloneWhileDeciding'
  <2>1. SUFFICES ASSUME NEW l \in Launches, NEW k \in Launches, k # l,
                        launch'[l].pc \in {"snapped", "planned"}, launch'[l].alone
                 PROVE  launch'[k].pc \in AtRest
    BY DEF AloneWhileDeciding
  <2>2. \A i \in Launches : i # m => launch'[i] = launch[i]
    BY <1>2 DEF PcMove, Others
  <2>3. CASE l # m
    <3>1. launch[l].pc \in {"snapped", "planned"} /\ launch[k].pc \in AtRest
      BY <2>1, <2>2, <2>3 DEF AloneWhileDeciding
    <3>2. Locked
      BY <3>1 DEF Locked
    <3> QED BY <1>2, <2>2, <3>1, <3>2 DEF PcMove, AtRest
  <2>4. CASE l = m
    <3>1. CASE launch'[l].alone => Quiet
      BY <2>1, <2>2, <2>4, <3>1 DEF Quiet, AtRest
    <3>2. CASE launch[l].pc = "snapped" /\ launch'[l].alone = launch[l].alone
      BY <2>1, <2>2, <2>4, <3>2 DEF AloneWhileDeciding
    <3> QED BY <1>2, <2>1, <2>4, <3>1, <3>2 DEF PcMove, AtRest
  <2> QED BY <2>3, <2>4
<1> QED BY <1>1, <1>2, LaunchesMove

LEMMA OneStaysAtATime ==
  ASSUME Types, AloneWhileDeciding, OneAtATime, [Next]_vars
  PROVE  OneAtATime'
<1>0. /\ WorkProductTypeOK /\ (\A l \in Launches : Plan(launch[l])) /\ (guest.up => guest.clone # 0)
      /\ mirror \in MirrorState /\ past \in Past
  BY DEF Types, Plans, WorkProductTypeOK, MirrorState
<1>1. ASSUME UNCHANGED <<launch, record>>, past'.muddled = past.muddled,
             \/ mirror'.branch = mirror.branch /\ past'.pushes = past.pushes
             \/ past'.pushes = "none" <=> mirror'.branch = record'
      PROVE  OneAtATime'
  BY <1>1 DEF OneAtATime, Unseeded
<1>2. ASSUME NEW l \in Launches, LaunchStep(l) PROVE OneAtATime'
  <2>1. ASSUME Others(l), record' = record, mirror'.branch = mirror.branch, past'.pushes = past.pushes,
               ~past'.muddled => ~past.muddled, launch'[l].pc \in Late => launch[l].pc \in Late,
               Unseeded(l)' <=> Unseeded(l), Unseeded(l) => SameSeed(l)
        PROVE  OneAtATime'
    <3> SUFFICES ASSUME ~past'.muddled PROVE
          /\ \A i, k \in Launches : launch'[i].pc \in Late /\ launch'[k].pc \in Late => i = k
          /\ \A i \in Launches : Unseeded(i)' => record' = launch'[i].seed
          /\ (\A i \in Launches : Unseeded(i)' => ~launch'[i].fresh) =>
               (mirror'.branch = record' <=> past'.pushes = "none")
      BY DEF OneAtATime
    <3>1. /\ \A i, k \in Launches : launch[i].pc \in Late /\ launch[k].pc \in Late => i = k
          /\ \A i \in Launches : Unseeded(i) => record = launch[i].seed
          /\ (\A i \in Launches : Unseeded(i) => ~launch[i].fresh) =>
               (mirror.branch = record <=> past.pushes = "none")
      BY <2>1 DEF OneAtATime
    <3>2. \A i \in Launches : /\ launch'[i].pc \in Late => launch[i].pc \in Late
                              /\ Unseeded(i)' <=> Unseeded(i)
                              /\ Unseeded(i) => SameSeed(i)
      BY <2>1 DEF Others, Unseeded, SameSeed
    <3> QED BY <2>1, <3>1, <3>2 DEF SameSeed
  <2>2. ASSUME Others(l), record' = record, mirror' = mirror, past'.pushes = past.pushes,
               ~past'.muddled => ~past.muddled, launch[l].pc \notin Late, launch'[l].pc \notin Late
        PROVE  OneAtATime'
    BY <2>1, <2>2 DEF Late, Unseeded
  <2>3. ASSUME Decides(l), launch'[l].pc \in {"snapped", "planned"},
               past'.pushes = past.pushes, past'.muddled = past.muddled
        PROVE  OneAtATime'
    BY <2>2, <2>3 DEF Decides, Others, Late
  <2>4. ASSUME NEW b \in BOOLEAN, Guards(l, b) \/ Starts(l, b) PROVE OneAtATime'
    BY <1>0, <2>2, <2>4, EnlistsIs DEF Late
  <2>5. CASE Claims(l)
    BY <1>0, <2>2, <2>5, ClaimsIs DEF Late
  <2>6. CASE Resumes(l)
    BY <1>0, <2>3, <2>6, ResumesIs
  <2>7. CASE SnapshotFails(l)
    BY <1>0, <2>3, <2>7, SnapshotFailsIs DEF Seeds
  <2>8. ASSUME NEW probe \in {"absent", "failed"}, SeedsHead(l, probe) PROVE OneAtATime'
    BY <1>0, <2>3, <2>8, SeedsHeadIs DEF Seeds
  <2>9. ASSUME NEW probe \in {"absent", "failed"}, Snapshots(l, probe) PROVE OneAtATime'
    <3>1. PICK n, agent : n = NewId /\ agent = FALSE
      OBVIOUS
    <3>2. PICK pc \in {"snapped", "planned"} :
            /\ Seeds(l, pc, n, "tree")
            /\ past' = [past EXCEPT !.loose = past.loose \/ ~launch[l].dispatched]
      BY <1>0, <2>9, <3>1, SnapshotsIs
    <3>3. past'.pushes = past.pushes /\ past'.muddled = past.muddled
      BY <1>0, <3>2 DEF Past
    <3> QED BY <2>3, <3>2, <3>3 DEF Seeds
  <2>10. CASE Strips(l) \/ StripFails(l)
    <3>1. PICK n : n = NewId
      OBVIOUS
    <3> QED BY <1>0, <2>2, <2>10, <3>1, StripsIs DEF Late
  <2>11. CASE Records(l)
    <3>1. /\ Others(l) /\ launch[l].pc = "planned" /\ launch'[l].pc = "recorded" /\ SameSeed(l)
          /\ record' = launch[l].seed /\ mirror' = mirror
          /\ ~past'.muddled => launch[l].alone
          /\ ~launch[l].fresh => (past'.pushes = "none" <=> mirror.branch = launch[l].seed)
      BY <1>0, <2>11, RecordsIs
    <3>2. ASSUME ~past'.muddled, NEW k \in Launches, k # l
          PROVE  launch'[k].pc \notin Late
      BY <3>1, <3>2 DEF AloneWhileDeciding, Others, AtRest, Late
    <3>3. Unseeded(l)'
      BY <3>1 DEF Unseeded
    <3> QED BY <3>1, <3>2, <3>3 DEF OneAtATime, Unseeded, SameSeed, Late
  <2>12. CASE Emits(l)
    BY <1>0, <2>1, <2>12, EmitsIs DEF Late, Unseeded, SamePast
  <2>13. CASE Clones(l)
    <3>1. /\ Others(l) /\ launch[l].pc = "cloning" /\ launch'[l].pc = "seeding" /\ SameSeed(l)
          /\ mirror' = [mirror EXCEPT !.there = TRUE] /\ record' = record /\ past' = past
      BY <1>0, <2>13, ClonesIs
    <3>2. mirror'.branch = mirror.branch
      BY <1>0, <3>1 DEF MirrorState
    <3> QED BY <2>1, <3>1, <3>2 DEF Late, Unseeded
  <2>14. CASE PushesSeed(l)
    <3>1. /\ Others(l) /\ launch[l].pc = "seeding" /\ launch'[l].pc = "basing" /\ record' = record
          /\ launch[l].fresh => /\ mirror' = [mirror EXCEPT !.branch = launch[l].seed]
                                /\ past' = [past EXCEPT !.pushes = "none"]
          /\ ~launch[l].fresh => mirror' = mirror /\ past' = past
      BY <1>0, <2>14, PushesSeedIs
    <3>2. /\ past'.muddled = past.muddled
          /\ launch[l].fresh => mirror'.branch = launch[l].seed /\ past'.pushes = "none"
          /\ ~launch[l].fresh => mirror'.branch = mirror.branch /\ past'.pushes = past.pushes
      BY <1>0, <3>1 DEF MirrorState, Past
    <3>3. SUFFICES ASSUME ~past'.muddled PROVE
          /\ \A i, k \in Launches : launch'[i].pc \in Late /\ launch'[k].pc \in Late => i = k
          /\ \A i \in Launches : Unseeded(i)' => record' = launch'[i].seed
          /\ mirror'.branch = record' <=> past'.pushes = "none"
      BY DEF OneAtATime
    <3>4. /\ \A i, k \in Launches : launch[i].pc \in Late /\ launch[k].pc \in Late => i = k
          /\ \A i \in Launches : Unseeded(i) => record = launch[i].seed
          /\ (\A i \in Launches : Unseeded(i) => ~launch[i].fresh) =>
               (mirror.branch = record <=> past.pushes = "none")
      BY <3>2, <3>3 DEF OneAtATime
    <3>5. \A i \in Launches : i # l => launch'[i] = launch[i] /\ launch[i].pc \notin Late
      BY <3>1, <3>4 DEF Others, Late
    <3>6. Unseeded(l) /\ \A i \in Launches : ~Unseeded(i)' /\ (Unseeded(i) => i = l)
      BY <3>1, <3>5 DEF Unseeded, Late
    <3> QED BY <3>1, <3>2, <3>4, <3>5, <3>6
  <2>15. CASE PushesBase(l)
    <3>1. /\ Others(l) /\ launch[l].pc = "basing" /\ launch'[l].pc = "booting"
          /\ mirror' = [mirror EXCEPT !.base = launch[l].base] \/ mirror' = mirror
          /\ record' = record /\ past' = past
      BY <1>0, <2>15, PushesBaseIs
    <3>2. mirror'.branch = mirror.branch
      BY <1>0, <3>1 DEF MirrorState
    <3> QED BY <2>1, <3>1, <3>2 DEF Late, Unseeded
  <2>16. CASE Boots(l)
    <3>1. PICK n : n = NewId
      OBVIOUS
    <3> QED BY <1>0, <2>1, <2>16, <3>1, BootsIs DEF Late, Unseeded, Ended, SamePast
  <2>17. CASE Dies(l)
    <3>1. /\ Others(l) /\ Ended(launch'[l]) /\ past'.pushes = past.pushes
          /\ ~past'.muddled => ~past.muddled /\ ~Unseeded(l)
          /\ UNCHANGED <<mirror, record>>
      BY <1>0, <2>17, DiesIs
    <3>2. CASE past'.muddled
      BY <3>2 DEF OneAtATime
    <3>3. CASE ~past'.muddled
      BY <2>1, <3>1, <3>3 DEF Late, Unseeded, Ended
    <3> QED BY <3>2, <3>3
  <2>18. CASE Joins(l)
    BY <1>0, <2>1, <2>18, JoinsIs DEF Late, Unseeded, Ended
  <2> QED BY <1>2, <2>4, <2>5, <2>6, <2>7, <2>8, <2>9, <2>10, <2>11, <2>12, <2>13, <2>14, <2>15,
             <2>16, <2>17, <2>18 DEF LaunchStep
<1>3. CASE OperatorStep \/ UNCHANGED vars
  BY <1>1, <1>3, OperatorIs, StutterIs
<1>4. CASE AgentWorks
  <2>1. PICK n : n = NewId
    OBVIOUS
  <2> QED BY <1>0, <1>1, <1>4, <2>1, AgentWorksIs
<1>5. CASE AgentPushes
  <2>1. /\ mirror' = [mirror EXCEPT !.branch = guest.clone] /\ past'.muddled = past.muddled
        /\ past'.pushes = "none" <=> guest.clone = record
        /\ UNCHANGED <<record, launch>>
    BY <1>0, <1>5, AgentPushesIs
  <2>2. mirror'.branch = guest.clone
    BY <1>0, <2>1 DEF MirrorState
  <2> QED BY <1>1, <2>1, <2>2
<1>6. CASE GuestStops \/ Redelivers \/ Looks \/ Pulls \/ Judges
  BY <1>0, <1>1, <1>6, TalksIs, LooksIs, PullsIs, JudgesIs
<1>7. CASE Delivers
  <2>1. PICK c \in Commits : mirror' = [mirror EXCEPT !.delivered = c]
    BY <1>0, <1>7, DeliversIs
  <2>2. mirror'.branch = mirror.branch
    BY <1>0, <2>1 DEF MirrorState
  <2> QED BY <1>0, <1>1, <1>7, <2>2, DeliversIs
<1> QED BY <1>2, <1>3, <1>4, <1>5, <1>6, <1>7 DEF Next

LEMMA VerdictsFollow ==
  ASSUME Types, OneAtATime, VerdictFollows, [Next]_vars
  PROVE  VerdictFollows'
<1>0. WorkProductTypeOK /\ past \in Past
  BY DEF Types, WorkProductTypeOK
<1>1. CASE FetchStands
  BY <1>1 DEF FetchStands, VerdictFollows
<1>2. CASE Looks
  BY <1>0, <1>2, LooksIs DEF VerdictFollows
<1>3. CASE Pulls
  <2>1. SUFFICES ASSUME fetch'.exact PROVE VerdictFollows'
    BY DEF VerdictFollows
  <2>2. /\ fetch'.pc = "pulled" /\ fetch'.seed = record /\ ~past.muddled /\ Quiet
        /\ bookmark' = mirror.branch
        /\ fetch'.news <=> past.pushes = "some"
    BY <1>0, <1>3, <2>1, PullsIs
  <2>3. \A l \in Launches : ~Unseeded(l)
    BY <2>2 DEF Quiet, Unseeded
  <2>4. mirror.branch = record <=> past.pushes = "none"
    BY <2>2, <2>3 DEF OneAtATime
  <2>5. past.pushes = "none" <=> past.pushes # "some"
    BY <1>0 DEF Past
  <2> QED BY <2>2, <2>4, <2>5 DEF VerdictFollows
<1>4. CASE Judges
  <2>1. /\ fetch.pc = "pulled" /\ fetch'.pc = "idle" /\ bookmark' = bookmark
        /\ fetch'.exact => /\ fetch.exact /\ record = fetch.seed /\ fetch'.news = fetch.news
                           /\ fetch'.verdict = "warned" <=> bookmark = record
    BY <1>0, <1>4, JudgesIs
  <2> QED BY <2>1 DEF VerdictFollows
<1> QED BY <1>1, <1>2, <1>3, <1>4, FetchesMove

-----------------------------------------------------------------------------
(* The invariant holds at the start, and every step keeps it.              *)

LEMMA IdleIsTyped ==
  ASSUME WorkProductAssumption, NEW q \in {IdleLaunch, Done}
  PROVE  /\ q \in Launching /\ q.pc \in {"idle", "done"} /\ PlanIn(q, 1, 0) /\ PlanIn(q, 2, 0)
         /\ q.seed = 0 /\ q.base = 0 /\ ~q.prompted /\ ~q.guarded
<1>1. MaxCommits \in Nat /\ 0 \in 0..MaxCommits /\ "idle" \in Pcs /\ "done" \in Pcs
  BY DEF WorkProductAssumption, Pcs
<1>2. PICK yes, no : yes = TRUE /\ no = FALSE
  OBVIOUS
<1>3. yes \in BOOLEAN /\ no \in BOOLEAN
  BY <1>2
<1>4. IdleLaunch \in Launching
  BY <1>1, <1>2, <1>3 DEF IdleLaunch, Launching
<1>5. Done \in Launching
  BY <1>1, <1>4 DEF Done, Launching
<1>6. /\ Done.pc = "done" /\ Done.seed = 0 /\ Done.base = 0 /\ Done.saw = 0 /\ Done.tip = 0
      /\ ~Done.prompted /\ ~Done.guarded /\ ~Done.fresh /\ Done.took = "head"
  BY DEF Done, IdleLaunch
<1>7. CASE q = Done
  BY <1>5, <1>6, <1>7 DEF PlanIn
<1>8. CASE q = IdleLaunch
  <2>1. /\ q.pc = "idle" /\ q.seed = 0 /\ q.base = 0 /\ q.saw = 0 /\ q.tip = 0
        /\ ~q.prompted /\ ~q.guarded /\ ~q.fresh /\ q.took = "head"
    BY <1>8 DEF IdleLaunch
  <2> QED BY <1>4, <1>8, <2>1 DEF PlanIn
<1> QED BY <1>7, <1>8

LEMMA InitIsInv ==
  ASSUME Init
  PROVE  Inv
<1>1. /\ MaxCommits \in Nat \ {0} /\ MaxEdits \in Nat \ {0} /\ MaxBoards \in Nat \ {0}
      /\ "none" \notin Launches
      /\ scene.failures \in Nat /\ scene.commits \in 1..MaxCommits
      /\ scene.earlier \in BOOLEAN /\ (scene.earlier => scene.commits > 1)
  BY WorkProductAssumption DEF Init, WorkProductAssumption
<1>2. /\ log \in Seq(Commit) /\ Len(log) <= MaxCommits /\ Linear /\ Len(log) \in {1, 2}
      /\ earlier \in 0..Len(log) /\ edits \in 0..MaxEdits /\ log[1] = Root
  <2>0. PICK yes, no : yes = TRUE /\ no = FALSE
    OBVIOUS
  <2>1. yes \in BOOLEAN /\ no \in BOOLEAN
    BY <2>0
  <2>2. Root \in Commit
    <3>1. {1} \subseteq 1..MaxCommits /\ {} \subseteq 1..MaxEdits /\ 1 \in 0..MaxBoards
      BY <1>1
    <3> QED BY <2>0, <2>1, <3>1 DEF Root, Commit
  <2>3. CASE scene.earlier
    <3>1. log = <<Root, Earlier>> /\ earlier = 2 /\ edits = 1
      BY <2>3 DEF Init
    <3>2. MaxCommits >= 2
      BY <1>1, <2>3
    <3>3. Earlier \in Commit
      <4>1. {1, 2} \subseteq 1..MaxCommits /\ {1} \subseteq 1..MaxEdits /\ 1 \in 0..MaxBoards
        BY <1>1, <3>2
      <4> QED BY <2>0, <2>1, <4>1 DEF Earlier, Commit
    <3>4. log \in Seq(Commit) /\ Len(log) = 2 /\ log[1] = Root /\ log[2] = Earlier
      BY <2>2, <3>1, <3>3
    <3>5. From(1) = {1} /\ From(2) = {1, 2} /\ Commits = {1, 2}
      BY <3>4 DEF From, Root, Earlier, Commits
    <3>6. Linear
      BY <3>5 DEF Linear
    <3> QED BY <1>1, <3>1, <3>2, <3>4, <3>6
  <2>4. CASE ~scene.earlier
    <3>1. log = <<Root>> /\ earlier = 0 /\ edits = 0
      BY <2>4 DEF Init
    <3>2. log \in Seq(Commit) /\ Len(log) = 1 /\ log[1] = Root
      BY <2>2, <3>1
    <3>3. From(1) = {1} /\ Commits = {1}
      BY <3>2 DEF From, Root, Commits
    <3>4. Linear
      BY <3>3 DEF Linear
    <3> QED BY <1>1, <3>1, <3>2, <3>4
  <2> QED BY <2>3, <2>4
<1>3. /\ host.head = 1 /\ mirror.branch = 0 /\ mirror.base = 0
      /\ guest.clone = 0 /\ ~guest.up /\ guest.told = "none" /\ bookmark = 0 /\ ~past.minted
      /\ ~past.muddled /\ fetch = IdleFetch /\ directive = "none"
  BY DEF Init
<1>4. \A l \in Launches : launch[l] \in {IdleLaunch, Done}
  BY DEF Init
<1>5. /\ \A l \in Launches : /\ launch[l].pc \in {"idle", "done"} /\ launch[l].seed = 0
                             /\ launch[l].base = 0 /\ ~launch[l].prompted /\ ~launch[l].guarded
                             /\ PlanIn(launch[l], 1, 0) /\ PlanIn(launch[l], 2, 0)
      /\ launch \in [Launches -> Launching]
  <2>1. ASSUME NEW l \in Launches
        PROVE  /\ launch[l].pc \in {"idle", "done"} /\ launch[l].seed = 0
               /\ launch[l].base = 0 /\ ~launch[l].prompted /\ ~launch[l].guarded
               /\ PlanIn(launch[l], 1, 0) /\ PlanIn(launch[l], 2, 0)
               /\ launch[l] \in Launching
    BY <1>4, IdleIsTyped, WorkProductAssumption
  <2>2. launch = [l \in Launches |-> launch[l]]
    BY DEF Init
  <2> QED BY <2>1, <2>2
<1>6. WorkProductTypeOK
  <2>0. PICK yes, no : yes = TRUE /\ no = FALSE
    OBVIOUS
  <2>1. yes \in BOOLEAN /\ no \in BOOLEAN
    BY <2>0
  <2>2. host \in HostState
    <3>1. /\ host = [head |-> 1, tree |-> {}, board |-> 1, untracked |-> {}, left |-> {}]
          /\ 1 \in 0..MaxBoards /\ 1 \in 1..Len(log)
          /\ {} \in SUBSET (1..MaxEdits) /\ {} \in SUBSET (1..Len(log))
      BY <1>1, <1>2 DEF Init
    <3> QED BY <3>1 DEF HostState
  <2>3. mirror \in MirrorState
    <3>1. mirror = [there |-> no, branch |-> 0, base |-> 0, delivered |-> 0]
      BY <2>0 DEF Init
    <3>2. 0 \in 0..Len(log)
      BY <1>2
    <3> QED BY <2>1, <3>1, <3>2 DEF MirrorState
  <2>4. guest \in GuestState
    <3>1. guest = [up |-> no, clone |-> 0, told |-> "none"]
      BY <2>0 DEF Init
    <3>2. 0 \in 0..Len(log)
      BY <1>2
    <3> QED BY <2>1, <3>1, <3>2 DEF GuestState
  <2>5. fetch \in Fetching
    <3>1. fetch = [pc |-> "idle", verdict |-> "none", head |-> 0, blind |-> no,
                   seed |-> 0, news |-> no, exact |-> no]
      BY <1>3, <2>0 DEF IdleFetch
    <3>2. 0 \in 0..MaxCommits
      BY <1>1
    <3> QED BY <2>1, <3>1, <3>2 DEF Fetching
  <2>6. past \in Past
    <3>1. past = [minted |-> no, pushes |-> "none", muddled |-> no, loose |-> no, replaced |-> {}]
      BY <2>0 DEF Init
    <3> QED BY <2>1, <3>1 DEF Past
  <2>7. {bookmark, earlier, record} \subseteq 0..Len(log)
    BY <1>2 DEF Init
  <2>8. failures \in 0..scene.failures /\ scene \in Scenes
    BY <1>1 DEF Init
  <2> QED BY <1>2, <1>3, <1>5, <2>2, <2>3, <2>4, <2>5, <2>6, <2>7, <2>8
          DEF WorkProductTypeOK, HostState, MirrorState, GuestState
<1>7. Types
  <2>1. Plans
    BY <1>2, <1>3, <1>5 DEF Plans, Plan
  <2>2. fetch.head = 0 /\ fetch.pc = "idle"
    BY <1>3 DEF IdleFetch
  <2> QED BY <1>2, <1>3, <1>6, <2>1, <2>2 DEF Types
<1>8. BasesAreHeads
  BY <1>3, <1>5 DEF BasesAreHeads
<1>10. SeedsAreTheTree
  BY <1>5 DEF SeedsAreTheTree
<1>11. BoardStays
  <2>1. ASSUME NEW r \in Commits, IsRef(r) PROVE KeepsBoard(r)
    <3>1. r = earlier
      BY <1>3, <1>5, <2>1 DEF IsRef
    <3>2. log = <<Root, Earlier>> /\ r = 2
      BY <2>1, <3>1 DEF Init, IsRef
    <3>3. From(1) = {1} /\ From(2) = {1, 2} /\ log[1].board = 1 /\ log[2].board = 1 /\ Commits = {1, 2}
      BY <3>2 DEF From, Root, Earlier, Commits
    <3>4. Fork(2, 1) = 1
      <4>1. 1 \in From(2) \cap From(1) /\ \A e \in From(2) \cap From(1) : e <= 1
        BY <3>3
      <4> QED BY <1>2, <1>6, <3>3, <4>1, ForkIsLast
    <3>5. From(r) \ From(host.head) = {2}
      BY <1>3, <3>2, <3>3
    <3> QED BY <1>3, <3>3, <3>4, <3>5 DEF KeepsBoard
  <2> QED BY <1>5, <2>1 DEF BoardStays
<1>12. NothingBefore /\ GuardedSaw
  BY <1>3, <1>5 DEF NothingBefore, GuardedSaw
<1>13. TextIsKept
  BY <1>3, <1>5 DEF TextIsKept, DirectiveOutlivesTheLaunch
<1>14. LookedFirst /\ VerdictFollows
  BY <1>3 DEF LookedFirst, VerdictFollows, IdleFetch
<1>15. AloneWhileDeciding
  BY <1>5 DEF AloneWhileDeciding
<1>16. OneAtATime
  <2>1. record = 0 /\ past.pushes = "none"
    BY DEF Init
  <2> QED BY <1>3, <1>5, <2>1 DEF OneAtATime, Late, Unseeded
<1> QED BY <1>7, <1>8, <1>10, <1>11, <1>12, <1>13, <1>14, <1>15, <1>16 DEF Inv

LEMMA NextKeepsInv ==
  ASSUME Inv, [Next]_vars
  PROVE  Inv'
<1>1. Types /\ BasesAreHeads /\ SeedsAreTheTree /\ BoardStays
  BY DEF Inv
<1>2. NothingBefore /\ GuardedSaw /\ TextIsKept /\ LookedFirst
  BY DEF Inv
<1>3. AloneWhileDeciding /\ OneAtATime /\ VerdictFollows
  BY DEF Inv
<1>4. Advances
  BY <1>1, NextAdvances
<1>5. Types'
  BY <1>1, TypesStay
<1>6. BasesAreHeads'
  BY <1>1, <1>4, BasesMove, BasesStayHeads
<1>7. SeedsAreTheTree'
  BY <1>1, <1>4, SeedsMove, SeedsStayTheTree
<1>8. BoardStays'
  BY <1>1, <1>4, <1>5, BoardsMove, BoardsStay
<1>9. NothingBefore' /\ GuardedSaw'
  BY <1>1, <1>2, <1>4, NothingStaysBefore, SightsMove, GuardsSawEarlier
<1>10. TextIsKept' /\ LookedFirst'
  BY <1>1, <1>2, <1>4, TextsMove, TextStaysKept, LooksStayFirst
<1>11. AloneWhileDeciding' /\ OneAtATime' /\ VerdictFollows'
  BY <1>1, <1>3, DecidingStaysAlone, OneStaysAtATime, VerdictsFollow
<1> QED BY <1>4, <1>5, <1>6, <1>7, <1>8, <1>9, <1>10, <1>11 DEF Inv

THEOREM InvHolds == WorkProductSpec => []Inv
<1>1. Init => Inv
  BY InitIsInv
<1>2. Inv /\ [Next]_vars => Inv'
  BY NextKeepsInv
<1> QED BY <1>1, <1>2, PTL DEF WorkProductSpec

-----------------------------------------------------------------------------
(* What a launch seeds a guest with, and what a fetch says of it.          *)

LEMMA InvSeedsSoundly ==
  ASSUME Inv
  PROVE  SeedIsSound
<1>1. SeedIsTheWorkingTree
  <2>1. SUFFICES ASSUME NEW l \in Launches, launch[l].pc = "planned", launch[l].fresh,
                        launch[l].took # "nothing"
                 PROVE  log[launch[l].seed].has = launch[l].tree
    BY DEF SeedIsTheWorkingTree
  <2>2. /\ launch[l].took = "tree" => log[launch[l].seed].has = launch[l].tree
        /\ launch[l].took = "head" => /\ log[launch[l].tip].has = launch[l].tree
                                      /\ launch[l].seed = launch[l].tip
    BY <2>1 DEF Inv, SeedsAreTheTree
  <2>3. launch[l].took \in {"tree", "head", "nothing"}
    BY LaunchIsTyped DEF Inv, Types
  <2> QED BY <2>1, <2>2, <2>3
<1>2. StraysAreRefused
  <2>1. \A l \in Launches : launch[l].guarded =>
          launch[l].seen \subseteq UNION {From(b) : b \in {earlier} \ {0}}
    BY DEF Inv, GuardedSaw
  <2>2. UNION {From(b) : b \in {earlier} \ {0}} \subseteq Frozen
    BY DEF Frozen, Bookmarks
  <2>3. \A l \in Launches : launch[l].guarded => launch[l].seen \subseteq Frozen
    BY <2>1, <2>2
  <2> QED BY <2>3 DEF StraysAreRefused
<1>3. WorkProductTypeOK /\ DirectiveOutlivesTheLaunch
  BY DEF Inv, Types, TextIsKept
<1> QED BY <1>1, <1>2, <1>3 DEF SeedIsSound

\* The commit a guest is seeded with holds the tracked files of the operator's
\* working tree of when it was taken, and is on no agent's work the guard saw
\* outside the bookmarks; the text a session was told is the one that is kept
\* for a redelivery until the text of a later launch replaces it (start.rs:
\* resolve_seed, strip_board_from_stash; dispatch.rs:
\* guard_against_agent_commits; directive.rs).
THEOREM SeedsAreSound == WorkProductSpec => []SeedIsSound
<1>1. Inv => SeedIsSound
  BY InvSeedsSoundly
<1> QED BY <1>1, InvHolds, PTL

\* The verdict of a fetch that nothing interfered with is right: it warns if
\* and only if the guest has pushed nothing but the seed on record
\* (fetch.rs: work_landed).
THEOREM VerdictsAreRight == WorkProductSpec => []VerdictIsExact
<1>1. Inv => VerdictIsExact
  BY DEF Inv, VerdictFollows, VerdictIsExact
<1> QED BY <1>1, InvHolds, PTL

-----------------------------------------------------------------------------
(* What is in the mirror goes back only where a launch could not see it.   *)

LEMMA MirrorMoves ==
  ASSUME Types, [Next]_vars
  PROVE  \/ mirror'.branch = mirror.branch /\ mirror'.base = mirror.base
         \/ AgentPushes
         \/ \E l \in Launches : PushesSeed(l) \/ PushesBase(l)
<1>0. /\ WorkProductTypeOK /\ (\A l \in Launches : Plan(launch[l])) /\ (guest.up => guest.clone # 0)
      /\ mirror \in MirrorState
  BY DEF Types, Plans, WorkProductTypeOK, MirrorState
<1> DEFINE Stands == mirror'.branch = mirror.branch /\ mirror'.base = mirror.base
<1>1. mirror' = mirror => Stands
  OBVIOUS
<1>2. ASSUME NEW l \in Launches, LaunchStep(l) PROVE Stands \/ PushesSeed(l) \/ PushesBase(l)
  <2>1. ASSUME Decides(l) PROVE Stands
    BY <2>1 DEF Decides
  <2>2. ASSUME NEW probe \in {"absent", "failed"}, Snapshots(l, probe) PROVE Stands
    <3>1. PICK n, agent : n = NewId /\ agent = FALSE
      OBVIOUS
    <3>2. PICK pc : Seeds(l, pc, n, "tree")
      BY <1>0, <2>2, <3>1, SnapshotsIs
    <3> QED BY <2>1, <3>2 DEF Seeds
  <2>3. ASSUME NEW probe \in {"absent", "failed"}, SeedsHead(l, probe) PROVE Stands
    BY <1>0, <2>1, <2>3, SeedsHeadIs DEF Seeds
  <2>4. CASE Resumes(l) \/ SnapshotFails(l)
    BY <1>0, <2>1, <2>4, ResumesIs, SnapshotFailsIs DEF Seeds
  <2>5. ASSUME NEW b \in BOOLEAN, Guards(l, b) \/ Starts(l, b) PROVE Stands
    BY <1>0, <1>1, <2>5, EnlistsIs
  <2>6. CASE Strips(l) \/ StripFails(l) \/ Boots(l)
    <3>1. PICK n : n = NewId
      OBVIOUS
    <3> QED BY <1>0, <1>1, <2>6, <3>1, StripsIs, BootsIs
  <2>7. CASE Claims(l) \/ Records(l) \/ Emits(l) \/ Joins(l) \/ Dies(l)
    BY <1>0, <1>1, <2>7, ClaimsIs, RecordsIs, EmitsIs, JoinsIs, DiesIs
  <2>8. CASE Clones(l)
    <3>1. mirror' = [mirror EXCEPT !.there = TRUE]
      BY <1>0, <2>8, ClonesIs
    <3> QED BY <1>0, <3>1 DEF MirrorState
  <2> QED BY <1>2, <2>2, <2>3, <2>4, <2>5, <2>6, <2>7, <2>8 DEF LaunchStep
<1>3. CASE OperatorStep \/ UNCHANGED vars
  BY <1>1, <1>3, OperatorIs, StutterIs
<1>4. CASE AgentWorks
  <2>1. PICK n : n = NewId
    OBVIOUS
  <2> QED BY <1>0, <1>1, <1>4, <2>1, AgentWorksIs
<1>5. CASE GuestStops \/ Redelivers \/ Looks \/ Pulls \/ Judges
  BY <1>0, <1>1, <1>5, TalksIs, LooksIs, PullsIs, JudgesIs
<1>6. CASE Delivers
  <2>1. PICK c \in Commits : mirror' = [mirror EXCEPT !.delivered = c]
    BY <1>0, <1>6, DeliversIs
  <2> QED BY <1>0, <2>1 DEF MirrorState
<1> QED BY <1>2, <1>3, <1>4, <1>5, <1>6 DEF Next

LEMMA RewindsAreBlind ==
  ASSUME Inv, [Next]_vars
  PROVE  /\ Rewinds(mirror.branch, mirror'.branch) /\ mirror'.branch # guest.clone =>
              \E l \in Launches : /\ launch[l].pc = "seeding" /\ launch'[l].pc = "basing"
                                  /\ launch[l].probe \in {"absent", "failed"}
         /\ Rewinds(mirror.base, mirror'.base) =>
              \E l \in Launches : /\ launch[l].pc = "basing" /\ launch'[l].pc = "booting"
                                  /\ launch[l].saw # mirror.base \/ mirror.base \in host.left
<1>0. /\ Types /\ WorkProductTypeOK /\ (\A l \in Launches : Plan(launch[l]))
      /\ mirror \in MirrorState /\ Advances
  BY NextAdvances DEF Inv, Types, Plans, WorkProductTypeOK, MirrorState
<1>1. ASSUME NEW c \in 0..Len(log) PROVE ~Rewinds(c, c)
  <2>1. c # 0 => c \in Commits
    BY <1>1, <1>0, CommitsAreTyped DEF Commits
  <2>2. c # 0 => c \in log'[c].from
    BY <1>0, <2>1, HeadKeeps DEF Types, Linear, From
  <2> QED BY <2>2 DEF Rewinds
<1>2. /\ mirror.branch \in 0..Len(log) /\ mirror.base \in 0..Len(log)
  BY <1>0 DEF MirrorState
<1>3. CASE mirror'.branch = mirror.branch /\ mirror'.base = mirror.base
  BY <1>1, <1>2, <1>3
<1>4. CASE AgentPushes
  <2>1. mirror' = [mirror EXCEPT !.branch = guest.clone]
    BY <1>0, <1>4, AgentPushesIs
  <2>2. mirror'.branch = guest.clone /\ mirror'.base = mirror.base
    BY <1>0, <2>1 DEF MirrorState
  <2> QED BY <1>1, <1>2, <2>2
<1>5. ASSUME NEW l \in Launches, PushesSeed(l)
      PROVE  /\ mirror'.base = mirror.base
             /\ \/ mirror'.branch = mirror.branch
                \/ /\ launch[l].pc = "seeding" /\ launch'[l].pc = "basing"
                   /\ launch[l].probe \in {"absent", "failed"}
  <2>1. /\ launch[l].pc = "seeding" /\ launch'[l].pc = "basing"
        /\ launch[l].fresh => mirror' = [mirror EXCEPT !.branch = launch[l].seed]
        /\ ~launch[l].fresh => mirror' = mirror
    BY <1>0, <1>5, PushesSeedIs
  <2>2. mirror'.base = mirror.base /\ (~launch[l].fresh => mirror'.branch = mirror.branch)
    BY <1>0, <2>1 DEF MirrorState
  <2>3. launch[l].fresh => launch[l].probe \in {"absent", "failed"}
    BY <1>0 DEF Plan, PlanIn
  <2> QED BY <2>1, <2>2, <2>3
<1>6. ASSUME NEW l \in Launches, PushesBase(l)
      PROVE  /\ mirror'.branch = mirror.branch
             /\ \/ ~Rewinds(mirror.base, mirror'.base)
                \/ /\ launch[l].pc = "basing" /\ launch'[l].pc = "booting"
                   /\ launch[l].saw # mirror.base \/ mirror.base \in host.left
  <2>1. /\ launch[l].pc = "basing" /\ launch'[l].pc = "booting" /\ log' = log
        /\ launch[l].base # 0 => mirror' = [mirror EXCEPT !.base = launch[l].base]
        /\ launch[l].base = 0 => mirror' = mirror
    BY <1>0, <1>6, PushesBaseIs
  <2>2. /\ mirror'.branch = mirror.branch
        /\ launch[l].base # 0 => mirror'.base = launch[l].base
        /\ launch[l].base = 0 => mirror'.base = mirror.base
    BY <1>0, <2>1 DEF MirrorState
  <2>3. launch[l].base # 0 /\ launch[l].saw # 0 =>
          launch[l].saw \in log[launch[l].base].from \cup host.left
    BY DEF Inv, BasesAreHeads, From
  <2>4. CASE launch[l].base = 0
    BY <1>1, <1>2, <2>2, <2>4
  <2>5. CASE launch[l].base # 0 /\ launch[l].saw = mirror.base
    BY <2>1, <2>2, <2>3, <2>5 DEF Rewinds
  <2> QED BY <2>1, <2>2, <2>4, <2>5
<1> QED BY <1>0, <1>1, <1>2, <1>3, <1>4, <1>5, <1>6, MirrorMoves

\* What the guest has pushed is overwritten only by a launch whose probe did
\* not see it, and the mirror's base goes back only if another launch moved
\* it after this one had looked, or from a commit that HEAD has left (start.rs:
\* resolve_seed, resolve_base_refresh).
THEOREM PushesAreNotOverwritten == WorkProductSpec => MirrorIsRewrittenOnlyBlindly
<1>1. Inv /\ [Next]_vars =>
        /\ Rewinds(mirror.branch, mirror'.branch) /\ mirror'.branch # guest.clone =>
             \E l \in Launches : /\ launch[l].pc = "seeding" /\ launch'[l].pc = "basing"
                                 /\ launch[l].probe \in {"absent", "failed"}
        /\ Rewinds(mirror.base, mirror'.base) =>
             \E l \in Launches : /\ launch[l].pc = "basing" /\ launch'[l].pc = "booting"
                                 /\ launch[l].saw # mirror.base \/ mirror.base \in host.left
  BY RewindsAreBlind
<1> QED BY <1>1, InvHolds, PTL DEF WorkProductSpec, MirrorIsRewrittenOnlyBlindly

-----------------------------------------------------------------------------
(* What comes back from a guest takes nothing of the operator's.           *)

LEMMA HeadMoves ==
  ASSUME Types, [Next]_vars
  PROVE  host'.head = host.head \/ OperatorStep
<1>0. WorkProductTypeOK /\ (\A l \in Launches : Plan(launch[l])) /\ (guest.up => guest.clone # 0)
  BY DEF Types, Plans
<1>1. ASSUME NEW l \in Launches, LaunchStep(l) PROVE host'.head = host.head
  <2>1. ASSUME Decides(l) PROVE host'.head = host.head
    BY <2>1 DEF Decides
  <2>2. ASSUME NEW probe \in {"absent", "failed"}, Snapshots(l, probe) PROVE host'.head = host.head
    <3>1. PICK n, agent : n = NewId /\ agent = FALSE
      OBVIOUS
    <3>2. PICK pc : Seeds(l, pc, n, "tree")
      BY <1>0, <2>2, <3>1, SnapshotsIs
    <3> QED BY <2>1, <3>2 DEF Seeds
  <2>3. ASSUME NEW probe \in {"absent", "failed"}, SeedsHead(l, probe) PROVE host'.head = host.head
    BY <1>0, <2>1, <2>3, SeedsHeadIs DEF Seeds
  <2>4. CASE Resumes(l) \/ SnapshotFails(l)
    BY <1>0, <2>1, <2>4, ResumesIs, SnapshotFailsIs DEF Seeds
  <2>5. ASSUME NEW b \in BOOLEAN, Guards(l, b) \/ Starts(l, b) PROVE host'.head = host.head
    BY <1>0, <2>5, EnlistsIs
  <2>6. CASE Strips(l) \/ StripFails(l) \/ Boots(l)
    <3>1. PICK n : n = NewId
      OBVIOUS
    <3> QED BY <1>0, <2>6, <3>1, StripsIs, BootsIs
  <2>7. CASE Claims(l) \/ Records(l) \/ Emits(l) \/ Joins(l) \/ Dies(l)
    BY <1>0, <2>7, ClaimsIs, RecordsIs, EmitsIs, JoinsIs, DiesIs
  <2>8. CASE Clones(l) \/ PushesSeed(l) \/ PushesBase(l)
    BY <1>0, <2>8, ClonesIs, PushesSeedIs, PushesBaseIs
  <2> QED BY <1>1, <2>2, <2>3, <2>4, <2>5, <2>6, <2>7, <2>8 DEF LaunchStep
<1>2. CASE UNCHANGED vars
  BY <1>2, StutterIs
<1>3. CASE AgentWorks
  <2>1. PICK n : n = NewId
    OBVIOUS
  <2> QED BY <1>0, <1>3, <2>1, AgentWorksIs
<1>4. CASE AgentPushes \/ GuestStops \/ Redelivers \/ Looks \/ Pulls \/ Judges \/ Delivers
  BY <1>0, <1>4, AgentPushesIs, TalksIs, LooksIs, PullsIs, JudgesIs, DeliversIs
<1> QED BY <1>1, <1>2, <1>3, <1>4 DEF Next

\* What a ref brings to HEAD has no board of its own.
LEMMA RefsBringNoBoard ==
  ASSUME Types, NEW c \in Commits, KeepsBoard(c)
  PROVE  /\ ~Descends(host.head, c) => MergedBoard(c, host.head) = log[host.head].board
         /\ Descends(c, host.head) /\ c # host.head => log[c].board = log[host.head].board
<1>0. PICK h : h = host.head
  OBVIOUS
<1>1. h \in Commits /\ c \in From(c) /\ h \in Nat /\ c \in Nat
      /\ From(c) \subseteq 1..c /\ From(h) \subseteq 1..h
  BY <1>0, CommitsAreTyped DEF Types, Linear
<1>2. c \notin From(h) => log[c].board = log[Fork(c, h)].board
  BY <1>0, <1>1 DEF KeepsBoard
<1>3. ASSUME h \in From(c), c # h PROVE log[c].board = log[h].board
  <2>1. c \notin From(h)
    BY <1>1, <1>3
  <2>2. h \in From(c) \cap From(h) /\ \A e \in From(c) \cap From(h) : e <= h
    BY <1>1, <1>3 DEF Types, Linear
  <2>3. Fork(c, h) = h
    BY <1>1, <2>2, ForkIsLast DEF Types
  <2> QED BY <1>2, <2>1, <2>3
<1> QED BY <1>0, <1>2, <1>3 DEF MergedBoard, Descends

LEMMA BoardIsKept ==
  ASSUME Inv, [Next]_vars
  PROVE  \/ log'[host'.head].board = log[host.head].board \/ log'[host'.head].board = host.board
         \/ SetAnew \/ past.loose \/ \E c \in Bookmarks : From(c) \cap host.left # {}
<1>0. /\ Types /\ WorkProductTypeOK /\ Linear /\ host.head \in Commits
      /\ host \in HostState /\ Advances /\ \A c \in Commits : log'[c] = log[c]
  BY NextAdvances, HeadKeeps DEF Inv, Types, WorkProductTypeOK, HostState
<1>1. CASE host'.head = host.head
  BY <1>0, <1>1
<1>2. CASE OperatorStep
  <2>0. PICK n : n = NewId
    OBVIOUS
  <2>1. CASE EditsTree \/ Tracks \/ EditsBoard
    <3>1. host'.head = host.head
      BY <1>0, <2>1 DEF EditsTree, Tracks, EditsBoard, HostState
    <3> QED BY <1>1, <3>1
  <2>2. CASE CommitsTree
    <3>1. PICK agent : agent = FALSE
      OBVIOUS
    <3>2. /\ Adds(host.head, agent, host.tree, host.board)
          /\ host' = [host EXCEPT !.head = n]
      BY <1>0, <2>0, <2>2, <3>1 DEF CommitsTree, Adds, HostState
    <3>3. host'.head = n /\ log'[n].board = host.board
      BY <1>0, <2>0, <3>2, AddedLogGrows DEF HostState
    <3> QED BY <3>3
  <2>3. ASSUME NEW c \in Bookmarks, Lands(c) \/ FastForwards(c) \/ CherryPicks(c), ~past.loose,
               From(c) \cap host.left = {}
        PROVE  log'[host'.head].board = log[host.head].board
    <3>1. c \in Commits /\ IsRef(c)
      BY <1>0, BookmarksAreCommits DEF IsRef
    <3>2. KeepsBoard(c)
      BY <2>3, <3>1 DEF Inv, BoardStays
    <3>3. CASE Lands(c)
      <4>1. PICK agent, has, board : /\ agent = FALSE /\ has = log[host.head].has \cup log[c].has
                                     /\ board = MergedBoard(c, host.head)
        OBVIOUS
      <4>2. ~Descends(host.head, c) /\ board = log[host.head].board
        BY <1>0, <3>1, <3>2, <3>3, <4>1, RefsBringNoBoard DEF Lands
      <4>3. Adds(host.head, agent, has, board) /\ host'.head = n
        <5>1. board \in 0..MaxBoards /\ has \subseteq 1..MaxEdits
          BY <1>0, <3>1, <4>1, CommitsAreTyped, MergedBoardIsTyped
        <5>2. Room /\ log' = Append(log, Child(host.head, agent, has, board))
          BY <3>3, <4>1 DEF Lands
        <5>3. host'.head = n
          BY <1>0, <2>0, <3>3 DEF Lands, HostState
        <5> QED BY <1>0, <4>1, <5>1, <5>2, <5>3 DEF Adds
      <4> QED BY <1>0, <2>0, <4>2, <4>3, AddedLogGrows
    <3>4. CASE FastForwards(c)
      <4>1. Descends(c, host.head) /\ c # host.head /\ host'.head = c /\ log' = log
        BY <3>4 DEF FastForwards
      <4> QED BY <1>0, <3>1, <3>2, <4>1, RefsBringNoBoard
    <3>5. CASE CherryPicks(c)
      <4>1. PICK agent, has, board : /\ agent = TRUE /\ has = log[host.head].has \cup log[c].has
                                     /\ board = log[host.head].board
        OBVIOUS
      <4>2. Adds(host.head, agent, has, board)
        <5>1. board \in 0..MaxBoards /\ has \subseteq 1..MaxEdits
          BY <1>0, <3>1, <4>1, CommitsAreTyped
        <5> QED BY <1>0, <3>5, <4>1, <5>1 DEF CherryPicks, Adds
      <4>3. host'.head = n
        BY <1>0, <2>0, <3>5 DEF CherryPicks, HostState
      <4>4. board = log[host.head].board
        BY <4>1
      <4> QED BY <1>0, <2>0, <4>2, <4>3, <4>4, AddedLogGrows
    <3> QED BY <2>3, <3>3, <3>4, <3>5
  <2>4. ASSUME NEW c \in Named, Resets(c), ~SetAnew, ~past.loose,
               \A b \in Bookmarks : From(b) \cap host.left = {}
        PROVE  log'[host'.head].board = log[host.head].board
    <3>1. host'.head = c /\ log' = log /\ c # host.head
      BY <1>0, <2>4 DEF Resets, HostState
    <3>2. host.head \in From(c) /\ c \notin host.left
      BY <2>4, <3>1 DEF SetAnew, From
    <3>3. c \notin From(host.head)
      <4>1. ASSUME c \in From(host.head) PROVE FALSE
        <5>1. c \in Commits /\ From(c) \subseteq 1..c /\ c \in 1..host.head
          BY <1>0, <4>1, DescentIsTransitive DEF Linear
        <5>2. host.head \in 1..c /\ c \in Nat /\ host.head \in Nat
          BY <1>0, <3>2, <5>1, CommitsAreTyped
        <5> QED BY <3>1, <5>1, <5>2
      <4> QED BY <4>1
    <3>4. PICK b \in Bookmarks : c \in From(b)
      BY <3>2, <3>3 DEF Named
    <3>5. b \in Commits /\ IsRef(b)
      BY <1>0, BookmarksAreCommits DEF IsRef
    <3>6. KeepsBoard(b)
      BY <2>4, <3>5 DEF Inv, BoardStays
    <3>7. c \in Commits /\ From(c) \subseteq From(b)
      BY <1>0, <3>4, <3>5, DescentIsTransitive
    <3>8. KeepsBoard(c)
      BY <3>6, <3>7 DEF KeepsBoard
    <3>9. Descends(c, host.head)
      BY <3>2 DEF Descends
    <3> QED BY <1>0, <3>1, <3>7, <3>8, <3>9, RefsBringNoBoard
  <2> QED BY <1>2, <2>1, <2>2, <2>3, <2>4 DEF OperatorStep
<1> QED BY <1>0, <1>1, <1>2, HeadMoves

LEMMA HostWorkIsKept ==
  ASSUME Inv, [Next]_vars
  PROVE  bookmark # 0 /\ ~Descends(bookmark', bookmark) /\ HasHostWorkOnTop =>
           fetch.blind \/ fetch.head # host.head
<1>0. Types /\ WorkProductTypeOK /\ LookedFirst
  BY DEF Inv, Types
<1>1. ASSUME bookmark # 0, bookmark' = bookmark PROVE Descends(bookmark', bookmark)
  <2>1. bookmark \in Commits
    BY <1>0, <1>1, CommitsAreTyped DEF WorkProductTypeOK, Commits
  <2> QED BY <1>0, <1>1, <2>1 DEF Types, Linear, Descends
<1>2. CASE Pulls
  <2>1. fetch.pc = "looked"
    BY <1>0, <1>2, PullsIs
  <2> QED BY <1>0, <2>1 DEF LookedFirst, HasHostWorkOnTop
<1>3. bookmark' = bookmark \/ Pulls
  BY <1>0, FetchesMove, LooksIs, JudgesIs DEF FetchStands
<1> QED BY <1>1, <1>2, <1>3

\* Nothing that lands from a guest changes the board unless a board was let
\* through or the branch was built on commits that HEAD has left, and a fetch
\* moves the bookmark away from below the operator's commits only if these came
\* after its guard had looked or the guard could not look (start.rs:
\* strip_board_from_stash; fetch.rs: guard_against_local_descendants).
THEOREM TheHostKeepsItsOwn == WorkProductSpec => HostKeepsItsOwn
<1>1. Inv /\ [Next]_vars =>
        \/ log'[host'.head].board \in {log[host.head].board, host.board}
        \/ SetAnew \/ past.loose \/ \E c \in Bookmarks : From(c) \cap host.left # {}
  BY BoardIsKept
<1>2. Inv /\ [Next]_vars =>
        (bookmark # 0 /\ ~Descends(bookmark', bookmark) /\ HasHostWorkOnTop =>
           fetch.blind \/ fetch.head # host.head)
  BY HostWorkIsKept
<1> QED BY <1>1, <1>2, InvHolds, PTL
        DEF WorkProductSpec, HostKeepsItsOwn, BoardIsTheOperators, FetchKeepsHostWork
=============================================================================
