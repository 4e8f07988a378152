----------------------------- MODULE WorkProduct -----------------------------
(***************************************************************************)
(* The work of one named instance as git sees it: from the commit the      *)
(* guest's branch is seeded with (start.rs: resolve_seed,                  *)
(* strip_board_from_stash, resolve_base_refresh, and the pushes of the     *)
(* recipe), behind the guard on agent commits (dispatch.rs), through the   *)
(* guest's pushes into the mirror, to the remote bookmark the host fetches *)
(* it into and the verdict on it (fetch.rs), next to `deliver` (deliver.rs)*)
(* and the directive that is kept for a redelivery (directive.rs).         *)
(*                                                                         *)
(* A commit is what the commands ask git about it: the commits it descends *)
(* from, whether the agent wrote it, the edits its tree holds and the      *)
(* version of the board in it.  Landing, committing and cherry-picking are *)
(* the operator's, as the orchestration skill describes them.              *)
(***************************************************************************)
EXTENDS Naturals, Sequences, FiniteSets, FiniteSetsExt

CONSTANTS
  Launches,   \* processes that run `sandbox dispatch` or `sandbox start`
  MaxCommits, \* the commits of all repositories
  MaxEdits,   \* the edits of the operator and of the agent
  MaxBoards,  \* the versions of the board
  Scenes      \* what a behaviour may hold: the launches that are made, whether
              \* there is an earlier instance, whether fetch and deliver are run,
              \* how many commits HEAD may leave, how many git commands fail for no
              \* fault of the repository, and bounds on commits, edits and boards

ASSUME WorkProductAssumption ==
  /\ MaxCommits \in Nat \ {0} /\ MaxEdits \in Nat \ {0} /\ MaxBoards \in Nat \ {0}
  /\ "none" \notin Launches
  /\ Scenes \subseteq [launches : SUBSET Launches, earlier : BOOLEAN, fetches : BOOLEAN,
                       delivers : BOOLEAN, leaves : Nat, failures : Nat,
                       commits : 1..MaxCommits, edits : 1..MaxEdits, boards : 1..MaxBoards]
  /\ \A s \in Scenes : s.earlier => s.commits > 1

VARIABLES
  log,        \* every commit of every repository
  edits,      \* how many edits were made so far
  host,       \* the operator's HEAD, the working tree (tree and board: the files
              \* git tracks; untracked: the others), and the commits HEAD has left
  mirror,     \* the bare mirror sync.git of the instance
  bookmark,   \* refs/remotes/sandbox-guest/<inst>
  earlier,    \* the bookmark of an earlier instance
  guest,      \* the VM, its clone, and the launch whose text the session was given
  record,     \* the seed in instance.json
  directive,  \* the launch whose text directive.md holds
  launch,     \* per launch, what it is doing
  fetch,      \* the fetch process
  failures,   \* how many git commands failed
  past,       \* what happened so far, for the properties
  scene       \* what this behaviour may hold

operatorVars == <<log, edits, host>>
guestVars    == <<guest, mirror>>
filesVars    == <<record, directive>>
chosenVars   == <<earlier, scene>>
vars == <<operatorVars, guestVars, filesVars, bookmark, chosenVars, launch, fetch,
          failures, past>>

-----------------------------------------------------------------------------
(* Commits.  0 stands for a ref that does not exist, and for a tree without*)
(* a board.                                                                *)

Commit == [from : SUBSET (1..MaxCommits), agent : BOOLEAN,
           has : SUBSET (1..MaxEdits), board : 0..MaxBoards]
NewId == Len(log) + 1
Room == Len(log) < scene.commits

From(c) == log[c].from
Descends(c, a) == a \in From(c)
Fork(a, b) == Max(From(a) \cap From(b))
AgentCommits(c) == {a \in From(c) : log[a].agent}

\* The commit whose parent is p.
Child(p, agent, has, board) ==
  [from |-> From(p) \cup {NewId}, agent |-> agent, has |-> has, board |-> board]

\* The board once the changes of c are brought onto p: a board travels only
\* if c's side of the fork changed it.
MergedBoard(c, p) ==
  IF log[c].board = log[Fork(c, p)].board THEN log[p].board ELSE log[c].board

-----------------------------------------------------------------------------
Root == [from |-> {1}, agent |-> FALSE, has |-> {}, board |-> 1]

Pcs == {"idle", "cleared", "ready", "snapped", "planned", "recorded",
        "cloning", "seeding", "basing", "booting", "done"}

\* Plan of start.rs, and what the launch saw when it made it: whether there
\* was a branch in the mirror (probe), what the seed is a snapshot of (took),
\* HEAD, the working tree and the mirror's base, whether no other launch was
\* under way, and the agent commits below HEAD when its guard looked.
IdleLaunch == [pc |-> "idle", dispatched |-> FALSE, prompted |-> FALSE,
               seed |-> 0, fresh |-> FALSE, clone |-> FALSE, base |-> 0,
               probe |-> "branch", took |-> "head", tip |-> 0, tree |-> {},
               saw |-> 0, alone |-> TRUE, guarded |-> FALSE, seen |-> {}]
Done == [IdleLaunch EXCEPT !.pc = "done"]
Launching == [pc : Pcs, dispatched : BOOLEAN, prompted : BOOLEAN,
              seed : 0..MaxCommits, fresh : BOOLEAN, clone : BOOLEAN, base : 0..MaxCommits,
              probe : {"branch", "absent", "failed"}, took : {"tree", "head", "nothing"},
              tip : 0..MaxCommits, tree : SUBSET (1..MaxEdits), saw : 0..MaxCommits,
              alone : BOOLEAN, guarded : BOOLEAN, seen : SUBSET (1..MaxCommits)]

\* head and blind: HEAD when the guard of the fetch looked, and whether it
\* could; news and seed: whether the guest had pushed, and the record, when
\* the fetch pulled; exact: whether nothing interfered with the verdict.
IdleFetch == [pc |-> "idle", verdict |-> "none", head |-> 0, blind |-> FALSE,
              seed |-> 0, news |-> FALSE, exact |-> FALSE]
Fetching == [pc : {"idle", "looked", "pulled"}, verdict : {"none", "landed", "warned"},
             head : 0..MaxCommits, blind : BOOLEAN, seed : 0..MaxCommits,
             news : BOOLEAN, exact : BOOLEAN]

\* minted: the instance has its name; pushes: whether the guest has pushed
\* anything else since the branch had the seed on record; muddled: the record
\* was written by a launch that overlapped another or that died; loose: a board
\* may have been let through; replaced: the launches whose text a later one has
\* overwritten.
Past == [minted : BOOLEAN, pushes : {"none", "some"}, muddled : BOOLEAN, loose : BOOLEAN,
         replaced : SUBSET Launches]

\* An earlier instance has left an agent's commit in its bookmark, or nothing.
Earlier == [from |-> {1, 2}, agent |-> TRUE, has |-> {1}, board |-> 1]

Init ==
  /\ scene \in Scenes
  /\ IF scene.earlier THEN log = <<Root, Earlier>> /\ earlier = 2 /\ edits = 1
                      ELSE log = <<Root>> /\ earlier = 0 /\ edits = 0
  /\ host = [head |-> 1, tree |-> {}, board |-> 1, untracked |-> {}, left |-> {}]
  /\ mirror = [there |-> FALSE, branch |-> 0, base |-> 0, delivered |-> 0]
  /\ bookmark = 0
  /\ guest = [up |-> FALSE, clone |-> 0, told |-> "none"]
  /\ record = 0
  /\ directive = "none"
  /\ launch = [l \in Launches |-> IF l \in scene.launches THEN IdleLaunch ELSE Done]
  /\ fetch = IdleFetch
  /\ failures = 0
  /\ past = [minted |-> FALSE, pushes |-> "none", muddled |-> FALSE, loose |-> FALSE,
             replaced |-> {}]

Fails == failures < scene.failures /\ failures' = failures + 1
Works == UNCHANGED failures

Becomes(l, r) == launch' = [launch EXCEPT ![l] = r]
MovesTo(l, pc) == Becomes(l, [launch[l] EXCEPT !.pc = pc])
\* A launch goes on without what only its decision was about.
Forgets(l, pc) == [launch[l] EXCEPT !.pc = pc, !.took = "head", !.tip = 0, !.tree = {},
                                    !.alone = TRUE, !.guarded = FALSE, !.seen = {}]

-----------------------------------------------------------------------------
(* The operator, outside of katsuctl.                                      *)

OperatorFrame == UNCHANGED <<guestVars, filesVars, bookmark, chosenVars, launch, fetch, failures, past>>

\* git stash create and git commit see the files that are tracked.
Dirty == host.tree # log[host.head].has \/ host.board # log[host.head].board

EditsTree ==
  /\ edits < scene.edits
  /\ edits' = edits + 1
  /\ \/ host' = [host EXCEPT !.tree = @ \cup {edits + 1}]
     \/ host' = [host EXCEPT !.untracked = @ \cup {edits + 1}]
  /\ UNCHANGED log /\ OperatorFrame

\* git add of what is not tracked.
Tracks ==
  /\ host.untracked # {}
  /\ host' = [host EXCEPT !.tree = @ \cup host.untracked, !.untracked = {}]
  /\ UNCHANGED <<log, edits>> /\ OperatorFrame

EditsBoard ==
  /\ host.board < scene.boards
  /\ host' = [host EXCEPT !.board = @ + 1]
  /\ UNCHANGED <<log, edits>> /\ OperatorFrame

CommitsTree ==
  /\ Room /\ Dirty
  /\ log' = Append(log, Child(host.head, FALSE, host.tree, host.board))
  /\ host' = [host EXCEPT !.head = NewId]
  /\ UNCHANGED edits /\ OperatorFrame

Bookmarks == {bookmark, earlier} \ {0}

\* git merge --squash of a bookmark, committed as the operator.  The merge
\* refuses to overwrite a board edited in the working tree.
Lands(c) ==
  /\ Room /\ ~Descends(host.head, c)
  /\ LET board == MergedBoard(c, host.head) IN
       /\ board # log[host.head].board => host.board = log[host.head].board
       /\ log' = Append(log, Child(host.head, FALSE, log[host.head].has \cup log[c].has, board))
       /\ host' = [host EXCEPT !.head = NewId, !.tree = @ \cup log[c].has,
                   !.board = IF board # log[host.head].board THEN board ELSE @]
  /\ UNCHANGED edits /\ OperatorFrame

\* Off the script: the branch is taken over as it is, by a fast-forward, or
\* its commits are copied.
FastForwards(c) ==
  /\ Descends(c, host.head) /\ c # host.head
  /\ ~Dirty
  /\ host' = [host EXCEPT !.head = c, !.tree = log[c].has, !.board = log[c].board]
  /\ UNCHANGED <<log, edits>> /\ OperatorFrame

CherryPicks(c) ==
  /\ Room /\ ~Descends(host.head, c) /\ log[c].agent
  /\ log' = Append(log, Child(host.head, TRUE, log[host.head].has \cup log[c].has,
                              log[host.head].board))
  /\ host' = [host EXCEPT !.head = NewId, !.tree = @ \cup log[c].has]
  /\ UNCHANGED edits /\ OperatorFrame

\* git reset, a rebase, or a switch of branches sets HEAD to any commit there
\* is a name for, with the working tree of that commit or as it was; an amend
\* is a reset that keeps the tree, and a commit.
Named == From(host.head) \cup host.left \cup UNION {From(b) : b \in Bookmarks}

Resets(c) ==
  /\ c # host.head /\ Cardinality(host.left \cup (From(host.head) \ From(c))) \in 1..scene.leaves
  /\ \E kept \in BOOLEAN :
       host' = [host EXCEPT !.head = c, !.left = @ \cup (From(host.head) \ From(c)),
                            !.tree = IF kept THEN @ ELSE log[c].has,
                            !.board = IF kept THEN @ ELSE log[c].board]
  /\ UNCHANGED <<log, edits>> /\ OperatorFrame

-----------------------------------------------------------------------------
(* dispatch: the guard and the claim, before start takes over.             *)

LaunchFrame == UNCHANGED <<operatorVars, guestVars, filesVars, bookmark, chosenVars, fetch>>

\* guard_against_agent_commits: what HEAD has beyond every bookmark.  A probe
\* that fails refuses the dispatch, as does an agent commit in that range.
Frozen == UNION {From(b) : b \in Bookmarks}
Strays == AgentCommits(host.head) \ Frozen

Guards(l, force) ==
  /\ launch[l].pc = "idle" /\ ~past.minted
  /\ force \/ Strays = {}
  /\ past' = [past EXCEPT !.minted = TRUE]
  /\ Becomes(l, [IdleLaunch EXCEPT !.pc = "cleared", !.dispatched = TRUE, !.prompted = TRUE,
                                   !.guarded = ~force, !.seen = AgentCommits(host.head)])
  /\ Works /\ LaunchFrame

\* prepare: the claim is an edit of the board in the working tree.
Claims(l) ==
  /\ launch[l].pc = "cleared" /\ host.board < scene.boards
  /\ host' = [host EXCEPT !.board = @ + 1]
  /\ MovesTo(l, "ready")
  /\ Works
  /\ UNCHANGED <<log, edits, guestVars, filesVars, bookmark, chosenVars, fetch, past>>

\* `start --name` of a new instance or of one named in full, by hand or by a
\* prompt that finds the instance paused; only the latter is without a text.
Starts(l, prompted) ==
  /\ launch[l].pc = "idle"
  /\ past' = [past EXCEPT !.minted = TRUE]
  /\ Becomes(l, [IdleLaunch EXCEPT !.pc = "ready", !.prompted = prompted])
  /\ Works /\ LaunchFrame

-----------------------------------------------------------------------------
(* start: decide, under the allocation lock.                               *)

Locked == \E l \in Launches : launch[l].pc \in {"snapped", "planned", "recorded"}
MayDecide(l) == launch[l].pc = "ready" /\ ~Locked

Quiet == \A k \in Launches : launch[k].pc \in {"idle", "cleared", "ready", "done"}
Decided(l) == [launch[l] EXCEPT !.tip = host.head, !.tree = host.tree, !.saw = mirror.base,
                                !.alone = Quiet, !.clone = ~mirror.there]

\* resolve_seed finds the branch: the instance goes on from its tip, and
\* resolve_base_refresh takes HEAD along if the mirror does not have it yet
\* (or does not say).
Resumes(l) ==
  /\ MayDecide(l) /\ mirror.branch # 0
  /\ \/ Works /\ Becomes(l, [Decided(l) EXCEPT
             !.pc = "planned", !.seed = mirror.branch, !.probe = "branch",
             !.base = IF mirror.base = host.head THEN 0 ELSE host.head])
     \/ Fails /\ Becomes(l, [Decided(l) EXCEPT
             !.pc = "planned", !.seed = mirror.branch, !.probe = "branch", !.base = host.head])
  /\ UNCHANGED past /\ LaunchFrame

\* How the probe of the branch can end without one.
NoBranchSeen(probe) == CASE probe = "absent" -> mirror.branch = 0 /\ Works
                         [] probe = "failed" -> mirror.branch # 0 /\ Fails

\* resolve_seed takes a snapshot of the working tree, without the files git
\* does not track (git stash create) ...
Snapshots(l, probe) ==
  /\ MayDecide(l) /\ NoBranchSeen(probe)
  /\ Dirty /\ Room
  /\ log' = Append(log, Child(host.head, FALSE, host.tree, host.board))
  /\ Becomes(l, [Decided(l) EXCEPT !.pc = IF launch[l].dispatched THEN "snapped" ELSE "planned",
                     !.fresh = TRUE, !.seed = NewId, !.probe = probe, !.took = "tree"])
  /\ past' = [past EXCEPT !.loose = @ \/ ~launch[l].dispatched]
  /\ UNCHANGED <<edits, host, guestVars, filesVars, bookmark, chosenVars, fetch>>

\* ... and HEAD if there is nothing to take a snapshot of.
SeedsHead(l, probe) ==
  /\ MayDecide(l) /\ NoBranchSeen(probe)
  /\ ~Dirty
  /\ Becomes(l, [Decided(l) EXCEPT !.pc = "planned", !.fresh = TRUE, !.seed = host.head,
                                   !.probe = probe])
  /\ UNCHANGED past /\ LaunchFrame

\* The snapshot fails, which counts as a clean tree.
SnapshotFails(l) ==
  /\ MayDecide(l) /\ mirror.branch = 0 /\ Dirty
  /\ Fails
  /\ Becomes(l, [Decided(l) EXCEPT !.pc = "planned", !.fresh = TRUE, !.seed = host.head,
                                   !.probe = "absent", !.took = "nothing"])
  /\ UNCHANGED past /\ LaunchFrame

\* Mutant: the index the board is stripped in is loaded from HEAD.
StrippedSeedOfHead(l, board) ==
  /\ Room
  /\ log' = Append(log, Child(host.head, FALSE, log[host.head].has, board))
  /\ Becomes(l, [launch[l] EXCEPT !.pc = "planned", !.seed = NewId])

\* strip_board_from_stash: a commit on what is HEAD by now, with the tree of
\* the snapshot and the board of HEAD.
StrippedSeed(l, board) ==
  /\ Room
  /\ log' = Append(log, Child(host.head, FALSE, log[launch[l].seed].has, board))
  /\ Becomes(l, [launch[l] EXCEPT !.pc = "planned", !.seed = NewId])

Strips(l) ==
  /\ launch[l].pc = "snapped"
  /\ IF log[launch[l].seed].board # log[host.head].board
     THEN StrippedSeed(l, log[host.head].board)
     ELSE MovesTo(l, "planned") /\ UNCHANGED log
  /\ Works
  /\ past' = [past EXCEPT !.loose = @ \/ launch[l].tip # host.head]
  /\ UNCHANGED <<edits, host, guestVars, filesVars, bookmark, chosenVars, fetch>>

\* The steps that are best effort: the comparison fails, and the snapshot is
\* taken as it is; the board cannot be removed, or cannot be restored.
StripFails(l) ==
  /\ launch[l].pc = "snapped" /\ Fails
  /\ \/ MovesTo(l, "planned") /\ UNCHANGED log
     \/ \E board \in {log[launch[l].seed].board, 0} : StrippedSeed(l, board)
  /\ past' = [past EXCEPT !.loose = TRUE]
  /\ UNCHANGED <<edits, host, guestVars, filesVars, bookmark, chosenVars, fetch>>

-----------------------------------------------------------------------------
(* start: the record, the directive, and the recipe.                       *)

\* Mutant: the record names HEAD and not the snapshot.
RecordsHead(l) ==
  /\ launch[l].pc = "planned"
  /\ record' = host.head
  /\ past' = [past EXCEPT !.muddled = ~launch[l].alone,
                          !.pushes = IF launch[l].fresh THEN @
                                     ELSE IF mirror.branch = launch[l].seed THEN "none" ELSE "some"]
  /\ Becomes(l, Forgets(l, "recorded"))
  /\ Works
  /\ UNCHANGED <<operatorVars, guestVars, directive, bookmark, chosenVars, fetch>>

Records(l) ==
  /\ launch[l].pc = "planned"
  /\ record' = launch[l].seed
  /\ past' = [past EXCEPT !.muddled = ~launch[l].alone,
                          !.pushes = IF launch[l].fresh THEN @
                                     ELSE IF mirror.branch = launch[l].seed THEN "none" ELSE "some"]
  /\ Becomes(l, Forgets(l, "recorded"))
  /\ Works
  /\ UNCHANGED <<operatorVars, guestVars, directive, bookmark, chosenVars, fetch>>

\* The recipe is emitted and the process ends, which frees the lock.
Emits(l) ==
  /\ launch[l].pc = "recorded"
  /\ directive' = IF launch[l].prompted THEN l ELSE directive
  /\ past' = [past EXCEPT !.replaced = IF launch[l].prompted THEN @ \cup ({directive} \ {"none"})
                                                            ELSE @]
  /\ MovesTo(l, "cloning")
  /\ Works
  /\ UNCHANGED <<operatorVars, guestVars, record, bookmark, chosenVars, fetch>>

\* A bare clone of the project has no branch of the sandboxes; git refuses to
\* clone over a mirror that has appeared since.
Clones(l) ==
  /\ launch[l].pc = "cloning"
  /\ launch[l].clone => ~mirror.there
  /\ mirror' = [mirror EXCEPT !.there = TRUE]
  /\ MovesTo(l, "seeding")
  /\ Works
  /\ UNCHANGED <<operatorVars, guest, filesVars, bookmark, chosenVars, fetch, past>>

\* Mutant: the recipe seeds the branch of a resumed instance, too.
PushesSeedAlways(l) ==
  /\ launch[l].pc = "seeding"
  /\ mirror' = [mirror EXCEPT !.branch = launch[l].seed]
  /\ past' = IF launch[l].fresh THEN [past EXCEPT !.pushes = "none"] ELSE past
  /\ Becomes(l, [launch[l] EXCEPT !.pc = "basing", !.seed = 0, !.fresh = FALSE, !.probe = "branch"])
  /\ Works
  /\ UNCHANGED <<operatorVars, guest, filesVars, bookmark, chosenVars, fetch>>

PushesSeed(l) ==
  /\ launch[l].pc = "seeding"
  /\ mirror' = IF launch[l].fresh THEN [mirror EXCEPT !.branch = launch[l].seed] ELSE mirror
  /\ past' = IF launch[l].fresh THEN [past EXCEPT !.pushes = "none"] ELSE past
  /\ Becomes(l, [launch[l] EXCEPT !.pc = "basing", !.seed = 0, !.fresh = FALSE, !.probe = "branch"])
  /\ Works
  /\ UNCHANGED <<operatorVars, guest, filesVars, bookmark, chosenVars, fetch>>

PushesBase(l) ==
  /\ launch[l].pc = "basing"
  /\ mirror' = IF launch[l].base # 0 THEN [mirror EXCEPT !.base = launch[l].base] ELSE mirror
  /\ Becomes(l, [launch[l] EXCEPT !.pc = "booting", !.base = 0, !.saw = 0])
  /\ Works
  /\ UNCHANGED <<operatorVars, guest, filesVars, bookmark, chosenVars, fetch, past>>

\* A launch dies, or an aborted step ends it.  Before the record is written
\* that leaves at most a claimed card and a commit nobody refers to.
Dies(l) ==
  /\ launch[l].pc \in {"recorded", "cloning", "seeding", "basing", "booting"}
  /\ Becomes(l, Done)
  /\ past' = [past EXCEPT !.muddled = @ \/ launch[l].pc \in {"recorded", "cloning", "seeding"}]
  /\ Works /\ LaunchFrame

-----------------------------------------------------------------------------
(* The guest.                                                              *)

\* The workspace service clones the mirror, or replays the commits of the
\* branch on the mirror's base, those of the operator that HEAD has left with
\* them.  A conflict fails it, and the branch is as it was: the session, which
\* is only ordered after the service, begins all the same.
Boots(l) ==
  /\ launch[l].pc = "booting" /\ ~guest.up
  /\ LET told == IF launch[l].prompted THEN l ELSE "none"
         clone == guest.clone
         base == mirror.base
         Comes(c) == guest' = [up |-> TRUE, clone |-> c, told |-> told]
         Keeps == UNCHANGED <<log, past>>
     IN \/ clone = 0 /\ Comes(mirror.branch) /\ Keeps
        \/ clone # 0 /\ Comes(clone) /\ Keeps
        \/ clone # 0 /\ base # 0 /\ base # clone /\ Descends(base, clone) /\ Comes(base) /\ Keeps
        \/ /\ clone # 0 /\ base # 0 /\ ~Descends(clone, base) /\ ~Descends(base, clone) /\ Room
           /\ log' = Append(log, Child(base, AgentCommits(clone) \ From(base) # {},
                                       log[base].has \cup log[clone].has, MergedBoard(clone, base)))
           /\ Comes(NewId)
           /\ past' = [past EXCEPT !.loose = @ \/ From(clone) \cap host.left # {}]
  /\ Becomes(l, Done)
  /\ Works
  /\ UNCHANGED <<edits, host, mirror, filesVars, bookmark, chosenVars, fetch>>

\* The VM of another launch is up: a second one cannot start on its disk, but
\* its socket is there, so that the text reaches the session that is running.
Joins(l) ==
  /\ launch[l].pc = "booting" /\ guest.up
  /\ guest' = [guest EXCEPT !.told = IF launch[l].prompted THEN l ELSE @]
  /\ Becomes(l, Done)
  /\ Works
  /\ UNCHANGED <<operatorVars, mirror, filesVars, bookmark, chosenVars, fetch, past>>

GuestFrame == UNCHANGED <<host, filesVars, bookmark, chosenVars, launch, fetch, failures>>

AgentWorks ==
  /\ guest.up /\ Room /\ edits < scene.edits
  /\ edits' = edits + 1
  /\ log' = Append(log, Child(guest.clone, TRUE, log[guest.clone].has \cup {edits + 1},
                              log[guest.clone].board))
  /\ guest' = [guest EXCEPT !.clone = NewId]
  /\ UNCHANGED <<mirror, past>> /\ GuestFrame

\* git push, forced if the branch was rebased.
AgentPushes ==
  /\ guest.up /\ guest.clone # mirror.branch
  /\ mirror' = [mirror EXCEPT !.branch = guest.clone]
  /\ past' = [past EXCEPT !.pushes = IF guest.clone = record THEN "none" ELSE "some"]
  /\ UNCHANGED <<log, edits, guest>> /\ GuestFrame

GuestStops ==
  /\ guest.up
  /\ guest' = [guest EXCEPT !.up = FALSE, !.told = "none"]
  /\ UNCHANGED <<log, edits, mirror, past>> /\ GuestFrame

\* prompt --redeliver to a running instance.
Redelivers ==
  /\ guest.up /\ directive # "none"
  /\ guest' = [guest EXCEPT !.told = directive]
  /\ UNCHANGED <<log, edits, mirror, past>> /\ GuestFrame

-----------------------------------------------------------------------------
(* fetch and deliver.                                                      *)

\* Local branches that have commits on top of the bookmark (one that is at
\* the bookmark has none).
HasHostWorkOnTop == bookmark # 0 /\ host.head # bookmark /\ Descends(host.head, bookmark)

\* Mutant: the fetch does not look for local branches on top of the bookmark.
LooksAway ==
  /\ scene.fetches /\ fetch.pc = "idle"
  /\ \/ Works /\ fetch' = [IdleFetch EXCEPT !.pc = "looked", !.head = host.head]
     \/ Fails /\ fetch' = [IdleFetch EXCEPT !.pc = "looked", !.head = host.head, !.blind = TRUE]
  /\ UNCHANGED <<operatorVars, guestVars, filesVars, bookmark, chosenVars, launch, past>>

\* read_remote_ref_tip and guard_against_local_descendants; a probe that
\* fails lets the fetch pass.
Looks ==
  /\ scene.fetches /\ fetch.pc = "idle"
  /\ \/ ~HasHostWorkOnTop /\ Works /\ fetch' = [IdleFetch EXCEPT !.pc = "looked", !.head = host.head]
     \/ Fails /\ fetch' = [IdleFetch EXCEPT !.pc = "looked", !.head = host.head, !.blind = TRUE]
  /\ UNCHANGED <<operatorVars, guestVars, filesVars, bookmark, chosenVars, launch, past>>

Pulls ==
  /\ fetch.pc = "looked"
  /\ IF mirror.branch = 0
     THEN fetch' = IdleFetch /\ UNCHANGED bookmark
     ELSE /\ bookmark' = mirror.branch
          /\ fetch' = [IdleFetch EXCEPT !.pc = "pulled", !.seed = record, !.news = past.pushes = "some",
                                    !.exact = ~past.muddled /\ Quiet]
  /\ UNCHANGED <<operatorVars, guestVars, filesVars, chosenVars, launch, failures, past>>

\* work_landed: an unknown seed, or a probe that fails, counts as work.
Judges ==
  /\ fetch.pc = "pulled"
  /\ \/ Works /\ fetch' = [fetch EXCEPT !.pc = "idle", !.seed = 0, !.exact = @ /\ record = fetch.seed,
                           !.verdict = IF bookmark = record THEN "warned" ELSE "landed"]
     \/ Fails /\ fetch' = [IdleFetch EXCEPT !.verdict = "landed"]
  /\ UNCHANGED <<operatorVars, guestVars, filesVars, bookmark, chosenVars, launch, past>>

\* deliver pushes main or the bookmark under delivered/.
Delivers ==
  /\ scene.delivers /\ mirror.there
  /\ \E c \in {host.head} \cup Bookmarks : mirror' = [mirror EXCEPT !.delivered = c]
  /\ UNCHANGED <<operatorVars, guest, filesVars, bookmark, chosenVars, launch, fetch, failures, past, scene>>

-----------------------------------------------------------------------------
OperatorStep ==
  \/ EditsTree \/ Tracks \/ EditsBoard \/ CommitsTree
  \/ \E c \in Bookmarks : Lands(c) \/ FastForwards(c) \/ CherryPicks(c)
  \/ \E c \in Named : Resets(c)

LaunchStep(l) ==
  \/ \E b \in BOOLEAN : Guards(l, b) \/ Starts(l, b)
  \/ Claims(l) \/ Resumes(l) \/ SnapshotFails(l) \/ Strips(l) \/ StripFails(l)
  \/ \E probe \in {"absent", "failed"} : Snapshots(l, probe) \/ SeedsHead(l, probe)
  \/ Records(l) \/ Emits(l) \/ Clones(l) \/ PushesSeed(l) \/ PushesBase(l)
  \/ Boots(l) \/ Joins(l) \/ Dies(l)

Next ==
  \/ OperatorStep
  \/ \E l \in Launches : LaunchStep(l)
  \/ AgentWorks \/ AgentPushes \/ GuestStops \/ Redelivers
  \/ Looks \/ Pulls \/ Judges \/ Delivers

WorkProductSpec == Init /\ [][Next]_vars

-----------------------------------------------------------------------------
(* Properties.                                                             *)

\* The state is well typed, and a plan has a seed.
WorkProductTypeOK ==
  /\ log \in Seq(Commit) /\ Len(log) <= MaxCommits
  /\ edits \in 0..MaxEdits
  /\ host \in [head : 1..Len(log), tree : SUBSET (1..MaxEdits), board : 0..MaxBoards,
              untracked : SUBSET (1..MaxEdits), left : SUBSET (1..Len(log))]
  /\ mirror \in [there : BOOLEAN, branch : 0..Len(log), base : 0..Len(log), delivered : 0..Len(log)]
  /\ guest \in [up : BOOLEAN, clone : 0..Len(log), told : Launches \cup {"none"}]
  /\ {bookmark, earlier, record} \subseteq 0..Len(log)
  /\ directive \in Launches \cup {"none"}
  /\ launch \in [Launches -> Launching]
  /\ \A l \in Launches : launch[l].pc \in {"snapped", "planned", "recorded"} => launch[l].seed # 0
  /\ fetch \in Fetching
  /\ failures \in 0..scene.failures
  /\ past \in Past
  /\ scene \in Scenes

\* What the guest has pushed is overwritten by nobody but the guest and a
\* launch that did not see it: its probe of the branch failed, or came before
\* the branch was there.  The base goes back only if another launch moved it
\* after this one had looked, or if the operator had taken HEAD back from it
\* (start.rs: resolve_seed, resolve_base_refresh).
Rewinds(old, new) == old # 0 /\ old \notin log'[new].from
MirrorIsRewrittenOnlyBlindly ==
  [][/\ Rewinds(mirror.branch, mirror'.branch) /\ mirror'.branch # guest.clone =>
          \E l \in Launches : /\ launch[l].pc = "seeding" /\ launch'[l].pc = "basing"
                              /\ launch[l].probe \in {"absent", "failed"}
     /\ Rewinds(mirror.base, mirror'.base) =>
          \E l \in Launches : /\ launch[l].pc = "basing" /\ launch'[l].pc = "booting"
                              /\ launch[l].saw # mirror.base \/ mirror.base \in host.left]_vars

\* A seed is what the operator saw when it was taken: it holds every edit of
\* the files git tracked in the working tree of then and nothing else, unless
\* git failed to take the snapshot (start.rs: resolve_seed;
\* strip_board_from_stash commits the tree of the snapshot, although on what is
\* HEAD by that time).
SeedIsTheWorkingTree ==
  \A l \in Launches :
    launch[l].pc = "planned" /\ launch[l].fresh /\ launch[l].took # "nothing" =>
      log[launch[l].seed].has = launch[l].tree

\* Landing a dispatched branch, however often it was rebased in between,
\* never changes the board, unless git failed while it was stripped from the
\* seed, HEAD moved since the snapshot, or the branch was built on commits that
\* HEAD has left since (start.rs: strip_board_from_stash).  Else only the
\* operator does, by a commit or by setting HEAD anew.
SetAnew == host.head \notin log'[host'.head].from \/ host'.head \in host.left
BoardIsTheOperators ==
  [][log'[host'.head].board \in {log[host.head].board, host.board} \/ SetAnew
     \/ past.loose \/ \E c \in Bookmarks : From(c) \cap host.left # {}]_vars

\* An unforced dispatch builds on an agent's commit only if a bookmark has it
\* or it came after the guard had looked (dispatch.rs).
StraysAreRefused ==
  \A l \in Launches : launch[l].pc = "planned" /\ launch[l].guarded =>
    AgentCommits(launch[l].seed) \cap launch[l].seen \subseteq Frozen

\* A fetch moves the bookmark away from below the operator's commits only if
\* these were made, or the probe failed, when the guard had looked (fetch.rs).
FetchKeepsHostWork ==
  [][bookmark # 0 /\ ~Descends(bookmark', bookmark) /\ HasHostWorkOnTop =>
       fetch.blind \/ fetch.head # host.head]_vars

\* The verdict of a fetch is right, when the record was written by a launch
\* that overlapped no other and did not die, and no launch wrote it anew in
\* between: it warns exactly if the guest has pushed nothing since, or nothing
\* but that seed again (fetch.rs: work_landed).
VerdictIsExact ==
  fetch.pc = "idle" /\ fetch.exact => (fetch.verdict = "warned" <=> ~fetch.news)

\* The text a session was told by its launch is the one that is kept for a
\* redelivery, unless a later launch with a text has overwritten it, and never
\* is there none (start.rs keeps the text before the recipe runs; directive.rs).
DirectiveOutlivesTheLaunch ==
  guest.told # "none" => /\ directive # "none"
                         /\ guest.told = directive \/ guest.told \in past.replaced

\* What a launch seeds a guest with is sound: it is the operator's work and no
\* stray agent's, and its text is kept until the text of another replaces it.
SeedIsSound ==
  WorkProductTypeOK /\ SeedIsTheWorkingTree /\ StraysAreRefused /\ DirectiveOutlivesTheLaunch

\* What comes back from a guest takes nothing of the operator's away, neither
\* the board nor commits on top of the bookmark.
HostKeepsItsOwn == BoardIsTheOperators /\ FetchKeepsHostWork
=============================================================================
