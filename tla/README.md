# Katsuobushi: specification and proofs

Katsuobushi runs coding agents in throw-away virtual machines. A controller on
the host (`rust/katsuobushi-controller`) allocates an instance, seeds it with the
operator's work, boots it, sends the agent prompts over a vsock connection, waits
for its reports and fetches what it committed. A server in the guest
(`rust/katsuobushi-sandbox-guest`) hands the prompts to the agent's harness, keeps
track of the turn in flight, and tells the host how the turn ended and whether the
agent is still at work. A kanban board of markdown files in the repository says
which cards there are to be worked on.

This directory holds TLA+ modules for the parts of this system that are hard to
get right by testing, TLC configurations that check them on small instances, and
TLAPS proofs for the turn-state machine, the guest server, the drive protocol, the
heartbeats, the allocation of instances, the recipe of a launch and those who look at
it, the work that goes into a guest and comes back, the liveness record, the files that are
replaced or appended to, the commands on the board, the board's text and what commands and
people make of it, and the clock.

Paths below are relative to the repository; `server.rs` is
`rust/katsuobushi-sandbox-guest/src/bin/server.rs`, and file names without a
directory are under `rust/katsuobushi-controller/src/` (`sandbox/`, `project/`) or
`rust/katsuobushi-sandbox-guest/src/`.

    tlc -workers 2 -config MCTurnSession.cfg MCTurnSession     # check
    tlapm TurnSession_proofs.tla                               # prove


## 1. Inventory

| component | state | operations | module |
|---|---|---|---|
| turn-state machine (`Session`, server.rs) | the turn in flight, the ready latch, the record for `turn-state.json` | one step per event: prompt, injection confirmed, report, three hooks, grace timer | `TurnSession`, `TurnLifecycle` |
| guest control server (server.rs) | the connection, report tasks, grace loops, `turn-state.json`, `turn_armed` | read a prompt, inject, confirm, execute an outcome, persist | `GuestServer` |
| drive protocol (prompt.rs with server.rs) | the drive's phase, acknowledgement, resends, both directions of the connection | start, ready-gate, read a line, delivery deadline, re-armed deadline, abandon | `TurnProtocol` |
| liveness record (liveness.rs) | `liveness.json`: next turn id, last heartbeat, stream mark | allocate an id, mark, touch, clear, judge | `LivenessRecord` |
| heartbeat tasks and work state (runner.rs, heartbeat.rs, server.rs) | per heartbeat its run of beats, the update channel, the coordinator's map, `work-state.json` | run a round, receive, tick, write | `WorkState` |
| heartbeat set (runner.rs, heartbeat.rs) | loaded and broken paths, task handles | scan, evaluate, abort, spawn | `HeartbeatSet` |
| instances (start.rs, stop.rs, prune.rs, instance.rs, resolve.rs) | per instance a state directory with `instance.json`, its VM and monitor socket; `.start.lock` | start, resume, stop, prune | `Launch` |
| recipe of a launch (the script start.rs emits) | phase marker, mirror, database snapshot, key pair, secrets, runtime directory | one step per command that matters, traps, timeout | `Provision` |
| status and preflight (status.rs, gfx.rs, spec.rs), attach, screenshot, selection by number (resolve.rs) | none of their own; what they read while it changes | probe, gate, attach, capture, list and resolve | `Provision` |
| seed, base refresh, dispatch's guard, deliver, fetch (start.rs, dispatch.rs, deliver.rs, fetch.rs, directive.rs) | git refs of host, mirror and guest; the recorded seed; the kept directive | snapshot, strip the board, push, replay, fetch, judge | `WorkProduct` |
| project board, commands (`project/`) | lanes and archive, a note per card with its outcome | new, set-status, accept-all, prioritize, dispatch's claim | `Board` |
| board as text, lint, listings (board.rs, lint.rs, query.rs) | the lines of `BOARD.md` | parse, write, every command, lint, lint --fix, list, icebox | `BoardText` |
| note frontmatter (note.rs) | the lines above a note's text | read, set, remove a key; fold `design` into the labels | `NoteText` |
| replaced files and the report journal (fs.rs, liveness.rs, report_log.rs, server.rs) | a file and its temporary; an append-only file | write-and-rename, read; append, parse | `FileWrites` |
| dates and ages (clock.rs, liveness.rs, status.rs, query.rs) | none | days to dates and back, stamps, ages, durations | `Calendar` |
| command line and output, spec decoding, filters and label index | none | one-shot rendering and parsing | not modelled, see section 8 |
| NixOS guest, nix libraries, templates, skills | declarative or prose | - | not modelled |

How they interact:

- The drive sends `Prompt` lines and reads `SessionReady`, `TurnAccepted`,
  `Report` and `TurnCompleted` lines. One connection is served at a time; a drive
  may be abandoned and the next one waits in the backlog until the guest notices.
- The control task, one task per line from the harness, and one loop per grace
  window share the session under a lock. The lock covers the step only; what the
  step asked for is executed after it is released.
- The harness is not part of the repository. It takes one notification at a
  time, fires `UserPromptSubmit` when it begins one and `Stop` when it is done,
  and may run `report` in between. Hook lines carry no turn id.
- The coordinator reads the session's terminal flag and the updates of all
  heartbeat tasks from one channel; the turn heartbeat polls `turn_armed`, which
  the outcomes of the session set and clear.
- Host commands are separate processes that share files: several `prompt`s
  share `liveness.json`, and starts, stops and prunes share the state directories.
  Only starts exclude one another (`.start.lock`), and only until the recipe runs.
  Board commands share `BOARD.md` and the notes, and `dispatch` claims a card like
  any of them.
- A launch talks to later commands through what its recipe leaves in two
  directories: the phase marker, the record, the key pair, the store's verdict.
- Work reaches the guest as a branch pushed into a bare mirror, and comes back as
  a remote bookmark; host, mirror, guest and bookmark move on their own.
- `BOARD.md` and the notes are also edited by people and reformatted by their
  editors, between any two commands.

What is hard, and what makes each component correct:

| component | hard behaviour | what has to hold |
|---|---|---|
| turn-state machine | any order of prompts, resends, reports, hooks and timers, late ones included | one verdict per turn, given when it is due; the record agrees with the machine; a stopped turn is always watched by exactly one grace loop |
| control server | effects of two steps land in either order; injections fail | no grace timer is lost or doubled; a turn that was never delivered stays retryable; deliveries are budgeted; what is left behind is right once all effects are done |
| drive protocol | lost deliveries, resends that race the acknowledgement, abandoned drives, stray hooks | success is reported only for a turn that claimed it, and a stop only after a stop; a drive returns; an executed turn is not run again |
| liveness record | load-change-store without a lock, kills between any two steps, corrupted files | ids are unique; a stream is not believed alive after its driver died |
| work state | bodies that are slow, hang or linger; throttled writes; tasks that die | `active` means recently active; a slow task is not taken for a dead one; the record is current |
| heartbeat set | files that change between listing and reading | tasks follow files; an error is reported once per break |
| instances | two starts, a resume, a stop and a prune at the same time; crashes between decision and record | no two records claim one CID or port; what runs is on record; a sweep removes what it should |
| recipe, status, attach | signals, kills and failures at each step; overlapping launches; a host that changes | nothing half made is left; status tells the truth; the gate foretells; attach and numbers get to the right instance |
| work product | overlapping launches, git that fails, HEAD that moves, guest and fetch at the same time | committed work is overwritten by nobody who saw it; the board stays the operator's; the verdict of a fetch is right |
| board | commands that overlap without a lock, or die between the note and the board | a card is in one place; an outcome is stamped exactly on archived cards; Ready can be accepted from the top; a card has one implementor |
| text of board and notes | hand edits, wrapped values, block lists, foreign lines | rewriting loses nothing and settles; a note keeps saying what it says; lint finds what it should and `--fix` converges |
| replaced files, journal | writers that die at any point; torn appends | readers see whole texts; a torn entry costs at most the next |
| dates and ages | ends of months, leap years, centuries | stamps agree with the calendar, sort like time, and ages are honest |

`PROJECT.json` lists every hazard at its line, with the properties that cover it
or the reason why none does.


## 2. How the modules fit together

    TurnLifecycle                    what the machine promises (abstract)
        ^ implemented by
    TurnSession <--- EXTENDS --- GuestServer      tasks and their effects
        ^   \------- EXTENDS --- TurnProtocol     host, wire, guest, harness
        |
    TurnSession_proofs <--- GuestServer_proofs    extends GuestServer as well
        ^------------------ TurnProtocol_proofs   extends TurnProtocol as well

    Launch, BoardText, Calendar <--- Controller_proofs
    Provision                   <--- Provision_proofs
    WorkProduct                 <--- WorkProduct_proofs
    HeartbeatSet, WorkState     <--- Heartbeats_proofs
    LivenessRecord, FileWrites, Board <--- Files_proofs

    Board

    BoardText  NoteText  FileWrites  Calendar <--- MCFiles, one scene each

`GuestServer` and `TurnProtocol` are composed with `TurnSession` by conjoining
its actions into theirs: whenever a task steps the session, the step is one of
`Prompt`, `Injected`, `Report`, `HookSessionReady`, `HookTurnAccepted`,
`HookTurnEnded` and `GraceExpired`, and what it asks for is read off `out'`. They are two
compositions rather than one because each is about one kind of asynchrony:
`GuestServer` has late and reordered effects but no host, `TurnProtocol` has both
ends of the connection but lets effects happen with their step.

The life of one instance is told three times, each time without what the other two
are about: `Launch` is about several instances and their claims, `Provision` about
the steps of the recipe and those who watch it, `WorkProduct` about commits. The
board likewise: in `Board` commands overlap and a board is a value, in `BoardText`
they follow one another and a board is text.

Every model has an `MC` module with the values of its constants; operators marked
"Mutant" are deliberately wrong variants of the definition that follows them, and
serve to see that the properties notice. A variable marked "history" records what
happened for the sake of a property; no step of the code depends on it.


## 3. The modules and the code

### TurnSession

| definition | code |
|---|---|
| `turn`, `ready`, `record` | `Session::turn`, `session_ready`, `state` |
| `out` | the `Outcome` returned by `Session::step` |
| `Prompt(id)` and its four branches | the `Prompt` arm: retry of an undelivered turn, re-injection of one that landed and did not begin, dropped duplicate, new turn |
| `Injected(id)` | the confirmation after `inject_prompt` succeeded |
| `Report(status, tag)` | the `Report` arm; `tag` 0 is a report without id |
| `HookSessionReady`, `HookTurnAccepted`, `HookTurnEnded` | the three hook arms |
| `GraceExpired(id)` | the `GraceExpired` arm: nudge, resolve, moot |
| `grace` | the grace timers the machine asked for that have not fired |

Texts and timestamps are dropped: no branch depends on them. The environment is
the most general one (any event in any state), so whatever holds here holds for
every harness and every host. `TurnLifecycle` is what is left when the host's
view alone counts: a turn is open, begun, reported or stopped, is reminded at
most `Patience` times, and gets one verdict.

### GuestServer

`control` is `serve_control`, with the points at which it awaits: reading,
injecting, confirming, executing. `tasks` are the short-lived tasks, one per
report or hook line and per grace timer that fires, each with what remains of
`execute_outcome` (persist; then arm or silence, nudge, new timer). `sleeping` are the
grace loops in their sleep, `disk` is `turn-state.json`, `armed` is `turn_armed`.
`Persist` is `persist` with its throttle: a throttled snapshot may be dropped, a
forced one is not, but its write may fail, which is logged and not made up for.
`inbox` and `running` are the harness. `ahead` and `past` are
history: `ahead` relates two of those that have something left to do if the first
took its step of the session before the second; `past` says whether an effect
overtook another one, whether a hook was taken for that of another turn, and whether
the last forced write failed.

### TurnProtocol

`drive` is the state of `drive` in prompt.rs: the ready-gate, then the stream with
its acknowledgement flag, resend count and re-armed deadline. One action per
thing it can see: a line (`DriveReads`, split as `handle_phase1_line` is), the
delivery deadline, the deadline re-armed by `--until-report`, and the abandonment
of the drive (heartbeats missing, end of file, interrupt). There is no clock; an
armed deadline may pass at any time, which covers every ratio of delays.
A report carries the id of its turn or none (`Tags`); the agent is not asked for
it (server.rs:81-86, 658-664; `lib/sandbox/default.nix`:542-549), so none is the
normal case. `deed` remembers what the harness really did with each turn: whether it
claimed it in a report, and which drive was the last to have begun when it
stopped, or reported on it without an id.

### LivenessRecord

Every read-modify-write of `liveness.json` is three steps: load, write of the
temporary file (one name for all processes), rename. A process may be killed between any
two, the file may be damaged at any time, a read of it may fail, which counts as no
file at all (`Contents`, liveness.rs:75-78), and so may the host's clock. `Change` is the four
updates, `Believed` is the judgement of `render_liveness`, with a clock or without.

### WorkState

Time moves in seconds; a second passes only when everything that takes no time
has been done (`Settled`). `task` is one `run_one` loop (check body, detail body,
send) or the turn heartbeat's poll; `Sends` includes `apply_check`. `Receives` and
`Ticks` are the two arms of the coordinator's select, each followed by
`CombineWorkState`, the send to the host on a transition and the throttled write of
`work-state.json`. A host that is slow to read keeps the send, and with it the
coordinator, for up to `SendTimeout`, while updates queue; such sends may follow one
another, for `MaxHeld` seconds in all until the channel is drained again. An entry
remembers for how long at most it had `waited` in the channel, which nobody can see from
`received_at_secs`. Ages are kept instead of time stamps and capped where they no longer
matter, so runs are unbounded in time.

### HeartbeatSet

One heartbeat directory. `Lists` and `Reads` are `load_heartbeats` before and
after the listing, with edits possible in between; `Applies` is `eval_scan` with
the aborts and spawns that follow.

### Launch

One action per step of a start that another process can see: `Locks` (name and
`.start.lock`), `Decides` (probe of claims, choice of CID and port, truncation of
`instance.json`), `Records` (rest of the write, release), then the recipe
`MakesDirs`, `Boots`, `Leaves`; `Aborts` is death at any of them. The VM binds its monitor
socket after it came up (`Binds`). `stop` looks for that socket and sends the quit (`Asks`), probes
the monitor until it is refused (`Confirms`), waits in vain for a greeting (`Doubts`) or gives
up (`Refuses`), and then `Removes` or `Keeps`; that the quit has worked is a `VmDies`. What a stop
knows of the VM is what the probe says: without a socket, or a greeting within a
second, it is taken for dead (qmp.rs:47-55). `prune` reads the board and lists, then handles
one instance at a time. An instance name is what the commands read off it: its
kind, its card and whether it ends in eight hex digits. `upset` is history: the
instances that another start, a stop or a sweep was in the way of since they were last
started, or whose VM a stop took for dead.

### WorkProduct

One named instance and the git repositories around it. `log` holds every commit,
as what the commands ask git about it: the commits it descends from, whether the
agent wrote it, the edits its tree holds and the version of the board in it.

| definition | code |
|---|---|
| `mirror`, `bookmark`, `record`, `directive` | `sync.git`, `refs/remotes/sandbox-guest/<inst>`, the seed in `instance.json`, `directive.md` |
| `Guards`, `Claims`, `Starts` | `guard_against_agent_commits`, `prepare` and the hand-over of dispatch.rs |
| `Resumes`, `Snapshots`, `SeedsHead`, `SnapshotFails` | `resolve_seed` with its probe of the branch, and `resolve_base_refresh` |
| `Strips`, `StripFails` | `strip_board_from_stash`, with the steps of it that are best effort |
| `Records`, `Emits`, `Clones`, `PushesSeed`, `PushesBase` | the record under the lock, and the git commands of the recipe |
| `Boots`, `AgentWorks`, `AgentPushes`, `GuestStops`, `Redelivers` | the guest's workspace service, its pushes, `prompt --redeliver` |
| `Looks`, `Pulls`, `Judges` | fetch.rs: guard against local descendants, forced fetch, `work_landed` |
| `Delivers` | deliver.rs |
| `EditsTree`, `EditsBoard`, `CommitsTree`, `Lands`, `FastForwards`, `CherryPicks` | what the operator does in between, by the script of the orchestration skill and off it |

Git's answers may fail (`Fails`), where the code takes a failure for an answer. A
`Scene` says which launches are made, which commands are run and how far a
behaviour may go; it is chosen at the start and never changes.

### Provision

What the other commands see of a launch. The recipe is the script start.rs emits,
one action per command that leaves something behind (`MakesDirs` to `DropsMarker`),
with its phase marker and the trap that removes it; `Aborts`, `IsSignalled`,
`IsKilled` and `Reboots` end it early, `SnapshotFails` stands for the timeout. `vm`
comes up in stages, `volume` is the store it seeds once. `look` is a `status`,
`attach` or `screenshot` that reads first and answers later; `InSight` says whether
its shell expands the runtime root as the launch's did. `ResolveGpu` and
`Preflight` are the graphics ladder and the gate, `pick` is a listing that is later
used by number. Scenes as above.

### BoardText

A line of `BOARD.md` is what the parser takes it for: heading, item, continuation,
blank, rule, foreign line, settings. `Parse` and `ToText` are board.rs; each
command is an action on the parsed board that writes the text anew, every one of
them forced, so that what protects the text is the text handling and not the
state machine. `Touches` is a person who inserts or deletes any line, or a note.
`Errors`, `Warnings` and `Mended` are lint.rs. `meant` and `kind` are history.

### NoteText

The frontmatter by lines: a key with its value inline, as a flow list, or on the
lines below it, wrapped or as bullets. `GetScalar`, `GetList`, `Revised` are note.rs,
`Stamps` the stamp of an outcome, `FoldsDesign` what lint --fix does. `Wraps`,
`Unfolds` and `Adds` are Prettier, Obsidian and a person. `says` is what all of
them believe the note to say.

### FileWrites

A file is an inode; the temporary file shares one name among all writers. A writer
opens (creates or empties) it, fills it and renames it, and may die or fail after
any prefix; a reader opens the file before it reads it. The journal is a list of
entries, each of which may have been cut before the newline, amid its text or amid
a character.

### Calendar

`CivilFromDays` and `DaysFromCivil` are the divisions of clock.rs, with Rust's
truncation. A day passes at a time beside a calendar (`Morrow`) that only knows how
long months are.

### Board

`board` is `BOARD.md`, `note` the dispositions in the notes. Every command is a
process in `user` that reads the board (`Starts`), loads the notes (`LoadsNotes`),
decides and stamps (`Decides`, in one action per command), and writes the
board it computed (`Stores`), whatever the board has become meanwhile. `apply`
reads anew, which matters where something was decided before: the claim of a
dispatch (`Guards`, `Claims`) and the cards of an `--accept-all`
(`ReadsAgain`). A command may die at any point (`Quits`). `agents`, `overwritten`,
`cut` and `handmade` are history: they say which cards were launched, and
which excuses apply. A file is written at once here; `FileWrites` looks into that.


## 4. The runs

| run | specification and bounds | checks | shows |
|---|---|---|---|
| `turn_session` | `FairSpec`; ids 1 and 2, each opened at most twice; 2 nudges, 2 re-injections | `TypeOK` `RecordTracksTurn` `StoppedTurnIsWatched` `OneGraceLoopPerTurn` `StoppedTurnResolves` `KeepsThePromise` | the machine is right under every order of events |
| `guest_server` | 2 tasks besides control, 2 ids, each opened at most twice, 3 prompts or failed writes together, 1 report, 1 nudge, 1 re-injection | `TimersAreAccountedFor` `DeliveredUntilBegun` `EffectsCatchUp` | no timer is lost or doubled, no turn is wedged or over-delivered, and what effects leave behind is the session's, unless one overtook another or the last forced write failed |
| `turn_protocol` | `FairProtocolSpec`; 2 drives, either mode, 1 resend, 1 abandoned drive, 1 lost or failed injection, 1 report, with or without its turn's id | `ProtocolTypeOK` `VerdictsAreTrue` `DriveReturns` `RerunsOnlyAsNewTurn` | success takes a report on the turn, or one without an id since the drive began; `Stopped` a stop; drives return unless such a report misled them; executed turns are not re-injected |
| `liveness_record` | 2 processes, 2 ids, clock 0..2, deadline 1, kills, damage, reads and clocks that fail | `IdsSurviveDamage` `NoPhantomStream` | ids are unique unless two processes race or a record cannot be read; kills and corruption alone never cost that; no phantom stream as long as the clock answers |
| `launch` | 2 starts, 1 stop, 1 prune, 2 names, 2 CIDs, 2 ports, faults | `ClaimsStayApart` `RunningIsOnRecord` | the allocation lock is enough for the claims, and does not outlive its holder; what runs is on record unless commands about it overlapped, or a stop took it for dead |
| `launch_prune` | 1 start, a dispatched instance | `PruneReapsImplementors` is violated | a sweep leaves dispatched instances behind |
| `provision` | `ProvisionSpec`; 7 scenes, below | `NothingIsLeftHalfMade` `StatusIsTrue` `CommandsReachTheInstance` `GateForetells` `MarkerGoesAway` | what a launch leaves behind is whole, and what other commands say and find is so, with the exceptions each property names |
| `work_product` | 4 kinds of scenes, below | `SeedIsSound` `VerdictIsExact` `MirrorIsRewrittenOnlyBlindly` `HostKeepsItsOwn` | committed work is lost only to a launch that did not see it; the board stays the operator's |
| `work_state` | turn heartbeat polled every second and one file polled every two, 1 fault (an abort, a failed write or a send that takes the host a second), lingering bodies | `ReportedAsItIs` `ActiveIsRecent` `LiveTaskIsNotStale` | the work state is neither stale nor premature |
| `heartbeat_set` | `FairSetSpec`; 2 files, 2 bodies, 5 edits | `SetIsConsistent` `TasksFollowFiles` | tasks, the loaded set and the reports stay consistent and follow the files |
| `board` | every board of 3 cards, a chain of two dependencies; 2 commands that overlap | `BoardAndNotesAgree` `ReadyInDependencyOrder` `OneImplementorPerCard` | the board and the notes disagree, or a card is dispatched twice, only after a command died between its writes or overwrote another |
| `edited_files` | 5 scenes: board, note, file, journal, clock | `RewriteIsFaithful` `CardsSurvive` `LintSettles` `NoteKeepsItsWord` `ReadersSeeWhole` `StampsTellTheTime` | text that people, editors and commands change in turn keeps what it holds |

Several of these are conjunctions whose parts are stated and commented one by one
where the property is defined; the type invariant is among them.

| property | parts |
|---|---|
| `TimersAreAccountedFor` | `ServerTypeOK`, `GraceIsAccountedFor` |
| `DeliveredUntilBegun` | `UndeliveredStaysRetryable`, `DeliveriesAreBounded` |
| `VerdictsAreTrue` | `SuccessIsEarned`, `StoppedMeansAStop` |
| `IdsSurviveDamage` | `LivenessTypeOK`, `ReuseHasACause` |
| `ClaimsStayApart` | `LaunchTypeOK`, `ClaimsAreDisjoint`, `DecisionsStayValid` |
| `NothingIsLeftHalfMade` | `ProvisionTypeOK`, `StrandedOnlyByAKill`, `SnapshotIsWhole` |
| `StatusIsTrue` | `LaunchIsSeen`, `RunningIsReported`, `StoreDbLabelIsTrue` |
| `CommandsReachTheInstance` | `AttachFindsTheSession`, `ScreenshotIsClear`, `NumbersShiftOnlyFromBelow` |
| `SeedIsSound` | `WorkProductTypeOK`, `SeedIsTheWorkingTree`, `StraysAreRefused`, `DirectiveOutlivesTheLaunch` |
| `HostKeepsItsOwn` | `BoardIsTheOperators`, `FetchKeepsHostWork` |
| `ReportedAsItIs` | `WorkTypeOK`, `RecordIsCurrent`, `TurnInFlightShowsActive` |
| `SetIsConsistent` | `SetTypeOK`, `ReportedOncePerBreak` |
| `BoardAndNotesAgree` | `BoardTypeOK`, `StampsFollowTheBoard` |
| `RewriteIsFaithful` | `BoardTextTypeOK`, `ReadsBack`, `RewriteIsStable`, `ListedOrIced` |
| `LintSettles` | `CommandsKeepLintClean`, `FixConverges` |
| `NoteKeepsItsWord` | `NoteTextTypeOK`, `ReadsWhatIsSaid`, `OtherLinesSurvive`, `NoOrphanedItems` |
| `ReadersSeeWhole` | `FilesTypeOK`, `ReplacedWhole`, `TornEntriesCostTheNext` |
| `StampsTellTheTime` | `CalendarTypeOK`, `DatesAreTrue`, `StampsSortLikeTime`, `ArchivedShowForAnHour`, `AgesAreHonest` |

### Why the bounds are enough

- *Two turn ids*: every branch compares an event's id with that of the turn in
  flight, so an id is the current one, an earlier one or a later one; with two
  ids, each opened twice, an event meets all three. The proofs cover any set of ids.
- *Budgets of 1 or 2* distinguish "left", "last" and "spent"; the code's 5 nudges
  and 2 re-injections add no case. `turn_session` uses 2 and 2. `turn_protocol`
  sets the nudges to 0, since a host cannot see them.
- *One report, one abort, one miss* in the compositions: each fault takes away
  at most one delivery, and a single resend is there to meet it. Reports come
  in any order relative to stops and to superseding prompts.
- *Two processes, three ids* in `LivenessRecord`: a lost update takes two; the third
  id lets a counter be rewound and then handed out again.
- *Two starts and two names*: a clash of claims is between two records. The
  names are a named and an unnamed instance, the two kinds whose directories
  are treated differently; either may be resumed or lost.
- *Scenes of `work_product`*: a race over the base takes two resumes, and each needs a
  branch that a third launch has seeded: 3 launches, 3 commits, 1 edit, 1 git
  failure. One dispatch with everything it leads to: 5 commits, 2 edits, 3 versions
  of the board (before, the claim, one more), 1 failure, with fetches. Launches
  that overlap a fetch: 2 launches, 4 commits. An earlier instance whose commits may
  lie about on HEAD: 1 launch, 5 commits, with deliveries.
- *Scenes of `provision`*: two launches of either mode with a fault, under `attach`,
  and the same in agent mode under `status`; one launch with two faults (a kill
  and a restart of the host); an empty runtime variable at launch; a host that changes under a
  ladder of two devices with `screenshot`, or under one that ends in software; and
  three siblings for numbers: one before, at and after the instance that was meant.
- *Scenes of `edited_files`*: a board of two cards and two lanes, three steps of
  which at most two are edits and two commands: what one command leaves, an edit changes and
  the next command reads. Notes with three labels, one with a quote in it, three
  reformattings and two commands. Two writers, one text longer than the other so
  that a torn mixture shows, four replacements; four journal entries, so that an
  entry has two before and one after it. Every day through February 2104, over a
  century that is a leap year and one that is not; ages over three days, from a stamp
  at the end of a February, a year and a century.
- *Intervals of two seconds* for a file make a round longer than its interval
  reachable (check and detail bodies may each take up to an interval): a live
  task is then silent for up to 3 intervals, just what the staleness bound
  allows, and a bound of two would drop it. The turn heartbeat is polled
  every second, so that both are out of step. A host that is slow once, for a
  second, lets an update wait; the proofs cover any number of slow sends of any length.
- *Three cards and two commands*: the order of Ready depends on a blocker, a
  blocked card and one beside them; a lost update takes two commands. Longer
  histories begin at the boards that they lead to: every board is initial.
- *Five edits* let a file be added, broken, mended and removed while the
  directory disappears and returns.

`CHECK_DEADLOCK FALSE` appears where the bounds on faults, prompts and edits let
the system come to rest: once the bounded inputs are used up, nothing has to
happen. `turn_session` has no such bound on its events and is checked for deadlock.

### Fairness

- `FairSpec` assumes that a grace timer that is set fires: it is a `tokio`
  sleep followed by a lock that is held for a synchronous step only.
- `FairProtocolSpec` assumes that tasks and timers of the host and the guest
  run, that an accepted connection is read, and that the harness begins what it was
  handed and stops in the end. It assumes nothing about reports, acknowledgements,
  new drives or aborts; deliveries may be lost. A report may be about an earlier turn
  and name none; a drive that takes one for its acknowledgement may never return, which
  is why `DriveReturns` excepts `Misled`.
- `FairSetSpec` assumes that the rescan interval keeps elapsing (a `tokio`
  interval in a loop without another exit).
- `ProvisionSpec` assumes that the script of a launch goes on: none of its commands
  waits for an event that need not come, and the database snapshot, which could take long,
  runs under a timeout. It assumes nothing of the guest, of an interactive
  session's end, or of those who look.

All are weak fairness: each of these actions, once possible, stays possible until
it happens or its reason is gone.


## 5. What is proved

Every theorem below holds for all values of the constants that the module's
`ASSUME` admits; TLC evaluates the assumptions in a run.

| module | theorem | statement |
|---|---|---|
| `TurnSession_proofs` | `TypeCorrect` | `Spec => []TypeOK`; the nudge and re-injection counters stay within their budgets |
| | `RecordIsTruthful` | `Spec => []RecordTracksTurn`; `turn-state.json`'s record agrees with the machine after every event |
| | `NoTurnIsStranded` | `Spec => []StoppedTurnIsWatched`; a stopped turn that is held open has a timer still to fire |
| | `GraceLoopsAreNotDoubled` | `Spec => []OneGraceLoopPerTurn`; a turn is nudged by one loop only |
| | `MachineKeepsThePromise` | `Spec => KeepsThePromise`; the machine implements `TurnLifecycle` |
| `Controller_proofs` | `ClaimsNeverCollide` | `LaunchSpec => []ClaimsStayApart`; no two instances on record claim one CID or port |
| | `RunningInstancesAreOnRecord` | `LaunchSpec => []RunningIsOnRecord`; what runs is on record as it runs and its bound monitor is in place, unless commands about it overlapped or a stop took it for dead |
| | `ClockAgrees` | `CalendarSpec => StampsTellTheTime`; dates are those of the calendar, stamps sort like time, ages and the hour of an archived card are exact |
| | `RewritesAreFaithful` | `BoardTextSpec => []RewriteIsFaithful`; what is written is read back, written anew it stays as it is, and where lint sees no fault every note is listed once or iced |
| `GuestServer_proofs` | `NoTimerIsLostOrDoubled` | `ServerSpec => []TimersAreAccountedFor`; every grace timer asked for is asleep once, or in the hands of one task |
| | `ResendsDeliverAndStop` | `ServerSpec => []DeliveredUntilBegun`; what the harness was never handed stays to be injected, and no turn is handed over more often than its budget says |
| | `EffectsLandInTheEnd` | `ServerSpec => []EffectsCatchUp`; once all effects are done, `turn-state.json` and the turn heartbeat are the session's, unless one overtook another; the file, unless the last forced write failed |
| `TurnProtocol_proofs` | `ProtocolTypeCorrect` | `ProtocolSpec => []ProtocolTypeOK`; resends stay within their budget |
| | `StoppedVerdictsAreEarned` | `ProtocolSpec => []StoppedMeansAStop`; `Stopped` is said of a turn at or before which one stopped, tagged reports or not |
| | `VerdictsAreEarned` | `ProtocolSpec => []VerdictsAreTrue`; success takes a terminal report on the turn or, since the drive began, one on an earlier turn that names none |
| | `NoTurnIsRerun` | `ProtocolSpec => RerunsOnlyAsNewTurn`; an executed turn is handed to the agent again only after it was opened anew |
| `Heartbeats_proofs` | `HeartbeatSetStaysConsistent` | `SetSpec => []SetIsConsistent`; a path is loaded if and only if it has a task, and a break is reported once |
| | `ActiveRestsOnABeat` | `WorkSpec => []ActiveIsRecent`; active means a beat within the bound, and the time it waited for a slow host, and no miss since |
| | `LiveTasksAreNotDropped` | labels distinct, three intervals or more: `WorkSpec => []LiveTaskIsNotStale`; for any delay of the host |
| | `WorkIsReportedAsItIs` | the same, and there is a turn heartbeat: `WorkSpec => []ReportedAsItIs`; the record is that of this second, a turn in flight shows |
| `Provision_proofs` | `NothingStaysHalfMade` | `ProvisionSpec => []NothingIsLeftHalfMade`; markers are stranded by kills only, the guest is given whole snapshots |
| | `StatusTellsTheTruth` | `ProvisionSpec => []StatusIsTrue`; a launch is seen, a guest that answers is running, the store's label is the store's |
| | `TheRightInstanceIsReached` | `ProvisionSpec => []CommandsReachTheInstance`; by `attach`, `screenshot` and a number |
| | `TheGateForetells` | `ProvisionSpec => []GateForetells`; a launch fails of what the gate looked at only if the host changed |
| `WorkProduct_proofs` | `SeedsAreSound` | `WorkProductSpec => []SeedIsSound`; a seed is the operator's working tree of when it was taken, and no stray agent's work |
| | `VerdictsAreRight` | `WorkProductSpec => []VerdictIsExact`; a fetch that nothing interfered with warns if and only if nothing but the seed was pushed |
| | `PushesAreNotOverwritten` | `WorkProductSpec => MirrorIsRewrittenOnlyBlindly`; what the guest has pushed is overwritten only by a launch that did not see it |
| | `TheHostKeepsItsOwn` | `WorkProductSpec => HostKeepsItsOwn`; what comes back takes neither the board nor the operator's commits away |
| `Files_proofs` | `IdsAreUniqueButForTwoCauses` | `LivenessSpec => []IdsSurviveDamage`; without a race or a record that cannot be read no turn id is handed out twice |
| | `KilledDriversLeaveNoPhantom` | `LivenessSpec => []NoPhantomStream`; status takes no stream for active that nobody was attached to within the deadline, as far as the host's clock answers |
| | `FilesAreReplacedWhole` | `FileSpec => [](FilesTypeOK /\ ReplacedWhole)`; a lone writer's file is whole, and so is what is read |
| | `ReadersSeeTheWhole` | `FileSpec /\ JournalSpec => []ReadersSeeWhole`; so it is with the journal: a torn entry costs at most itself and the next |
| | `BoardAgreesWithNotes` | `BoardSpec => []BoardAndNotesAgree`; a card is in one place, and stamped if and only if archived, but for deaths and overwrites |
| | `ReadyKeepsOrder` | `BoardSpec => []ReadyInDependencyOrder`; a card that nothing blocks stands in Ready before all that it blocks |
| | `CardsHaveOneImplementor` | `BoardSpec => []OneImplementorPerCard`; a card is not given away twice, unless a board was overwritten |

*Assumptions.* `TurnSession`: `TurnIds \subseteq Nat \ {0}` (ids are allocated from
1, and 0 is the model's "none"), `Statuses` among the four statuses of the protocol,
and natural-number budgets. `Launch`: names are records of what the commands read
off them, and the model's "none" and "nobody" are no CID, port or process.
`LivenessRecord`: natural-number bounds. `GuestServer`: those of `TurnSession`,
finitely many tasks at once and natural-number bounds. `TurnProtocol`: those of
`TurnSession` and natural-number bounds. `HeartbeatSet`: the model's "none" is no
file's body. `WorkState`: positive intervals, of which there is a longest. `Provision`:
the model's "none" is no launch, and other instances have positive numbers. `WorkProduct`:
the model's "none" is no launch, and scenes stay within the bounds on commits, edits and
boards, with room for a second commit where there is an earlier instance. `FileWrites`:
what a writer writes is a non-empty sequence, as every file that is replaced has a text.
`Board`: finitely many cards, with blockers among them and dates that are in order.
`Calendar`: the clock shows the end of the year 9999 at the latest, after which no stamp has the
four digits that parsers and sorting go by; readings are seconds of a day.
`BoardText`: the active lanes are a non-empty list without repetition, and neither the icebox nor the
archive is one of them (`Status` in model.rs is an enumeration, each of whose variants has its own title); what
people write is made of lines; natural-number bounds.

Two theorems have hypotheses of their own, and are false without them. `Distinct` (`LiveTasksAreNotDropped`, `WorkIsReportedAsItIs`): no two heartbeats
share a label; the runner says itself that those which do mask each other.
`Multiplier >= 3` (the same): the staleness bound is at least three intervals, as it is in
the code; two are not enough, as a round can last for two and the wait for the third.

*The turn-state machine.* None of the three safety properties is inductive alone.
That a stopped turn is watched depends on its own grace timer not having been
consumed for nothing, which depends on how many there are; that the record is
truthful in the branches that leave it alone depends on a turn that is both
reported and stopped not existing. `IInv` is the conjunction of `TypeOK`,
`RecordTracksTurn`, `StoppedTurnIsWatched` (which says that `ended` excludes
`terminal`) and `OneGraceLoopPerTurn`. `StepSafe` goes through the branches of
`Session::step` one by one and, under each, through the conjuncts the branch can
disturb.

*The refinement.* `Stage` reads the abstract stage off `turn`, `Verdict` reads
the verdict off the messages of the outcome. `InitRefines` maps the initial
state; `StepRefines` maps each branch to one abstract action or to `Other`, and
needs `IInv` to know that a turn concluded by a late terminal report had stopped
without one, and that a nudge leaves the counter within the budget.

*Claims.* That claims are disjoint follows from the lock holder's choice having been
disjoint from all of them and nobody else having added one since: `DecisionsStayValid`
is the strengthening that carries the decision over to its record, and the lock
(which `LaunchTypeOK` ties to the one start that is between decision and record) is what
keeps it valid. Steps that only remove claims are dealt with by one lemma.

*What runs.* `QuietUnlessUpset` says, of each instance that is not upset,
that its start is the only process at it and that the record is as this start wrote
it, up to the boot; that no stop is past its probes while the machine is up (`Ending`); and that a
machine that is up has its record, and its socket once it is bound (`Reachable`). Each
step either keeps this for an instance or upsets it.

*Ids.* `CounterIsAhead` says, as long as there was no race and no record was taken for none, that the file on disk
hands out ids that were never given, that at most one process is midway, and that its
copy is ahead, too. A damaged file has nothing to be ahead of: then no process can
load it, and no id is given any more. Therefore the invariant has one clause per kind of file.

*The phantom stream.* `BeatsAreSeen` says that no record, be it on disk, in the temporary
file or in a process's own copy, tells of a heartbeat later than the last moment
somebody was attached. Stale copies may be written back in any order: each is honest
about the past, so whatever lands is.

*Timers.* `TimersAreAccountedFor` counts: the timers pending for an id are the loops
asleep for it and the tasks that hold one for it, a set whose cardinality changes by one
when a task is spawned and when it is done (`HoldingGrows`, `HoldingShrinks`, from
the library's facts about finite sets). `EffectsHaveTheirTurn` adds that a task only
holds a timer or a nudge for a turn there is, and a free task holds none. The machine's
own types come from the proofs about `TurnSession`, whose steps the server takes.

*Deliveries.* `DeliveriesAreCounted` says, of every turn, how often it has been handed over
for each time it was opened: not before it landed, and then once more for every re-injection
that was charged, less the one that is under way. Only the prompt and its injection
change any of these, together.

*Effects.* What a step of the session asks for is executed in any order, so the invariant
follows the latest: `SnapshotsFollow` says that the last forced snapshot still to be
persisted, or else the file unless the last forced write failed, is the session's record;
`BeatsFollow` the same of the turn
heartbeat; `HooksAreTheTurns` that a hook is that of the turn in flight unless a turn was
given up. For this `ahead` is a relation and not a list: whoever joins is behind
everyone, whoever leaves is forgotten, and nothing else about the order is ever needed.

*The protocol.* A verdict is as good as the line it was read off, which may have been written
for another drive, about a prompt before that. `PromptsInOrder` says that ids do
not go back from the host to the harness: whatever is on its way to the guest is not below
the turn in flight, whatever waits for the harness not above it. `LinesAreTrue`
says of every line on the wire what it takes for granted: a terminal report that it was
`Earned` by the turn it is taken to mean, a completion that the turn was concluded by
either. A report without an id means the drive that reads it, so lines are only true
as long as that drive is on, and are dropped with it. `StopsShow` ties the stops
that the harness remembers to the turn it is at.

*The set of heartbeats.* `SaidOfBroken` adds to the property what the scan goes by: that the
paths known to be broken are exactly those last reported. Files may
change between listing and reading, so the lemma is about any pair of disjoint sets
of valid and broken paths, not about a consistent snapshot.

*The work state.* `RecordFollows` and `StateFollows` say that the record is what the
coordinator last combined and that it combined after the last update.
For the other two the channel matters: `LastFor(l)` is the last update on its way for a
label, if there is one, and what holds of the coordinator's entry when there is none holds
of that update otherwise. So `MapIsRecent` bounds the time since the last beat by the age of the entry and what it waited before
(what is on its way is no older than `held`, the time the channel has not been drained), and
`LiveTasksAreFresh` says how long a live task has been silent at each point of its
round: the wait, the check and the detail body are at most an interval each (`ThreeFit`).
`TurnIsSeen` and `TurnIsTold` follow a turn from the flag to the poll to the map.

*The recipe.* Most of it holds as long as launches do not overlap: then at most one is past
its first step (`OneAtATime`), and snapshot, keys and marker are as that one's step says
(`SnapshotFollows`, `KeysFollow`, `MarkerFollows`). `Watched` says what a command that looks
may rely on since it began; `GateHolds` and `GraphicsFollow` carry what the gate saw, and the
device that was chosen, to where the launch needs them. That a number keeps its meaning is
a fact about ranks: an element of a finite set of numbers is at the place given by how many
are not above it (`NumberIsRank`), so nothing above it matters.

*The work product.* Everything rests on how history grows. `Linear` says that what a commit
descends from are the commits before it on one line, since every commit has one parent: two
commits of one line are in order, and the fork of two lines is the last commit they share
(`ForkIsLast`). Commits are only added and HEAD only goes to descendants (`NextAdvances`), so that
whatever was said of a commit goes on to hold.
That landing never touches the board is about all that may ever come back, however often it was
replayed: `BoardStays` says of every ref, be it in a clone, in the mirror, a bookmark or a plan, that beyond
HEAD's history its commits have the board of the commit they were built on. Moving HEAD only
moves that commit (`BoardStaysKept`), a commit on top inherits it (`BoardStaysInChildren`), and a replay
on the mirror's base brings no board along (`ReplayKeepsBoard`), for the base was HEAD once
(`BasesAreHeads`). `SeedsAreTheTree` carries what a launch saw through the stripping to its plan;
`GuardedSaw` says that before the instance has its name, agents' work is in the bookmark of an
earlier one or nowhere the guard lets pass. For the verdict, `OneAtATime` says that as long as the last
record is of a launch that was alone, no other is past its record, and the branch is at the
record if and only if the guest has pushed nothing but it; that a launch *was* alone is what
`AloneWhileDeciding` keeps under the lock, from decision to record.

*Files.* `FileInv` says that a writer alone has the temporary file to itself, with
what it wrote in it, and that an inode which was put in place or that a reader has
open is settled: nobody has it open for writing. The last is what makes a reader safe
who opens before a rename and reads after it.

*The journal.* Its lines, and what is parsed of them, are folds over the entries. For the entries
there are so far `Gathered` says that they are numbered, and that the last one ends the last line; `Read`
that what is parsed is in ascending order, so that the latest terminal entry is no older than any other of them,
and that every entry which was whole after a whole one is there.
Appending an entry goes one step further in either fold (`LinesAppend`, `CollectedAppend`), which needs that the
library's fold exists at every length (`FoldExists`): the least number for which it would not is refuted.

*The clock.* `DateKept` says that the date is one of the calendar, and that `DaysFromCivil` takes
it to today; `StampKept` that a stamp is that of a moment as long ago as it is old. Midnight
is where something happens: the next date is a day later by cases on the end of a month and of
a year. That `CivilFromDays` is the inverse is arithmetic with divisions, done in three stages that are
each linear once the quotients have names: the era of 400 years, the year of the era,
and the month of a year that begins in March. That stamps sort like time follows from dates doing so.

*The board.* `BoardInv` says what each command holds in memory. `ReadsHold`: what it has read is what
there is, unless it was overtaken. `Changing`: the board it is about to write differs in one
card, whose note it has stamped if the outcome changes. `Agreement` adds the stamp on its way
to the excuses that the property names, and `Grabbing` carries what a dispatch saw, a card in To-do
and so without an implementor, through the second reading to the claim. That all this holds of lanes
of any length rests on what removal and insertion do to a sequence (`WithoutACard`, `WithACard`),
and on `ready_insertion_index` always finding a place (`ReadyIndexFits`), by the least and the greatest
element of a set of positions. The first attempt at `ReadyKeepsOrder` failed, and showed that
the bounds of that function are not hard for a card amid a chain (section 6, 39).

*The text of the board.* The parser takes a line at a time, and looks ahead at a line that is neither a card's nor a
lane's: is there a heading to come? On the lines that a command writes it never needs to: `Leads(p, s, q)` says that
reading the lines `s` one by one leads from the parse `p` to `q` without looking ahead, and such
runs can be joined (`LeadsOn`, `LeadsAll`, `ParseLeads`). `BlockReads`, `CardLinesRead`, `LaneLinesRead`,
`ArchiveReads` and `TrailerReads` put the reading of a whole board together from those of its
parts, so that `WrittenIsRead` says what is read of the text of any `Sound` board: the same lanes and
cards, and a preamble and a trailer that differ in blank lines at their ends. `TextInv` says that
the text in the file is what was written of the board in memory, as long as nobody has edited it, and that this
board was sound; it is inductive since any text at all is parsed to a sound
board (`ParseIsSound`) and each command leaves it sound. That a second rewrite changes nothing needs that writing
puts no two blank lines in a row (`Neat`, `Solid`). For `ListedOrIced`, the text may be one that a person has
left. `Follows` and `HoldsSeen` say of the lines up to each one that a parse has the cards which a person
sees there, and `FlattenedCards` counts those in the lanes: none twice, where lint finds no error
(`NoErrors`), so that what is listed once per lane is listed once (`ListingIs`).
As with the journal, what is computed along a sequence is dealt with a length at a time: the numbers up to which a fact holds
are a set that contains 0 and each successor (`UpTo`), or the least at which it fails is refuted.
Lanes and cards of a board are of any number, as are the lines of a card; what does not come out
of it is a claim about foreign lines below the cards, which `OnlySettingsFollow` keeps away (section 6, 30).

*Only model-checked.* Of `BoardText`, that commands lose no card (`CardsSurvive`), which compares how
often a block of lines is in two texts that may be any texts, and that what lint is content with stays so and
`--fix` converges (`LintSettles`); of `NoteText`, that a note keeps saying what it says (`NoteKeepsItsWord`), for which the layouts of a
value would have to be followed line by line in the same way; and the liveness properties `StoppedTurnResolves`,
`DriveReturns`, `TasksFollowFiles` and `MarkerGoesAway`, since liveness under fairness (and
`ENABLED`) is out of the prover's reach. No module has a recursive operator.


## 6. Differences between the code and what is said about it

One is the counterexample of a run of its own (`launch_prune`): **`prune` does not
recognise dispatched instances**. `decide_name` appends eight hex digits to every
`--name`, and `instance_card_id` takes what follows `card-` as a whole. prune.rs:7:
"**Implementor** instances, named `card-<id>` by `sandbox dispatch`".

The others are reached by the models, where a property excepts them by name, or
follow from a definition, without a run that stands for them.

Guest and drive:

1. `turn-state.json` may keep an old record: two tasks step the session in one
   order and reach the lock of `persist` in the other. server.rs:680-681:
   "snapshots still land in order". `EffectsCatchUp` excepts `past.overtaken`. It also
   keeps one when the write of the last transition fails: that is logged and nothing tries
   again before the next transition (server.rs:688-689). `past.unwritten`.
2. The turn heartbeat can beat between turns for the same reason: the stores of
   `turn_armed` of two steps can be reordered (server.rs:592), although
   heartbeat.rs:299-301 says it beats while a turn is in flight only.
3. It also goes on when a stray `Stop` of an abandoned turn put the next one into
   its grace window and that one is concluded by its report before its own `Stop`:
   a `Stop` between turns clears nothing. `past.strayed`.
4. `Stopped` without a stop: a drive is abandoned while its turn runs, the next prompt
   supersedes it, and the `Stop` of the abandoned turn ends the new one. prompt.rs:115-116: "the
   agent stopped without a terminal report". `StoppedMeansAStop` says that it takes one of those.
   In the same way a report without an id, which is what the agent is asked for
   (`lib/sandbox/default.nix`:542-549), counts for the turn in flight and for the drive that
   reads it (prompt.rs:509-524): a late `done` on the abandoned turn ends the next drive
   as a success. `SuccessIsEarned` says that nothing else does. And a late `working` sets
   `accepted`, which disarms the delivery deadline (prompt.rs:764): if the prompt was
   then lost, nothing resends it, heartbeats go on, and the drive never returns, `Misled`.
5. Turn ids can be handed out twice, as `alloc_turn_id` takes no lock.
   liveness.rs:325-327: "two distinct turns can never collide". `ReuseHasACause`
   shows that this needs two prompts at the same time, or a record that is there and
   cannot be read: `load` takes it for a clean slate (liveness.rs:75-78), which rewinds the
   counter, what the same function refuses to do for one that does not parse
   (liveness.rs:68-71). When the host's clock does not answer, a mark is believed without a
   deadline (status.rs:258); `NoPhantomStream` promises less there.
6. `finished` is not kept until the next prompt: the `Stop` after the terminal
   report closes the turn, and the state falls back (server.rs:1146), although
   `project/design/PDD003 Sandbox Heartbeats and Work State.md`:275 says that a
   new prompt clears it. `WorkState`: `ReportsTerminal`, `Stops`.
7. A drive whose prompt could not be injected at all ends with the same verdict
   as one whose harness swallowed it, and says the harness is wedged
   (prompt.rs:774-776). `TurnProtocol`: `InjectFails`, then `DeliveryDeadline`.
8. A resend that is read after the turn was concluded opens a new turn with the
   same id and runs it again (server.rs:325), although the branch before it says
   that re-running an executed turn is worse than failing to deliver one
   (server.rs:320-321). `RerunsOnlyAsNewTurn` says this is the only way.
9. A detail body that exits and leaves a process with its standard output is
   waited for without limit (runner.rs:342 against 309). `WorkState`: `DetailLingers`. The
   heartbeat goes stale meanwhile, which is why `LiveTaskIsNotStale` excepts it.
10. After a long round the next one starts at once: `Delay` fires the missed tick
    immediately and counts a full interval from there only, where the comment
    says the runner waits "a full interval before trying again"
    (runner.rs:169-172). `WorkState`: `Due`.
11. A host that is slow to read holds the coordinator up inside its send
    (server.rs:1194) while updates queue. An update is stamped when it is received
    (server.rs:1116), not when it was sent, so `active` outlives the staleness window
    of server.rs:1068-1070 by what the update waited: `ActiveIsRecent` grants just
    that, and `work_state` reaches states where it is needed. While updates are still
    queued the state shown may be that of an older one; the properties speak of a
    coordinator that has drained its channel (`UpToDate`).

Instances:

12. `stop` removes a named instance whose record cannot be read, as it counts as
    ephemeral (stop.rs:71 against 130-132). `Launch`: `KnownNamed`, `Removes`.
13. `stop` looks at the monitor socket once and removes the directories later; a
    start in between loses the directories under a running VM (stop.rs:115-119). So does, with nothing
    in between, a VM whose monitor is not bound yet, and one that takes more than a second
    to greet: `is_alive` says no (qmp.rs:47-55), and the first no of ten counts (stop.rs:159-168), against
    "removing its dirs then would delete the disk images out from under a live VM"
    (stop.rs:116-118). prune.rs:34 says of its own removal without a look that "`sandbox stop` has the same gap".
    A start of an instance that runs already rewrites its record before the boot
    fails, so the recorded port is not the one the VM listens on (start.rs:177,
    187 against instance.rs:69). `RunningIsOnRecord` excepts all of these as `upset`.

Launch, status, attach (`Provision`):

14. A recipe of one instance that overlaps another can move a snapshot of the store
    in place that is still being written (start.rs:996). The interactive cleanup
    of one removes the runtime directory and the marker of the other.
15. A launch killed between the two files of `ssh-keygen` leaves a private key
    without a public one, and every later launch fails where it copies that
    (`GeneratesKey`, `CopiesKey`). One that is killed also strands its marker:
    `status` says "provisioning" until the next launch. `StrandedOnlyByAKill`.
16. A TERM runs the trap, which removes the marker, and bash goes on with the script.
17. `nixdb-status` is not cleared at a launch, so until the guest writes it anew
    `status` shows the verdict of the boot before.
18. A snapshot that fails on a resume warns of "a system-only store DB"
    (start.rs:1010), though the earlier snapshot is still there.
19. `attach` reads the record before it probes; a start of the running instance in
    between, which will fail, makes it say that there is no session.
20. `screenshot` asks the spec of now, not the record of the launch, whether there
    is a compositor. `ScreenshotIsClear` excepts a spec that was changed.
21. The gate asks whether the file of a secret exists, the recipe whether it can be
    read. `GateForetells` excepts `locked`.
22. A shell without `XDG_RUNTIME_DIR` looks for the sockets under `/tmp`, and finds
    a running instance stopped. `RunningIsReported`.

Work product:

23. A failed probe of the guest's branch, or a launch that overlaps another, seeds the
    branch anew over what the guest has pushed. `MirrorIsRewrittenOnlyBlindly` says
    that nothing else does. The base can go back with two resumes.
24. HEAD may move between the snapshot and the commit that strips the board from it:
    the seed then has HEAD's new commit as parent and the old tree, and takes it back (start.rs:559).
    Where a step of the stripping fails, the board goes along.
    `SeedIsTheWorkingTree` and `BoardIsTheOperators` except these.
25. A resume records the tip of the branch as the seed, so that a fetch afterwards warns
    of "no committed work landed" although there was some before; a fetch that
    overlaps a resume does so, too, and so does one after the guest has pushed the
    seed again over its own work. `VerdictIsExact` names when a verdict counts.
26. A plain `start`, unlike a dispatch, carries the board of the working tree into the guest.

Board, notes, files:

27. Two dispatches of one card that overlap both claim it and both launch, since
    the claim of the second is a move from in-progress to in-progress, which is allowed
    (state.rs:26), although dispatch "refuses a card that isn't Available"
    (dispatch.rs:5-6). `OneImplementorPerCard` holds unless a board was overwritten.
28. A card that is shelved by force from the archive keeps its outcome, and a later
    promotion leaves it active with it (set_status.rs:100, 135), although
    the outcome is "cleared on a forced reopen" (note.rs:302). `Board`: `Shelves`,
    `Promotes`; `BoardText`'s kind `unarchive`.
29. A forced reopen that dies after clearing the note leaves an archived card
    without an outcome, which no command can move then, since its status is an
    error (set_status.rs:213, 254). Compare set_status.rs:117-118: "never a
    board tombstone with no disposition". The same is left by a forced move into a lane
    that is not there.
30. Foreign text below the cards is kept by a rewrite, but once there is an archive above
    it the next parse takes its list items for archived cards and drops the rest
    (board.rs:138-177 against 210-215). Cards below such text are hidden, and lint
    says nothing: with `OnlySettingsFollow` the properties stay away from it.
31. Settings above the lanes turn all lanes into trailing text; an unknown lane after
    the archive becomes part of the archive; a board without lanes gains a rule in its
    preamble with every rewrite; blank lines at the end shrink. (`ReadsBack`,
    `RewriteIsStable`.)
32. A bullet nested under a card is a malformed card of its own, which a move leaves
    behind (board.rs:29-30).
33. lint.rs:167-168 says of a lane that is there twice that "cards in the rest are
    dropped on the next CLI rewrite", but the writer emits them again. `CardsSurvive`.
    Pruning orphans can give rise to `unknown-blocker` warnings.
34. A blank line inside a block list ends the value for the writer but not for the
    reader: a rewrite orphans the items below (note.rs:226-231). `gapped`. A comment
    inside a block list cuts it.
35. A label with a double quote in it, followed by others in one line, is read garbled:
    the escape is not undone. `ReadFlow`.
36. Writers of one file share the name of the temporary file, so that two can put half
    a text in place (fs.rs:23-24, liveness.rs:92-97). `ReplacedWhole` is about lone writers.
37. A torn journal line swallows the next entry, and one cut inside a UTF-8 character
    makes the whole journal unreadable, against "must not make the rest of the
    history unreadable" (report_log.rs:83-86). `TornEntriesCostTheNext`.
38. The parsers of dates accept the 31st of February; liveness.rs accepts a second 60,
    clock.rs does not.
39. select.rs:68-69 says of a card that enters Ready "Dependencies are hard bounds: the entrant
    lands *after* every Ready card that blocks it and *before* every Ready card it blocks". Of
    three cards a, b and c, each blocking the next, c and a can be in Ready in that order, by their
    dates and without anybody's hand, as `set-status` does not ask for blockers; b then lands after
    a, and so after c, which it blocks (the "defensive" maximum of select.rs:89).
    `ReadyInDependencyOrder` excepts a card that is blocked itself.


## 7. Plan

Done in this order, the most important behaviour first: `TurnSession` with
`TurnLifecycle` and the proofs, `GuestServer`, `TurnProtocol`, `LivenessRecord`,
`Launch`, `WorkState`, `HeartbeatSet`, `Board`; then `WorkProduct`, `Provision`,
`BoardText`, `NoteText`, `FileWrites`, `Calendar`, and the proofs about `Launch`,
`GuestServer`, `LivenessRecord`, `HeartbeatSet`, `FileWrites`, `TurnProtocol`, `WorkState`,
`Provision`, `WorkProduct`, `Board`, `Calendar` and `BoardText`. What would come next:

1. **Proofs.** That no command of `BoardText` loses a card, which needs that reading and then writing
   any text keeps the lines of each card together; the line editor of `NoteText`.
2. **Abstract specifications**: the protocol as seen by one `prompt` command
   (sent, then exactly one outcome), refined by `TurnProtocol`; the allocation as
   an atomic choice, refined by `Launch`; a board with one place per card, which every
   step of one command alone refines.
3. **Compositions**: `Board`'s claim with `Launch`; the periodic heartbeat line of
   the control connection and the host's heartbeat deadline with `TurnProtocol`.


## 8. Not modelled

- *Command line and output*: argument parsing, tables, colours, JSON rendering. They
  keep no state.
- *Projections*: the label index, the filters of a listing and `show` are functions of the
  board and the notes that are printed.
- *Decoding of the specification* (`spec.rs` but for its roots) and the text of the
  emitted script: one pass from a file to a value; its steps are in `Provision`.
- *QMP's greeting*, the framing of protocol lines, the MCP handshake and the primary
  heartbeat message of the control server; `resume_via_start` of prompt.rs, which runs
  a start as in `Launch` before the drive begins.
- *Durations*: a duration of zero makes `tokio`'s interval panic (heartbeat.rs:60);
  `WorkState` assumes positive intervals.
- *The harness itself*, git, ssh-keygen, sqlite and qemu: external, modelled by what
  the code sees of them.
- *NixOS guest, nix libraries, templates, skills*: declarative or prose.
