------------------------------- MODULE Provision -------------------------------
(***************************************************************************)
(* What happens to one named instance between `sandbox start` and a guest  *)
(* that can be used, and what the other commands make of it meanwhile: the *)
(* recipe that start.rs emits, step by step, with its phase marker, traps, *)
(* database snapshot and key pair; the guest's first services; `status`    *)
(* and its preflight (status.rs, gfx.rs), `attach`, `screenshot`, and the  *)
(* choice of an instance by its number (resolve.rs), each in a shell whose *)
(* environment decides which roots it looks under (spec.rs).               *)
(*                                                                         *)
(* The instance is a named one, so no step removes its state directory;    *)
(* what `stop` and `prune` remove is the matter of Launch.                 *)
(***************************************************************************)
EXTENDS Naturals, Sequences, FiniteSets, FiniteSetsExt, SequencesExt

CONSTANTS
  Launches,  \* runs of `sandbox start`, each made at most once
  Nodes,     \* render nodes: [bootVga, vram, open]
  Siblings,  \* numbers standing for the names of other instances, in byte order
  Scenes     \* what a behaviour may hold, see Scene

Roles == {"integrated", "discrete", "software"}
Kinds == {"status", "attach", "screenshot"}
Modes == {"agent", "interactive"}

\* The launches made, their mode, the GPU ladder, which commands look at the
\* instance, how many faults happen, whether the host changes under it,
\* whether instances are chosen by number, and the runtime root's variable.
Scene == [launches : SUBSET Launches, modes : SUBSET Modes, ladder : Seq(Roles),
          looks : SUBSET Kinds, faults : Nat, changes : BOOLEAN, numbers : BOOLEAN,
          runtimeVar : {"set", "empty", "unset"}]

ASSUME ProvisionAssumption ==
  /\ "none" \notin Launches
  /\ \A n \in Nodes : n.bootVga \in BOOLEAN /\ n.open \in BOOLEAN
                      /\ n.vram \in {"none", "small", "large"}
  /\ Siblings \subseteq Nat \ {0}
  /\ \A s \in Scenes : s \in Scene

VARIABLES
  world,    \* the host: what the spec asks for, secrets, devices
  phase,    \* the marker file: the step of the recipe in flight, or none
  runtime,  \* the runtime directory: whether it is there, id and id.pub
  share,    \* the state directory: authorized_keys, the snapshot, its temporary
            \* file, nixdb-status, and the launch whose record instance.json is
  vm,       \* the virtual machine
  volume,   \* whether the guest's database volume was seeded
  launch,   \* per launch, how far it is
  look,     \* a command that looks at the instance
  seen,     \* what was so all the time since it began (history)
  gate,     \* whether a bare `status` passed and nothing has changed since
  dirs,     \* the state directories of other instances
  pick,     \* a listing of instances, and which came or went since
  past,     \* what happened so far, for the properties
  faults,   \* how many faults happened
  scene     \* what this behaviour may hold

recipeVars == <<phase, runtime, share, launch>>
guestVars  == <<vm, volume>>
hostVars   == <<world, gate>>
numberVars == <<dirs, pick>>
vars == <<recipeVars, guestVars, hostVars, numberVars, look, seen, past, faults, scene>>

None == "none"
-----------------------------------------------------------------------------
(* The spec, the roots, and the choice of a GPU.                           *)

World == [graphics : BOOLEAN, var : {"set", "empty", "unset"},
          file : {"readable", "locked", "absent"}, vhost : BOOLEAN, nodes : SUBSET Nodes]

\* expand_template: a variable that is empty counts as one that is not set.
RuntimeRoot(var) == IF var = "set" THEN "user" ELSE "tmp"

\* classify_at: the primary scanout is the integrated GPU, otherwise the
\* memory of its own tells a discrete one.
Classify(node) ==
  IF ~node.bootVga /\ node.vram = "large" THEN "discrete" ELSE "integrated"

\* resolve_gpu_with: the first rung that is software, or has a node of its
\* role that can be opened.
Satisfied(role, w) ==
  role = "software" \/ \E n \in w.nodes : Classify(n) = role /\ n.open
ResolveGpu(w) ==
  LET rungs == {i \in DOMAIN scene.ladder : Satisfied(scene.ladder[i], w)} IN
  IF ~w.graphics THEN None
  ELSE IF rungs = {} THEN "unavailable" ELSE scene.ladder[Min(rungs)]

\* Mutant: a variable that is empty is good enough for a secret.
PreflightEmptyVar(w) ==
  /\ w.var # "unset"
  /\ w.file # "absent"
  /\ w.vhost
  /\ ResolveGpu(w) # "unavailable"

\* preflight, as run_list calls it: a file is asked for with `exists`.
Preflight(w) ==
  /\ w.var = "set"
  /\ w.file # "absent"
  /\ w.vhost
  /\ ResolveGpu(w) # "unavailable"

-----------------------------------------------------------------------------
\* The steps of the recipe: directories; the mirror; the host's database
\* (clear, snapshot, move); context; secrets; the two halves of ssh-keygen;
\* authorized_keys; the runner; the tail.
Steps == {"idle", "dirs", "mirror", "db", "vacuum", "move", "context", "secrets",
          "keygen", "pub", "copy", "boot", "launched", "attached", "done"}
Marked == Steps \ {"idle", "dirs", "attached", "done"}
Active == Steps \ {"idle", "done"}
Phases == {None, "mirror", "db", "context", "secrets", "boot"}

\* gated: a bare `status` passed before, and the host is the same; why: what
\* the launch failed of.
Launching == [pc : Steps, mode : Modes, gpu : Roles \cup {None}, gated : BOOLEAN,
              why : {None, "secret", "gpu", "vsock", "other"}]
Idle == [pc |-> "idle", mode |-> "agent", gpu |-> None, gated |-> FALSE, why |-> None]
Done == [Idle EXCEPT !.pc = "done"]

\* A database snapshot: who writes it, and whether it is complete.
Snapshot == [by : Launches \cup {None}, whole : BOOLEAN]
NoFile == [by |-> None, whole |-> TRUE]

\* started: qemu runs; up: its monitor answers; armed: the guest's services
\* are done, which in agent mode includes the tmux session.
Vm == [stage : {"down", "started", "up", "armed"}, by : Launches \cup {None},
       key : Launches \cup {None}, session : BOOLEAN]
Down == [stage |-> "down", by |-> None, key |-> None, session |-> FALSE]

\* alive: the monitor's answer; port: the record's, which is that launch's;
\* var: the runtime root's variable in the shell of the command.
Look == [pc : {"idle", "begun"}, kind : Kinds, var : {"set", "empty", "unset"},
         alive : BOOLEAN, port : Launches \cup {None}]
NoLook == [pc |-> "idle", kind |-> "status", var |-> "set", alive |-> FALSE, port |-> None]

Init ==
  /\ scene \in Scenes
  /\ IF scene.changes
     THEN world \in World
     ELSE world = [graphics |-> FALSE, var |-> "set", file |-> "readable", vhost |-> TRUE,
                   nodes |-> {}]
  /\ phase = None
  /\ runtime = [there |-> FALSE, id |-> None, pub |-> None]
  /\ share = [auth |-> None, snap |-> NoFile, tmp |-> NoFile, verdict |-> None, record |-> None]
  /\ vm = Down /\ volume = FALSE
  /\ launch = [l \in Launches |-> IF l \in scene.launches THEN Idle ELSE Done]
  /\ look = NoLook
  /\ seen = [up |-> FALSE, marked |-> FALSE]
  /\ gate = FALSE
  /\ dirs = {}
  /\ pick = [listed |-> <<>>, changed |-> {}]
  /\ past = [killed |-> FALSE, signalled |-> FALSE, over |-> FALSE, respecified |-> FALSE]
  /\ faults = 0

-----------------------------------------------------------------------------
(* start: the plan and the recipe.                                         *)

Quiet == \A l \in Launches : launch[l].pc \notin Active
Faulty == faults < scene.faults /\ faults' = faults + 1
Fine == UNCHANGED faults

Goes(l, pc) == launch' = [launch EXCEPT ![l].pc = pc]
Ends(l, why) == launch' = [launch EXCEPT ![l].pc = "done", ![l].why = why]

RecipeFrame == UNCHANGED <<guestVars, hostVars, numberVars, look, past, scene>>
LookFrame == UNCHANGED <<recipeVars, guestVars, hostVars, numberVars, past, faults, scene>>

\* The plan: an exhausted ladder refuses the launch; otherwise the record is
\* written and the recipe emitted, though the instance may be running.
Plans(l, mode) ==
  /\ launch[l].pc = "idle" /\ mode \in scene.modes
  /\ IF ResolveGpu(world) = "unavailable"
     THEN /\ launch' = [launch EXCEPT ![l] = [Done EXCEPT !.gated = gate, !.why = "gpu"]]
          /\ UNCHANGED <<share, past>>
     ELSE /\ launch' = [launch EXCEPT ![l] = [Idle EXCEPT
                !.pc = "dirs", !.mode = mode, !.gpu = ResolveGpu(world), !.gated = gate]]
          /\ share' = [share EXCEPT !.record = l]
          /\ past' = [past EXCEPT !.over = @ \/ ~Quiet \/ vm.stage # "down"]
  /\ Fine /\ UNCHANGED <<phase, runtime, guestVars, hostVars, numberVars, look, scene>>

\* The directories, the trap, and the first phase.
MakesDirs(l) ==
  /\ launch[l].pc = "dirs"
  /\ runtime' = [runtime EXCEPT !.there = TRUE]
  /\ phase' = "mirror"
  /\ Goes(l, "mirror")
  /\ Fine /\ UNCHANGED share /\ RecipeFrame

\* The mirror is there; the leftover of an earlier snapshot is removed.
StagesMirror(l) ==
  /\ launch[l].pc = "mirror"
  /\ phase' = "db"
  /\ share' = [share EXCEPT !.tmp = NoFile]
  /\ Goes(l, "db")
  /\ Fine /\ UNCHANGED runtime /\ RecipeFrame

\* The branch behind `||`: the temporary file is removed, and the recipe goes
\* on to the context.
GivesUpSnapshot(l) ==
  /\ share' = [share EXCEPT !.tmp = NoFile]
  /\ phase' = "context"
  /\ Goes(l, "context")
  /\ UNCHANGED runtime

\* VACUUM INTO refuses to write over a file.
StartsSnapshot(l) ==
  /\ launch[l].pc = "db"
  /\ IF share.tmp = NoFile
     THEN /\ share' = [share EXCEPT !.tmp = [by |-> l, whole |-> FALSE]]
          /\ Goes(l, "vacuum")
          /\ UNCHANGED <<phase, runtime>>
     ELSE GivesUpSnapshot(l)
  /\ Fine /\ RecipeFrame

\* The writer goes on with the file it has open, whatever its name is now.
Completes(file, l) == IF file.by = l THEN [file EXCEPT !.whole = TRUE] ELSE file
EndsSnapshot(l) ==
  /\ launch[l].pc = "vacuum"
  /\ share' = [share EXCEPT !.tmp = Completes(@, l), !.snap = Completes(@, l)]
  /\ Goes(l, "move")
  /\ Fine /\ UNCHANGED <<phase, runtime>> /\ RecipeFrame

\* The host's database cannot be read, or the snapshot exceeds its time.
SnapshotFails(l) ==
  /\ launch[l].pc = "vacuum"
  /\ Faulty
  /\ GivesUpSnapshot(l)
  /\ RecipeFrame

MovesSnapshot(l) ==
  /\ launch[l].pc = "move"
  /\ IF share.tmp = NoFile
     THEN GivesUpSnapshot(l)
     ELSE /\ share' = [share EXCEPT !.snap = share.tmp, !.tmp = NoFile]
          /\ phase' = "context"
          /\ Goes(l, "context")
          /\ UNCHANGED runtime
  /\ Fine /\ RecipeFrame

StagesContext(l) ==
  /\ launch[l].pc = "context"
  /\ phase' = "secrets"
  /\ Goes(l, "secrets")
  /\ Fine /\ UNCHANGED <<share, runtime>> /\ RecipeFrame

\* Mutant: the recipe ends without its trap.
FailsUntrapped(l, why) == Ends(l, why) /\ UNCHANGED phase /\ Fine

\* `set -e` ends the recipe, and the trap removes the marker.
Fails(l, why) == Ends(l, why) /\ phase' = None /\ Fine

\* Each secret is staged into the runtime directory, or the recipe exits.
StagesSecrets(l) ==
  /\ launch[l].pc = "secrets"
  /\ IF world.var # "set" \/ world.file # "readable" THEN Fails(l, "secret")
     ELSE IF ~runtime.there THEN Fails(l, "other")
     ELSE Goes(l, "keygen") /\ Fine /\ UNCHANGED phase
  /\ UNCHANGED <<share, runtime>> /\ RecipeFrame

\* ssh-keygen, unless there is a private key; it writes that file first.
GeneratesKey(l) ==
  /\ launch[l].pc = "keygen"
  /\ IF ~runtime.there THEN Fails(l, "other") /\ UNCHANGED runtime
     ELSE /\ runtime' = IF runtime.id = None THEN [runtime EXCEPT !.id = l] ELSE runtime
          /\ Goes(l, IF runtime.id = None THEN "pub" ELSE "copy")
          /\ Fine /\ UNCHANGED phase
  /\ UNCHANGED share /\ RecipeFrame

WritesPublicKey(l) ==
  /\ launch[l].pc = "pub"
  /\ IF ~runtime.there THEN Fails(l, "other") /\ UNCHANGED runtime
     ELSE runtime' = [runtime EXCEPT !.pub = l] /\ Goes(l, "copy") /\ Fine /\ UNCHANGED phase
  /\ UNCHANGED share /\ RecipeFrame

\* Mutant: the public key is copied only the first time.
CopiesKeyOnce(l) ==
  /\ launch[l].pc = "copy"
  /\ IF runtime.pub = None THEN Fails(l, "other") /\ UNCHANGED share
     ELSE /\ share' = IF share.auth = None THEN [share EXCEPT !.auth = runtime.pub] ELSE share
          /\ phase' = "boot" /\ Goes(l, "boot") /\ Fine
  /\ UNCHANGED runtime /\ RecipeFrame

\* The public key goes to the share; the last phase begins.
CopiesKey(l) ==
  /\ launch[l].pc = "copy"
  /\ IF runtime.pub = None THEN Fails(l, "other") /\ UNCHANGED share
     ELSE /\ share' = [share EXCEPT !.auth = runtime.pub]
          /\ phase' = "boot" /\ Goes(l, "boot") /\ Fine
  /\ UNCHANGED runtime /\ RecipeFrame

\* The runner is put into the background.  qemu does not come up over one
\* that runs, without vhost-vsock (in agent mode), or without its render node.
BootFails(l) ==
  IF launch[l].mode = "agent" /\ ~world.vhost THEN "vsock"
  ELSE IF launch[l].gpu \in {"integrated", "discrete"} /\ ~Satisfied(launch[l].gpu, world)
  THEN "gpu" ELSE None

Boots(l) ==
  /\ launch[l].pc = "boot"
  /\ vm' = IF vm.stage = "down" /\ BootFails(l) = None
           THEN [Down EXCEPT !.stage = "started", !.by = l] ELSE vm
  /\ launch' = [launch EXCEPT ![l].pc = "launched", ![l].why = BootFails(l)]
  /\ Fine /\ UNCHANGED <<phase, runtime, share, volume, hostVars, numberVars, look, past, scene>>

\* Mutant: the agent's tail leaves the marker to the trap, which an exec skips.
DropsMarkerNot(l) ==
  /\ launch[l].pc = "launched"
  /\ phase' = IF launch[l].mode = "agent" THEN phase ELSE None
  /\ Goes(l, IF launch[l].mode = "agent" THEN "done" ELSE "attached")
  /\ Fine /\ UNCHANGED <<share, runtime>> /\ RecipeFrame

\* The tail removes the marker; an interactive one stays for its session.
DropsMarker(l) ==
  /\ launch[l].pc = "launched"
  /\ phase' = None
  /\ Goes(l, IF launch[l].mode = "agent" THEN "done" ELSE "attached")
  /\ Fine /\ UNCHANGED <<share, runtime>> /\ RecipeFrame

\* The cleanup of the interactive tail: its own machine, the runtime
\* directory and the marker, whosever they are by now.
Leaves(l) ==
  /\ launch[l].mode = "interactive" /\ launch[l].pc \in {"launched", "attached"}
  /\ vm' = IF vm.by = l THEN Down ELSE vm
  /\ runtime' = [there |-> FALSE, id |-> None, pub |-> None]
  /\ phase' = None
  /\ Goes(l, "done")
  /\ Fine /\ UNCHANGED <<share, volume, hostVars, numberVars, look, past, scene>>

-----------------------------------------------------------------------------
(* What ends a recipe early.                                               *)

\* A command fails, or the user interrupts it: `set -e` and the trap.  The
\* snapshot and the context are under a `||`, and go on.
Aborts(l) ==
  /\ launch[l].pc \in {"mirror", "secrets", "keygen", "pub", "copy"}
  /\ faults < scene.faults /\ faults' = faults + 1
  /\ Ends(l, "other") /\ phase' = None
  /\ UNCHANGED <<share, runtime>> /\ RecipeFrame

\* A signal the script survives: bash runs the trap and goes on.
IsSignalled(l) ==
  /\ launch[l].pc \in Marked /\ ~(launch[l].mode = "interactive" /\ launch[l].pc = "launched")
  /\ Faulty
  /\ phase' = None
  /\ past' = [past EXCEPT !.signalled = TRUE]
  /\ UNCHANGED <<share, runtime, launch, guestVars, hostVars, numberVars, look, scene>>

IsKilled(l) ==
  /\ launch[l].pc \in Active
  /\ Faulty
  /\ Ends(l, "other")
  /\ past' = [past EXCEPT !.killed = TRUE]
  /\ UNCHANGED <<phase, share, runtime, guestVars, hostVars, numberVars, look, scene>>

\* The host restarts: the runtime directory was on a tmpfs.
Reboots ==
  /\ Faulty
  /\ \E l \in Launches : launch[l].pc # "idle" /\ l \in scene.launches
  /\ launch' = [l \in Launches |-> IF launch[l].pc \in Active
                                   THEN [launch[l] EXCEPT !.pc = "done", !.why = "other"]
                                   ELSE launch[l]]
  /\ vm' = Down
  /\ runtime' = [there |-> FALSE, id |-> None, pub |-> None]
  /\ past' = [past EXCEPT !.killed = @ \/ ~Quiet]
  /\ UNCHANGED <<phase, share, volume, hostVars, numberVars, look, scene>>

-----------------------------------------------------------------------------
(* The guest.                                                              *)

GuestFrame == UNCHANGED <<phase, runtime, launch, hostVars, numberVars, look, past, faults, scene>>

MonitorAnswers ==
  /\ vm.stage = "started"
  /\ vm' = [vm EXCEPT !.stage = "up"]
  /\ UNCHANGED <<share, volume>> /\ GuestFrame

\* The database service (once per volume; a snapshot that does not pass its
\* check is rolled back), the authorized key, and the agent's session.
Seed == IF volume THEN "already-seeded"
        ELSE IF share.snap = NoFile THEN "skipped-no-snapshot"
        ELSE IF share.snap.whole THEN "seeded" ELSE "rolled-back"
GuestComesUp ==
  /\ vm.stage = "up"
  /\ vm' = [vm EXCEPT !.stage = "armed", !.key = share.auth,
                      !.session = launch[vm.by].mode = "agent"]
  /\ share' = [share EXCEPT !.verdict = Seed]
  /\ volume' = (Seed \in {"seeded", "already-seeded"})
  /\ GuestFrame

VmStops ==
  /\ vm.stage # "down"
  /\ vm' = Down
  /\ UNCHANGED <<share, volume>> /\ GuestFrame

-----------------------------------------------------------------------------
(* The host changes, and `status` without an instance is the gate.         *)

ChangesTo(w) ==
  /\ w # world
  /\ world' = w
  /\ gate' = FALSE
  /\ launch' = [l \in Launches |-> [launch[l] EXCEPT !.gated = FALSE]]
  /\ past' = [past EXCEPT !.respecified = @ \/
        (w.graphics # world.graphics /\ \E l \in scene.launches : launch[l].pc # "idle")]
  /\ UNCHANGED <<phase, runtime, share, guestVars, numberVars, look, faults, scene>>

HostChanges ==
  /\ scene.changes
  /\ \/ ChangesTo([world EXCEPT !.graphics = ~@])
     \/ \E v \in {"set", "empty", "unset"} : ChangesTo([world EXCEPT !.var = v])
     \/ \E f \in {"readable", "locked", "absent"} : ChangesTo([world EXCEPT !.file = f])
     \/ ChangesTo([world EXCEPT !.vhost = ~@])
     \/ \E n \in Nodes : ChangesTo([world EXCEPT !.nodes = IF n \in @ THEN @ \ {n} ELSE @ \cup {n}])

\* run_list: the exit code is zero exactly if the preflight passes.
GateRuns ==
  /\ scene.changes
  /\ gate' = Preflight(world)
  /\ UNCHANGED <<recipeVars, guestVars, world, numberVars, look, past, faults, scene>>

-----------------------------------------------------------------------------
(* Commands that look at the instance.                                     *)

InSight == RuntimeRoot(look.var) = RuntimeRoot(scene.runtimeVar)
Reachable == vm.stage \in {"up", "armed"}

\* status asks the monitor first, the others read the record first.
Begins(kind, var) ==
  /\ look.pc = "idle" /\ kind \in scene.looks
  /\ share.record # None
  /\ look' = [pc |-> "begun", kind |-> kind, var |-> var,
              alive |-> /\ kind = "status" /\ Reachable
                        /\ RuntimeRoot(var) = RuntimeRoot(scene.runtimeVar),
              port |-> IF kind = "status" THEN None ELSE share.record]
  /\ LookFrame

\* The command reads what is left to read, answers and ends.
Returns == look.pc = "begun" /\ look' = NoLook /\ LookFrame

\* Mutant: the marker is believed before the monitor.
StateByMarker == IF phase # None THEN "provisioning" ELSE IF look.alive THEN "running" ELSE "stopped"

\* summarize: what a status that returns now says.
State == IF look.alive THEN "running" ELSE IF phase # None THEN "provisioning" ELSE "stopped"

\* store_db_label: which of the guest's verdicts say that host paths are valid.
HostSeeded(verdict) == verdict \in {"seeded", "already-seeded"}

\* An ssh to the guest, with the port of the record and the private key.
Opens == /\ InSight /\ vm.stage = "armed" /\ vm.by = look.port
         /\ vm.key # None /\ vm.key = runtime.id

\* attach_with: the monitor, then tmux has-session.
Attach == IF ~(InSight /\ Reachable) THEN "not running"
          ELSE IF Opens /\ vm.session THEN "attached" ELSE "no session"

\* What grim makes of the guest.
Grim == IF ~Opens THEN "failed"
        ELSE IF launch[vm.by].gpu = None THEN "no compositor" ELSE "captured"

\* capture: whether there are graphics is asked of the spec, not of the record.
Capture == IF ~world.graphics THEN "refused" ELSE Grim

-----------------------------------------------------------------------------
(* Instances by number.  0 stands for a directory whose name begins with a *)
(* dot.                                                                    *)

NumberFrame == UNCHANGED <<recipeVars, guestVars, hostVars, look, past, faults, scene>>

\* list_instances, for the table of `status` and for the numbers alike.
ListInstances ==
  CHOOSE s \in [1..Cardinality(dirs \ {0}) -> dirs \ {0}] :
    \A i, j \in DOMAIN s : i < j => s[i] < s[j]

\* resolve_index: 0 if there is no such instance.
ResolveIndex(i) == IF i \in DOMAIN ListInstances THEN ListInstances[i] ELSE 0

DirsChange(n) ==
  /\ scene.numbers
  /\ dirs' = IF n \in dirs THEN dirs \ {n} ELSE dirs \cup {n}
  /\ pick' = [pick EXCEPT !.changed = IF pick.listed = <<>> THEN {} ELSE @ \cup ({n} \ {0})]
  /\ NumberFrame

Lists ==
  /\ scene.numbers
  /\ pick' = [listed |-> ListInstances, changed |-> {}]
  /\ UNCHANGED dirs /\ NumberFrame

-----------------------------------------------------------------------------
Step(l) ==
  \/ MakesDirs(l) \/ StagesMirror(l) \/ StartsSnapshot(l) \/ EndsSnapshot(l)
  \/ MovesSnapshot(l) \/ StagesContext(l) \/ StagesSecrets(l) \/ GeneratesKey(l)
  \/ WritesPublicKey(l) \/ CopiesKey(l) \/ Boots(l) \/ DropsMarker(l)

Fault(l) == SnapshotFails(l) \/ Aborts(l) \/ IsSignalled(l) \/ IsKilled(l)

\* A launch that is all alone, and not signalled, at a step that has a marker.
Provisioning == ~past.over /\ ~past.signalled /\ \E l \in Launches : launch[l].pc \in Marked

Witnesses ==
  IF look.pc = "idle" /\ look'.pc = "begun" THEN seen' = [up |-> Reachable, marked |-> Provisioning]
  ELSE IF look'.pc = "begun" THEN seen' = [up |-> seen.up /\ Reachable',
                                           marked |-> seen.marked /\ Provisioning']
  ELSE seen' = [up |-> FALSE, marked |-> FALSE]

Act ==
  \/ \E l \in Launches : \/ \E mode \in Modes : Plans(l, mode)
                         \/ Step(l) \/ Leaves(l) \/ Fault(l)
  \/ Reboots
  \/ MonitorAnswers \/ GuestComesUp \/ VmStops
  \/ HostChanges \/ GateRuns
  \/ \E kind \in Kinds, var \in {"set", "empty", "unset"} : Begins(kind, var)
  \/ Returns
  \/ Lists \/ \E n \in Siblings \cup {0} : DirsChange(n)

Next == Act /\ Witnesses

\* A script that runs goes on: no command of it waits for an event that need
\* not come, and the snapshot has a timeout.
ProvisionSpec == Init /\ [][Next]_vars /\ \A l \in Launches : WF_vars(Step(l) /\ Witnesses)

-----------------------------------------------------------------------------
(* Properties.                                                             *)

\* The state is well typed.
ProvisionTypeOK ==
  /\ world \in World
  /\ phase \in Phases
  /\ runtime \in [there : BOOLEAN, id : Launches \cup {None}, pub : Launches \cup {None}]
  /\ ~runtime.there => runtime.id = None /\ runtime.pub = None
  /\ share \in [auth : Launches \cup {None}, snap : Snapshot, tmp : Snapshot,
                verdict : {None, "seeded", "already-seeded", "skipped-no-snapshot", "rolled-back"},
                record : Launches \cup {None}]
  /\ vm \in Vm /\ volume \in BOOLEAN
  /\ launch \in [Launches -> Launching]
  /\ look \in Look /\ seen \in [up : BOOLEAN, marked : BOOLEAN]
  /\ gate \in BOOLEAN
  /\ dirs \subseteq Siblings \cup {0}
  /\ ToSet(pick.listed) \cup pick.changed \subseteq Siblings
  /\ past \in [killed : BOOLEAN, signalled : BOOLEAN, over : BOOLEAN, respecified : BOOLEAN]
  /\ faults \in 0..scene.faults /\ scene \in Scenes

\* A marker without a launch is left only by a launch that was killed: one
\* that fails, is interrupted, or ends takes it away (start.rs, the traps).
StrandedOnlyByAKill ==
  phase # None => past.killed \/ \E l \in Launches : launch[l].pc \in Marked

\* Every marker goes away, unless a launch was killed (start.rs, the traps
\* and the tails).
MarkerGoesAway == phase # None ~> (phase = None \/ past.killed)

\* A launch that nobody disturbs is seen from its first step to its last: a
\* status that sees it all along does not say `stopped` (status.rs: State).
LaunchIsSeen == look.pc = "begun" /\ look.kind = "status" /\ seen.marked => State # "stopped"

\* A machine that answers all along is reported running, to every shell
\* whose variable is as good as that of the launch, whatever marker a killed
\* launch has left (status.rs: summarize; spec.rs: expand_template).
RunningIsReported ==
  look.pc = "begun" /\ look.kind = "status" /\ seen.up =>
    (State = "running" <=> (look.var = "set" <=> scene.runtimeVar = "set"))

\* The guest is never given a snapshot that is not complete, unless launches
\* overlapped (start.rs, VACUUM INTO and the move).
SnapshotIsWhole == share.snap.whole \/ past.over

\* attach finds a session that is there, through every restart of the guest
\* and of the host, unless the record was rewritten since attach read it or
\* launches overlapped (start.rs, key pair and record; attach.rs).
AttachFindsTheSession ==
  look.pc = "begun" /\ look.kind = "attach" /\ InSight /\ vm.session =>
    Attach = "attached" \/ look.port # share.record \/ past.over

\* Once the guest is up, what `status` says of its store is so, on the first
\* boot of a volume and on every other (status.rs: store_db_label).
StoreDbLabelIsTrue == vm.stage = "armed" => (HostSeeded(share.verdict) <=> volume)

\* A launch does not fail of what the gate looked at, if nothing changed
\* since; except that a secret's file that is there may not be readable
\* (status.rs: preflight; start.rs: decide, the recipe and the boot).
GateForetells ==
  \A l \in Launches :
    launch[l].gated /\ launch[l].why \in {"secret", "gpu", "vsock"} => world.file = "locked"

\* screenshot does not run into a guest without a compositor, unless the spec
\* was changed since the launch (screenshot.rs: capture).
ScreenshotIsClear ==
  look.pc = "begun" /\ look.kind = "screenshot" /\ Capture = "no compositor" => past.respecified

\* A number means the instance the listing showed at it, until an instance
\* that sorts before it, or it itself, comes or goes (resolve.rs).
NumbersShiftOnlyFromBelow ==
  \A i \in DOMAIN pick.listed :
    (\A n \in pick.changed : n > pick.listed[i]) => ResolveIndex(i) = pick.listed[i]

\* A recipe that fails or is interrupted leaves nothing half made behind.
NothingIsLeftHalfMade == ProvisionTypeOK /\ StrandedOnlyByAKill /\ SnapshotIsWhole

\* What `status` says of an instance is so.
StatusIsTrue == LaunchIsSeen /\ RunningIsReported /\ StoreDbLabelIsTrue

\* A command about an instance gets to the one that is meant, and to what it
\* looks for there.
CommandsReachTheInstance ==
  AttachFindsTheSession /\ ScreenshotIsClear /\ NumbersShiftOnlyFromBelow
=============================================================================
