--------------------------- MODULE Provision_proofs ---------------------------
(***************************************************************************)
(* Proofs about the launch of an instance and the commands that look at it *)
(* meanwhile: what a recipe leaves behind, what `status` says, whether     *)
(* `attach`, `screenshot` and a number get to the instance that is meant,  *)
(* and whether the gate foretells.  For any number of launches, faults and *)
(* other instances, any devices, and any order of the steps.               *)
(***************************************************************************)
EXTENDS Provision, FiniteSetTheorems, TLAPS

Whys == {None, "secret", "gpu", "vsock", "other"}

\* The state is well typed, but for the listings; only launches of the scene
\* are made, and a machine that runs was booted by one of them.
FileTypes ==
  /\ phase \in Phases
  /\ runtime \in [there : BOOLEAN, id : Launches \cup {None}, pub : Launches \cup {None}]
  /\ ~runtime.there => runtime.id = None /\ runtime.pub = None
  /\ share \in [auth : Launches \cup {None}, snap : Snapshot, tmp : Snapshot,
                verdict : {None, "seeded", "already-seeded", "skipped-no-snapshot", "rolled-back"},
                record : Launches \cup {None}]

LaunchTypes ==
  /\ launch \in [Launches -> Launching]
  /\ \A l \in Launches : l \notin scene.launches => launch[l].pc = "done"

GuestTypes ==
  /\ vm \in Vm /\ volume \in BOOLEAN
  /\ vm.stage = "down" => vm = Down
  /\ vm.stage # "down" => vm.by \in scene.launches /\ launch[vm.by].pc # "idle"
  /\ vm.session => vm.stage = "armed"

HostTypes ==
  /\ world \in World /\ gate \in BOOLEAN
  /\ look \in Look /\ seen \in [up : BOOLEAN, marked : BOOLEAN]
  /\ past \in [killed : BOOLEAN, signalled : BOOLEAN, over : BOOLEAN, respecified : BOOLEAN]
  /\ faults \in 0..scene.faults /\ scene \in Scenes

Types == FileTypes /\ LaunchTypes /\ GuestTypes /\ HostTypes

LEMMA SceneIsTyped ==
  ASSUME scene \in Scenes
  PROVE  /\ scene \in Scene /\ scene.launches \subseteq Launches /\ scene.faults \in Nat
         /\ scene.ladder \in Seq(Roles) /\ None \notin Launches
BY ProvisionAssumption DEF Scene, None

-----------------------------------------------------------------------------
(* How far a launch gets in a step.                                        *)
Advanced(l, pc, why) ==
  /\ launch' \in [Launches -> Launching]
  /\ \A m \in Launches : m # l => launch'[m] = launch[m]
  /\ launch'[l].pc = pc /\ launch'[l].why = why
  /\ launch'[l].mode = launch[l].mode /\ launch'[l].gpu = launch[l].gpu
  /\ launch'[l].gated = launch[l].gated

LEMMA GoesAdvances ==
  ASSUME launch \in [Launches -> Launching], NEW l \in Launches, NEW pc \in Steps, Goes(l, pc)
  PROVE  Advanced(l, pc, launch[l].why)
BY DEF Goes, Advanced, Launching

LEMMA EndsAdvances ==
  ASSUME launch \in [Launches -> Launching], NEW l \in Launches, NEW why \in Whys, Ends(l, why)
  PROVE  Advanced(l, "done", why)
BY DEF Ends, Advanced, Launching, Whys, Steps

\* Every step of a recipe, and everything that ends it early, leaves the
\* launch at a step of the recipe that is not its first.
LEMMA RecipeAdvances ==
  ASSUME launch \in [Launches -> Launching], NEW l \in Launches, Step(l) \/ Leaves(l) \/ Fault(l)
  PROVE  /\ launch[l].pc \in Active
         /\ \E pc \in Steps \ {"idle"}, why \in Whys :
              /\ Advanced(l, pc, why)
              /\ why \in {"secret", "gpu", "vsock"} =>
                   why = launch[l].why \/ StagesSecrets(l) \/ Boots(l)
<1> DEFINE Went == \E pc \in Steps \ {"idle"}, why \in Whys :
                     /\ Advanced(l, pc, why)
                     /\ why \in {"secret", "gpu", "vsock"} =>
                          why = launch[l].why \/ StagesSecrets(l) \/ Boots(l)
<1>1. launch[l] \in Launching /\ launch[l].why \in Whys /\ launch[l].pc \in Steps
  BY DEF Launching, Whys
<1>2. ASSUME NEW pc \in Steps \ {"idle"}, Goes(l, pc) PROVE Went
  BY <1>1, <1>2, GoesAdvances
<1>3. ASSUME Ends(l, "other") PROVE Went
  <2>1. "other" \in Whys /\ "done" \in Steps \ {"idle"}
    BY DEF Whys, Steps
  <2>2. Advanced(l, "done", "other")
    BY <1>3, <2>1, EndsAdvances
  <2> QED BY <2>1, <2>2
<1>4. \A pc \in {"mirror", "db", "vacuum", "move", "context", "secrets", "keygen", "pub",
                 "copy", "boot", "launched", "attached", "done"} : pc \in Steps \ {"idle"}
  BY DEF Steps
<1>5. \A pc \in {"dirs", "mirror", "db", "vacuum", "move", "context", "secrets", "keygen", "pub",
                 "copy", "boot", "launched", "attached"} : pc \in Active
  BY DEF Active, Steps
<1> HIDE DEF Went
<1>6. CASE MakesDirs(l)
  BY <1>2, <1>4, <1>5, <1>6 DEF MakesDirs, Went
<1>7. CASE StagesMirror(l)
  BY <1>2, <1>4, <1>5, <1>7 DEF StagesMirror, Went
<1>8. CASE StartsSnapshot(l)
  BY <1>2, <1>4, <1>5, <1>8 DEF StartsSnapshot, GivesUpSnapshot, Went
<1>9. CASE EndsSnapshot(l)
  BY <1>2, <1>4, <1>5, <1>9 DEF EndsSnapshot, Went
<1>10. CASE SnapshotFails(l)
  BY <1>2, <1>4, <1>5, <1>10 DEF SnapshotFails, GivesUpSnapshot, Went
<1>11. CASE MovesSnapshot(l)
  BY <1>2, <1>4, <1>5, <1>11 DEF MovesSnapshot, GivesUpSnapshot, Went
<1>12. CASE StagesContext(l)
  BY <1>2, <1>4, <1>5, <1>12 DEF StagesContext, Went
<1>13. CASE StagesSecrets(l)
  <2>1. \/ Goes(l, "keygen") \/ Ends(l, "other") \/ Ends(l, "secret")
    BY <1>13 DEF StagesSecrets, Fails
  <2>2. ASSUME Ends(l, "secret") PROVE Went
    <3>1. "secret" \in Whys /\ "done" \in Steps \ {"idle"}
      BY DEF Whys, Steps
    <3>2. Advanced(l, "done", "secret")
      BY <2>2, <3>1, EndsAdvances
    <3> QED BY <1>13, <3>1, <3>2 DEF Went
  <2>3. launch[l].pc \in Active
    BY <1>5, <1>13 DEF StagesSecrets
  <2> QED BY <1>2, <1>3, <1>4, <2>1, <2>2, <2>3 DEF Went
<1>14. CASE GeneratesKey(l)
  BY <1>2, <1>3, <1>4, <1>5, <1>14 DEF GeneratesKey, Fails, Went
<1>15. CASE WritesPublicKey(l)
  BY <1>2, <1>3, <1>4, <1>5, <1>15 DEF WritesPublicKey, Fails, Went
<1>16. CASE CopiesKey(l)
  BY <1>2, <1>3, <1>4, <1>5, <1>16 DEF CopiesKey, Fails, Went
<1>17. CASE Boots(l)
  <2>1. BootFails(l) \in Whys
    BY DEF BootFails, Whys
  <2>2. launch' = [launch EXCEPT ![l].pc = "launched", ![l].why = BootFails(l)]
    BY <1>17 DEF Boots
  <2> HIDE DEF BootFails
  <2>3. Advanced(l, "launched", BootFails(l))
    BY <2>1, <2>2 DEF Advanced, Launching, Whys, Steps
  <2>4. launch[l].pc \in Active
    BY <1>5, <1>17 DEF Boots
  <2> QED BY <1>4, <1>17, <2>1, <2>3, <2>4 DEF Went
<1>18. CASE DropsMarker(l)
  BY <1>2, <1>4, <1>5, <1>18 DEF DropsMarker, Went
<1>19. CASE Leaves(l)
  BY <1>2, <1>4, <1>5, <1>19 DEF Leaves, Went
<1>20. CASE Aborts(l)
  BY <1>3, <1>5, <1>20 DEF Aborts, Went
<1>21. CASE IsSignalled(l)
  <2>1. launch' = launch /\ launch[l].pc \in Marked
    BY <1>21 DEF IsSignalled
  <2>2. launch[l].pc \in Steps \ {"idle"} /\ launch[l].pc \in Active
    BY <1>1, <2>1 DEF Marked, Active
  <2>3. Advanced(l, launch[l].pc, launch[l].why)
    BY <2>1 DEF Advanced
  <2> QED BY <1>1, <2>2, <2>3 DEF Went
<1>22. CASE IsKilled(l)
  BY <1>3, <1>22 DEF IsKilled, Went
<1> QED BY <1>6, <1>7, <1>8, <1>9, <1>10, <1>11, <1>12, <1>13, <1>14, <1>15, <1>16, <1>17, <1>18,
           <1>19, <1>20, <1>21, <1>22 DEF Step, Fault, Went

-----------------------------------------------------------------------------
(* Types.                                                                  *)
LEMMA RecipeTyped ==
  ASSUME Types, NEW l \in Launches, Step(l) \/ Leaves(l) \/ Fault(l), scene' = scene
  PROVE  /\ LaunchTypes' /\ l \in scene.launches
         /\ launch[l].pc \notin {"idle", "done"} /\ launch'[l].pc # "idle"
         /\ \A m \in Launches : m # l => launch'[m] = launch[m]
         /\ \A m \in Launches : launch[m].pc # "idle" => launch'[m].pc # "idle"
<1>1. launch \in [Launches -> Launching] /\ launch[l].pc \in Active
  BY RecipeAdvances DEF Types, LaunchTypes
<1>2. PICK pc \in Steps \ {"idle"}, why \in Whys : Advanced(l, pc, why)
  BY <1>1, RecipeAdvances
<1>3. launch[l].pc \notin {"idle", "done"} /\ l \in scene.launches
  BY <1>1 DEF Active, Types, LaunchTypes
<1> QED BY <1>2, <1>3 DEF Advanced, Types, LaunchTypes

\* A faulty step leaves the count of the faults within its bound.
LEMMA FaultsTyped ==
  ASSUME Types, scene' = scene, Faulty \/ Fine
  PROVE  faults' \in 0..scene'.faults
<1>1. scene.faults \in Nat /\ faults \in 0..scene.faults
  BY SceneIsTyped DEF Types, HostTypes
<1> QED BY <1>1 DEF Faulty, Fine

LEMMA FilesTyped ==
  ASSUME Types, NEW l \in Launches, Step(l) \/ Leaves(l) \/ Fault(l)
  PROVE  /\ FileTypes'
         /\ scene' = scene /\ UNCHANGED <<world, gate, look, numberVars>>
         /\ faults' \in 0..scene'.faults
         /\ past' \in [killed : BOOLEAN, signalled : BOOLEAN, over : BOOLEAN, respecified : BOOLEAN]
<1> DEFINE Rest ==
             /\ scene' = scene /\ UNCHANGED <<world, gate, look, numberVars>>
             /\ faults' \in 0..scene'.faults
             /\ past' \in [killed : BOOLEAN, signalled : BOOLEAN, over : BOOLEAN, respecified : BOOLEAN]
<1>1. /\ FileTypes /\ NoFile \in Snapshot
      /\ \A p \in {None, "mirror", "db", "context", "secrets", "boot"} : p \in Phases
      /\ \A f \in Snapshot : [f EXCEPT !.whole = TRUE] \in Snapshot
      /\ [by |-> l, whole |-> FALSE] \in Snapshot
  BY DEF Types, NoFile, Snapshot, Phases
<1>2. past \in [killed : BOOLEAN, signalled : BOOLEAN, over : BOOLEAN, respecified : BOOLEAN]
  BY DEF Types, HostTypes
<1>3. ASSUME Faulty \/ Fine, RecipeFrame PROVE Rest
  BY <1>2, <1>3, FaultsTyped DEF RecipeFrame, hostVars, numberVars
<1>4. ASSUME UNCHANGED <<runtime, share>>, phase' \in Phases PROVE FileTypes'
  BY <1>1, <1>4 DEF FileTypes
<1>5. ASSUME phase' \in Phases, runtime' = [there |-> FALSE, id |-> None, pub |-> None], share' = share
      PROVE  FileTypes'
  BY <1>1, <1>5 DEF FileTypes
<1>6. ASSUME UNCHANGED runtime, phase' \in Phases, NEW tmp \in Snapshot, NEW snap \in Snapshot,
             share' = [share EXCEPT !.tmp = tmp, !.snap = snap]
      PROVE  FileTypes'
  BY <1>1, <1>6 DEF FileTypes
<1>7. ASSUME UNCHANGED runtime, phase' \in Phases, NEW tmp \in Snapshot,
             share' = [share EXCEPT !.tmp = tmp]
      PROVE  FileTypes'
  BY <1>1, <1>7 DEF FileTypes
<1>8. ASSUME GivesUpSnapshot(l) PROVE FileTypes'
  BY <1>1, <1>7, <1>8 DEF GivesUpSnapshot
<1>9. ASSUME NEW why, Fails(l, why), UNCHANGED <<runtime, share>> PROVE FileTypes'
  BY <1>1, <1>4, <1>9 DEF Fails
<1> HIDE DEF Rest
<1>10. CASE MakesDirs(l)
  <2>1. Rest
    BY <1>3, <1>10 DEF MakesDirs
  <2>2. FileTypes'
    BY <1>1, <1>10 DEF MakesDirs, FileTypes
  <2> QED BY <2>1, <2>2 DEF Rest
<1>11. CASE StagesMirror(l)
  <2>1. Rest
    BY <1>3, <1>11 DEF StagesMirror
  <2>2. FileTypes'
    BY <1>1, <1>7, <1>11 DEF StagesMirror
  <2> QED BY <2>1, <2>2 DEF Rest
<1>12. CASE StartsSnapshot(l)
  <2>1. Rest
    BY <1>3, <1>12 DEF StartsSnapshot
  <2>2. phase' \in Phases \/ GivesUpSnapshot(l)
    BY <1>1, <1>12 DEF StartsSnapshot, FileTypes
  <2>3. FileTypes'
    BY <1>1, <1>7, <1>8, <1>12, <2>2 DEF StartsSnapshot
  <2> QED BY <2>1, <2>3 DEF Rest
<1>13. CASE EndsSnapshot(l)
  <2>1. Rest
    BY <1>3, <1>13 DEF EndsSnapshot
  <2>2. share' = [share EXCEPT !.tmp = Completes(share.tmp, l), !.snap = Completes(share.snap, l)]
    BY <1>1, <1>13 DEF EndsSnapshot, FileTypes
  <2>3. Completes(share.tmp, l) \in Snapshot /\ Completes(share.snap, l) \in Snapshot
    BY <1>1 DEF Completes, FileTypes
  <2>4. runtime' = runtime /\ phase' \in Phases
    BY <1>1, <1>13 DEF EndsSnapshot, FileTypes
  <2>5. FileTypes'
    BY <1>6, <2>2, <2>3, <2>4
  <2> QED BY <2>1, <2>5 DEF Rest
<1>14. CASE SnapshotFails(l)
  <2>1. Rest
    BY <1>3, <1>14 DEF SnapshotFails
  <2> QED BY <1>8, <1>14, <2>1 DEF SnapshotFails, Rest
<1>15. CASE MovesSnapshot(l)
  <2>1. Rest
    BY <1>3, <1>15 DEF MovesSnapshot
  <2>2. CASE share.tmp = NoFile
    BY <1>8, <1>15, <2>1, <2>2 DEF MovesSnapshot, Rest
  <2>3. CASE share.tmp # NoFile
    <3>1. share' = [share EXCEPT !.tmp = NoFile, !.snap = share.tmp] /\ share.tmp \in Snapshot
      BY <1>1, <1>15, <2>3 DEF MovesSnapshot, FileTypes
    <3>2. FileTypes'
      BY <1>1, <1>6, <1>15, <2>3, <3>1 DEF MovesSnapshot
    <3> QED BY <2>1, <3>2 DEF Rest
  <2> QED BY <2>2, <2>3
<1>16. CASE StagesContext(l)
  BY <1>1, <1>3, <1>4, <1>16 DEF StagesContext, Rest
<1>17. CASE StagesSecrets(l)
  <2>1. Fine /\ RecipeFrame /\ UNCHANGED <<share, runtime>> /\ phase' \in Phases
    BY <1>1, <1>17 DEF StagesSecrets, Fails, FileTypes
  <2> QED BY <1>3, <1>4, <2>1 DEF Rest
<1>18. CASE GeneratesKey(l)
  <2>1. Fine /\ RecipeFrame /\ UNCHANGED share /\ phase' \in Phases
    BY <1>1, <1>18 DEF GeneratesKey, Fails, FileTypes
  <2>2. \/ runtime' = runtime
        \/ runtime.there /\ runtime' = [runtime EXCEPT !.id = l]
    BY <1>18 DEF GeneratesKey
  <2>3. FileTypes'
    BY <1>1, <2>1, <2>2 DEF FileTypes
  <2> QED BY <1>3, <2>1, <2>3 DEF Rest
<1>19. CASE WritesPublicKey(l)
  <2>1. Fine /\ RecipeFrame /\ UNCHANGED share /\ phase' \in Phases
    BY <1>1, <1>19 DEF WritesPublicKey, Fails, FileTypes
  <2>2. \/ runtime' = runtime
        \/ runtime.there /\ runtime' = [runtime EXCEPT !.pub = l]
    BY <1>19 DEF WritesPublicKey
  <2>3. FileTypes'
    BY <1>1, <2>1, <2>2 DEF FileTypes
  <2> QED BY <1>3, <2>1, <2>3 DEF Rest
<1>20. CASE CopiesKey(l)
  <2>1. Fine /\ RecipeFrame /\ UNCHANGED runtime /\ phase' \in Phases
    BY <1>1, <1>20 DEF CopiesKey, Fails
  <2>2. share' = share \/ share' = [share EXCEPT !.auth = runtime.pub]
    BY <1>20 DEF CopiesKey
  <2>3. FileTypes'
    BY <1>1, <2>1, <2>2 DEF FileTypes
  <2> QED BY <1>3, <2>1, <2>3 DEF Rest
<1>21. CASE Boots(l)
  <2>1. Fine /\ UNCHANGED <<phase, runtime, share, hostVars, numberVars, look, past, scene>>
    BY <1>21 DEF Boots
  <2> QED BY <1>1, <1>2, <2>1, FaultsTyped DEF FileTypes, hostVars
<1>22. CASE DropsMarker(l)
  BY <1>1, <1>3, <1>4, <1>22 DEF DropsMarker, Rest
<1>23. CASE Leaves(l)
  <2>1. /\ Fine /\ UNCHANGED <<share, hostVars, numberVars, look, past, scene>>
        /\ runtime' = [there |-> FALSE, id |-> None, pub |-> None] /\ phase' \in Phases
    BY <1>1, <1>23 DEF Leaves
  <2> QED BY <1>1, <1>2, <1>5, <2>1, FaultsTyped DEF hostVars
<1>24. CASE Aborts(l)
  BY <1>1, <1>3, <1>4, <1>24 DEF Aborts, Rest, Faulty
<1>25. CASE IsSignalled(l)
  <2>1. /\ Faulty /\ UNCHANGED <<share, runtime, hostVars, numberVars, look, scene>>
        /\ phase' \in Phases /\ past' = [past EXCEPT !.signalled = TRUE]
    BY <1>1, <1>25 DEF IsSignalled
  <2> QED BY <1>2, <1>4, <2>1, FaultsTyped DEF hostVars
<1>26. CASE IsKilled(l)
  <2>1. /\ Faulty /\ UNCHANGED <<phase, share, runtime, hostVars, numberVars, look, scene>>
        /\ past' = [past EXCEPT !.killed = TRUE]
    BY <1>26 DEF IsKilled
  <2> QED BY <1>1, <1>2, <2>1, FaultsTyped DEF FileTypes, hostVars
<1> QED BY <1>10, <1>11, <1>12, <1>13, <1>14, <1>15, <1>16, <1>17, <1>18, <1>19, <1>20, <1>21,
           <1>22, <1>23, <1>24, <1>25, <1>26 DEF Step, Fault

LEMMA GuestTyped ==
  ASSUME Types, NEW l \in Launches, Step(l) \/ Leaves(l) \/ Fault(l)
  PROVE  GuestTypes'
<1>1. /\ scene' = scene /\ GuestTypes /\ Down \in Vm /\ l \in scene.launches
      /\ \A m \in Launches : launch[m].pc # "idle" => launch'[m].pc # "idle"
      /\ launch'[l].pc # "idle" /\ scene.launches \subseteq Launches
  <2>1. scene' = scene
    BY FilesTyped
  <2> QED BY <2>1, RecipeTyped, SceneIsTyped DEF Types, HostTypes, Down, Vm
<1>2. ASSUME vm' = vm \/ vm' = Down, volume' = volume PROVE GuestTypes'
  <2>1. CASE vm' = vm
    BY <1>1, <1>2, <2>1 DEF GuestTypes
  <2>2. CASE vm' = Down
    <3>1. vm'.stage = "down" /\ ~vm'.session
      BY <2>2 DEF Down
    <3> QED BY <1>1, <1>2, <2>2, <3>1 DEF GuestTypes
  <2> QED BY <1>2, <2>1, <2>2
<1>3. CASE Boots(l)
  <2>1. volume' = volume /\ (vm' = vm \/ vm' = [Down EXCEPT !.stage = "started", !.by = l])
    BY <1>3 DEF Boots
  <2>2. CASE vm' = [Down EXCEPT !.stage = "started", !.by = l]
    <3>1. vm' \in Vm /\ vm'.stage = "started" /\ vm'.by = l /\ ~vm'.session
      BY <2>2 DEF Vm, Down
    <3> QED BY <1>1, <2>1, <3>1 DEF GuestTypes
  <2> QED BY <1>2, <2>1, <2>2
<1>4. CASE Leaves(l)
  BY <1>2, <1>4 DEF Leaves
<1>5. CASE ~Boots(l) /\ ~Leaves(l)
  <2>1. UNCHANGED guestVars
    BY <1>5 DEF Step, Fault, MakesDirs, StagesMirror, StartsSnapshot, EndsSnapshot, SnapshotFails,
                MovesSnapshot, StagesContext, StagesSecrets, GeneratesKey, WritesPublicKey,
                CopiesKey, DropsMarker, Aborts, IsSignalled, IsKilled, RecipeFrame
  <2> QED BY <1>2, <2>1 DEF guestVars
<1> QED BY <1>3, <1>4, <1>5

\* What a command looks at.
LEMMA LookTyped ==
  ASSUME Types, Act
  PROVE  look' \in Look
<1>1. look \in Look /\ NoLook \in Look /\ share.record \in Launches \cup {None}
  BY DEF Types, HostTypes, FileTypes, NoLook, Look, Kinds
<1>2. CASE Returns
  BY <1>1, <1>2 DEF Returns
<1>3. ASSUME NEW kind \in Kinds, NEW var \in {"set", "empty", "unset"}, Begins(kind, var)
      PROVE  look' \in Look
  <2>1. look' = [pc |-> "begun", kind |-> kind, var |-> var,
                 alive |-> /\ kind = "status" /\ Reachable
                           /\ RuntimeRoot(var) = RuntimeRoot(scene.runtimeVar),
                 port |-> IF kind = "status" THEN None ELSE share.record]
    BY <1>3 DEF Begins
  <2>2. (/\ kind = "status" /\ Reachable
         /\ RuntimeRoot(var) = RuntimeRoot(scene.runtimeVar)) \in BOOLEAN
    OBVIOUS
  <2> HIDE DEF RuntimeRoot, Reachable
  <2> QED BY <1>1, <2>1, <2>2 DEF Look
<1>4. ASSUME NEW l \in Launches, Step(l) \/ Leaves(l) \/ Fault(l) PROVE look' \in Look
  BY <1>1, <1>4, FilesTyped
<1>5. CASE \/ \E l \in Launches, mode \in Modes : Plans(l, mode)
           \/ Reboots \/ MonitorAnswers \/ GuestComesUp \/ VmStops \/ HostChanges \/ GateRuns
           \/ Lists \/ \E n \in Siblings \cup {0} : DirsChange(n)
  <2>1. look' = look
    BY <1>5 DEF Plans, Reboots, MonitorAnswers, GuestComesUp, VmStops, GuestFrame, HostChanges,
                ChangesTo, GateRuns, Lists, DirsChange, NumberFrame
  <2> QED BY <1>1, <2>1
<1> QED BY <1>2, <1>3, <1>4, <1>5 DEF Act

LEMMA WitnessesTyped ==
  ASSUME Types, Witnesses
  PROVE  seen' \in [up : BOOLEAN, marked : BOOLEAN]
<1>1. /\ Reachable \in BOOLEAN /\ Reachable' \in BOOLEAN
      /\ Provisioning \in BOOLEAN /\ Provisioning' \in BOOLEAN
      /\ seen \in [up : BOOLEAN, marked : BOOLEAN]
  BY DEF Reachable, Provisioning, Types, HostTypes
<1>2. \E up, marked \in BOOLEAN : seen' = [up |-> up, marked |-> marked]
  <2>1. CASE seen' = [up |-> Reachable, marked |-> Provisioning]
    BY <1>1, <2>1
  <2>2. CASE seen' = [up |-> seen.up /\ Reachable', marked |-> seen.marked /\ Provisioning']
    <3>1. (seen.up /\ Reachable') \in BOOLEAN /\ (seen.marked /\ Provisioning') \in BOOLEAN
      OBVIOUS
    <3> QED BY <2>2, <3>1
  <2>3. CASE seen' = [up |-> FALSE, marked |-> FALSE]
    BY <2>3
  <2> HIDE DEF Reachable, Provisioning
  <2> QED BY <2>1, <2>2, <2>3 DEF Witnesses
<1> QED BY <1>2

\* What the plan of a launch decides.
LEMMA LadderIsTyped ==
  ASSUME scene \in Scenes, NEW w
  PROVE  /\ ResolveGpu(w) \in Roles \cup {None, "unavailable"}
         /\ ResolveGpu(w) = None <=> ~w.graphics
         /\ ResolveGpu(w) \in Roles => Satisfied(ResolveGpu(w), w)
<1> DEFINE rungs == {i \in DOMAIN scene.ladder : Satisfied(scene.ladder[i], w)}
<1>1. /\ scene.ladder \in Seq(Roles)
      /\ \A i \in DOMAIN scene.ladder : scene.ladder[i] \in Roles /\ i \in Nat
  BY SceneIsTyped
<1>2. CASE rungs # {}
  <2>1. \E i \in rungs : \A j \in rungs : i <= j
    <3>1. rungs \subseteq Nat
      BY <1>1
    <3> DEFINE R == OpToRel(<, Nat)
    <3>2. IsWellFoundedOn(R, Nat)
      BY NatLessThanWellFounded
    <3>3. \A i, j \in Nat : j < i => <<j, i>> \in R
      BY DEF OpToRel
    <3> HIDE DEF R, rungs
    <3>4. PICK i \in rungs : \A j \in rungs : <<j, i>> \notin R
      BY <1>2, <3>1, <3>2, WFMin
    <3>5. \A j \in rungs : i <= j
      <4> SUFFICES ASSUME NEW j \in rungs PROVE i <= j
        OBVIOUS
      <4>1. i \in Nat /\ j \in Nat /\ ~(j < i)
        BY <3>1, <3>3, <3>4
      <4> QED BY <4>1
    <3> QED BY <3>5
  <2>2. Min(rungs) \in rungs
    BY <2>1 DEF Min
  <2>3. scene.ladder[Min(rungs)] \in Roles /\ Satisfied(scene.ladder[Min(rungs)], w)
    BY <1>1, <2>2
  <2>4. ResolveGpu(w) = IF ~w.graphics THEN None ELSE scene.ladder[Min(rungs)]
    BY <1>2 DEF ResolveGpu
  <2>5. \A r \in Roles : r # None
    BY DEF Roles, None
  <2> HIDE DEF rungs
  <2> QED BY <2>3, <2>4, <2>5
<1>3. CASE rungs = {}
  <2>1. ResolveGpu(w) = IF ~w.graphics THEN None ELSE "unavailable"
    BY <1>3 DEF ResolveGpu
  <2> QED BY <2>1 DEF Roles, None
<1> QED BY <1>2, <1>3

\* The plan of a launch.
LEMMA PlansTyped ==
  ASSUME Types, NEW l \in Launches, NEW mode \in Modes, Plans(l, mode)
  PROVE  /\ FileTypes' /\ LaunchTypes' /\ GuestTypes'
         /\ scene' = scene /\ UNCHANGED <<world, gate, look, numberVars>>
         /\ faults' \in 0..scene'.faults
         /\ past' \in [killed : BOOLEAN, signalled : BOOLEAN, over : BOOLEAN, respecified : BOOLEAN]
         /\ l \in scene.launches /\ launch[l].pc = "idle"
         /\ \A m \in Launches : m # l => launch'[m] = launch[m]
         /\ \/ /\ launch'[l] = [Done EXCEPT !.gated = gate, !.why = "gpu"]
               /\ ResolveGpu(world) = "unavailable" /\ UNCHANGED <<share, past>>
            \/ /\ launch'[l] = [Idle EXCEPT !.pc = "dirs", !.mode = mode,
                                            !.gpu = ResolveGpu(world), !.gated = gate]
               /\ ResolveGpu(world) # "unavailable"
               /\ share' = [share EXCEPT !.record = l]
               /\ past' = [past EXCEPT !.over = @ \/ ~Quiet \/ vm.stage # "down"]
<1>1. /\ FileTypes /\ LaunchTypes /\ GuestTypes /\ HostTypes /\ launch[l].pc = "idle"
      /\ scene.launches \subseteq Launches
  BY SceneIsTyped DEF Types, Plans, HostTypes
<1>2. l \in scene.launches
  BY <1>1 DEF LaunchTypes
<1>3. /\ Fine /\ UNCHANGED <<phase, runtime, guestVars, hostVars, numberVars, look, scene>>
  BY DEF Plans
<1>4. faults' \in 0..scene'.faults
  BY <1>3, FaultsTyped
<1>5. ResolveGpu(world) \in Roles \cup {None, "unavailable"}
  BY <1>1, LadderIsTyped DEF HostTypes
<1> DEFINE Refused == [Done EXCEPT !.gated = gate, !.why = "gpu"]
           Planned == [Idle EXCEPT !.pc = "dirs", !.mode = mode,
                                   !.gpu = ResolveGpu(world), !.gated = gate]
<1>6. gate \in BOOLEAN
  BY <1>1 DEF HostTypes
<1>7. Refused \in Launching /\ Refused.pc = "done"
  BY <1>6 DEF Done, Idle, Launching, Steps, Modes
<1>8. ResolveGpu(world) # "unavailable" => Planned \in Launching /\ Planned.pc = "dirs"
  BY <1>5, <1>6 DEF Idle, Launching, Steps, Modes
<1>9. \/ /\ launch' = [launch EXCEPT ![l] = Refused]
         /\ ResolveGpu(world) = "unavailable" /\ UNCHANGED <<share, past>>
      \/ /\ launch' = [launch EXCEPT ![l] = Planned]
         /\ ResolveGpu(world) # "unavailable"
         /\ share' = [share EXCEPT !.record = l]
         /\ past' = [past EXCEPT !.over = @ \/ ~Quiet \/ vm.stage # "down"]
  BY DEF Plans
<1> HIDE DEF Refused, Planned
<1>10. PICK p \in Launching : /\ launch' = [launch EXCEPT ![l] = p]
                              /\ p.pc # "idle" /\ (p = Refused \/ p = Planned)
  BY <1>7, <1>8, <1>9
<1>11. /\ launch' \in [Launches -> Launching] /\ launch'[l].pc # "idle" /\ launch'[l] = p
       /\ \A m \in Launches : m # l => launch'[m] = launch[m]
  BY <1>1, <1>10 DEF LaunchTypes
<1>12. LaunchTypes'
  BY <1>1, <1>2, <1>3, <1>11 DEF LaunchTypes
<1>13. GuestTypes'
  BY <1>1, <1>3, <1>11 DEF GuestTypes, guestVars
<1>14. share' = share \/ share' = [share EXCEPT !.record = l]
  BY <1>9
<1>15. FileTypes'
  BY <1>1, <1>3, <1>14 DEF FileTypes
<1>16. past' \in [killed : BOOLEAN, signalled : BOOLEAN, over : BOOLEAN, respecified : BOOLEAN]
  <2>1. past \in [killed : BOOLEAN, signalled : BOOLEAN, over : BOOLEAN, respecified : BOOLEAN]
    BY <1>1 DEF HostTypes
  <2>2. PICK b \in BOOLEAN : past' = past \/ past' = [past EXCEPT !.over = b]
    <3>1. (past.over \/ ~Quiet \/ vm.stage # "down") \in BOOLEAN
      OBVIOUS
    <3> QED BY <1>9, <3>1
  <2> QED BY <2>1, <2>2
<1>17. \/ /\ launch'[l] = Refused
          /\ ResolveGpu(world) = "unavailable" /\ UNCHANGED <<share, past>>
       \/ /\ launch'[l] = Planned
          /\ ResolveGpu(world) # "unavailable"
          /\ share' = [share EXCEPT !.record = l]
          /\ past' = [past EXCEPT !.over = @ \/ ~Quiet \/ vm.stage # "down"]
  BY <1>1, <1>9 DEF LaunchTypes
<1> QED BY <1>1, <1>2, <1>3, <1>4, <1>11, <1>12, <1>13, <1>15, <1>16, <1>17
        DEF hostVars, Refused, Planned

\* A restart of the host.
LEMMA RebootsTyped ==
  ASSUME Types, Reboots
  PROVE  /\ FileTypes' /\ LaunchTypes' /\ GuestTypes'
         /\ UNCHANGED <<phase, share, volume, world, gate, numberVars, look, scene>>
         /\ vm' = Down /\ runtime' = [there |-> FALSE, id |-> None, pub |-> None]
         /\ past' = [past EXCEPT !.killed = @ \/ ~Quiet]
         /\ faults' \in 0..scene'.faults
         /\ past' \in [killed : BOOLEAN, signalled : BOOLEAN, over : BOOLEAN, respecified : BOOLEAN]
         /\ \A l \in Launches : /\ launch[l].pc \notin Active => launch'[l] = launch[l]
                                /\ launch[l].pc \in Active =>
                                     launch'[l] = [launch[l] EXCEPT !.pc = "done", !.why = "other"]
<1>1. /\ FileTypes /\ LaunchTypes /\ GuestTypes /\ HostTypes
  BY DEF Types
<1>2. /\ Faulty /\ UNCHANGED <<phase, share, volume, world, gate, numberVars, look, scene>>
      /\ vm' = Down /\ runtime' = [there |-> FALSE, id |-> None, pub |-> None]
      /\ past' = [past EXCEPT !.killed = @ \/ ~Quiet]
      /\ launch' = [l \in Launches |-> IF launch[l].pc \in Active
                                       THEN [launch[l] EXCEPT !.pc = "done", !.why = "other"]
                                       ELSE launch[l]]
  BY DEF Reboots, hostVars
<1>3. faults' \in 0..scene'.faults
  BY <1>2, FaultsTyped
<1>4. \A l \in Launches : [launch[l] EXCEPT !.pc = "done", !.why = "other"] \in Launching
  BY <1>1 DEF LaunchTypes, Launching, Steps
<1>5. /\ launch' \in [Launches -> Launching]
      /\ \A l \in Launches : /\ launch[l].pc \notin Active => launch'[l] = launch[l]
                             /\ launch[l].pc \in Active =>
                                  launch'[l] = [launch[l] EXCEPT !.pc = "done", !.why = "other"]
  BY <1>1, <1>2, <1>4 DEF LaunchTypes
<1>6. LaunchTypes'
  BY <1>1, <1>2, <1>5 DEF LaunchTypes, Active
<1>7. FileTypes'
  BY <1>1, <1>2 DEF FileTypes
<1>8. GuestTypes'
  BY <1>1, <1>2 DEF GuestTypes, Down, Vm
<1>9. past' \in [killed : BOOLEAN, signalled : BOOLEAN, over : BOOLEAN, respecified : BOOLEAN]
  <2>1. (past.killed \/ ~Quiet) \in BOOLEAN
    OBVIOUS
  <2> HIDE DEF Quiet
  <2> QED BY <1>1, <1>2, <2>1 DEF HostTypes
<1> QED BY <1>2, <1>3, <1>5, <1>6, <1>7, <1>8, <1>9

\* The guest comes up, by steps, and stops.
LEMMA VmTyped ==
  ASSUME Types, MonitorAnswers \/ GuestComesUp \/ VmStops
  PROVE  /\ FileTypes' /\ GuestTypes'
         /\ UNCHANGED <<phase, runtime, launch, hostVars, numberVars, look, past, faults, scene>>
<1>1. /\ FileTypes /\ LaunchTypes /\ GuestTypes /\ HostTypes /\ scene.launches \subseteq Launches
  BY SceneIsTyped DEF Types, HostTypes
<1>2. UNCHANGED <<phase, runtime, launch, hostVars, numberVars, look, past, faults, scene>>
  BY DEF MonitorAnswers, GuestComesUp, VmStops, GuestFrame
<1>3. CASE MonitorAnswers
  <2>1. vm.stage = "started" /\ vm' = [vm EXCEPT !.stage = "up"] /\ UNCHANGED <<share, volume>>
    BY <1>3 DEF MonitorAnswers
  <2>2. vm' \in Vm /\ vm'.stage = "up" /\ vm'.by = vm.by /\ vm'.session = vm.session /\ ~vm.session
    BY <1>1, <2>1 DEF GuestTypes, Vm
  <2> QED BY <1>1, <1>2, <2>1, <2>2 DEF FileTypes, GuestTypes
<1>4. CASE GuestComesUp
  <2>1. /\ vm.stage = "up" /\ share' = [share EXCEPT !.verdict = Seed]
        /\ vm' = [vm EXCEPT !.stage = "armed", !.key = share.auth,
                            !.session = launch[vm.by].mode = "agent"]
        /\ volume' = (Seed \in {"seeded", "already-seeded"})
    BY <1>4 DEF GuestComesUp
  <2>2. Seed \in {"seeded", "already-seeded", "skipped-no-snapshot", "rolled-back"}
    BY DEF Seed
  <2> HIDE DEF Seed
  <2>3. FileTypes'
    BY <1>1, <1>2, <2>1, <2>2 DEF FileTypes
  <2>4. volume' \in BOOLEAN /\ (launch[vm.by].mode = "agent") \in BOOLEAN
    BY <2>1
  <2>5. share.auth \in Launches \cup {None}
    BY <1>1 DEF FileTypes
  <2>6. vm' \in Vm /\ vm'.stage = "armed" /\ vm'.by = vm.by
    BY <1>1, <2>1, <2>4, <2>5 DEF GuestTypes, Vm
  <2> QED BY <1>1, <1>2, <2>1, <2>3, <2>4, <2>6 DEF GuestTypes
<1>5. CASE VmStops
  <2>1. vm' = Down /\ UNCHANGED <<share, volume>>
    BY <1>5 DEF VmStops
  <2> QED BY <1>1, <1>2, <2>1 DEF FileTypes, GuestTypes, Down, Vm
<1> QED BY <1>2, <1>3, <1>4, <1>5

\* The host changes.
LEMMA HostTyped ==
  ASSUME Types, HostChanges
  PROVE  /\ LaunchTypes' /\ GuestTypes'
         /\ UNCHANGED <<phase, runtime, share, guestVars, numberVars, look, faults, scene>>
         /\ world' \in World /\ gate' = FALSE
         /\ past' = [past EXCEPT !.respecified = @ \/
              (world'.graphics # world.graphics /\ \E l \in scene.launches : launch[l].pc # "idle")]
         /\ past' \in [killed : BOOLEAN, signalled : BOOLEAN, over : BOOLEAN, respecified : BOOLEAN]
         /\ \A l \in Launches : launch'[l] = [launch[l] EXCEPT !.gated = FALSE]
<1>1. /\ FileTypes /\ LaunchTypes /\ GuestTypes /\ HostTypes /\ scene.launches \subseteq Launches
  BY SceneIsTyped DEF Types, HostTypes
<1>2. PICK w \in World : ChangesTo(w)
  <2>1. world \in World
    BY <1>1 DEF HostTypes
  <2>2. CASE ChangesTo([world EXCEPT !.graphics = ~@])
    <3>1. [world EXCEPT !.graphics = ~@] \in World
      <4>1. (~world.graphics) \in BOOLEAN
        OBVIOUS
      <4> QED BY <2>1, <4>1 DEF World
    <3> QED BY <2>2, <3>1
  <2>3. ASSUME NEW v \in {"set", "empty", "unset"}, ChangesTo([world EXCEPT !.var = v])
        PROVE  \E w \in World : ChangesTo(w)
    <3>1. [world EXCEPT !.var = v] \in World
      BY <2>1 DEF World
    <3> QED BY <2>3, <3>1
  <2>4. ASSUME NEW f \in {"readable", "locked", "absent"}, ChangesTo([world EXCEPT !.file = f])
        PROVE  \E w \in World : ChangesTo(w)
    <3>1. [world EXCEPT !.file = f] \in World
      BY <2>1 DEF World
    <3> QED BY <2>4, <3>1
  <2>5. CASE ChangesTo([world EXCEPT !.vhost = ~@])
    <3>1. [world EXCEPT !.vhost = ~@] \in World
      <4>1. (~world.vhost) \in BOOLEAN
        OBVIOUS
      <4> QED BY <2>1, <4>1 DEF World
    <3> QED BY <2>5, <3>1
  <2>6. ASSUME NEW n \in Nodes,
               ChangesTo([world EXCEPT !.nodes = IF n \in @ THEN @ \ {n} ELSE @ \cup {n}])
        PROVE  \E w \in World : ChangesTo(w)
    <3>1. world.nodes \in SUBSET Nodes
      BY <2>1 DEF World
    <3>2. (IF n \in world.nodes THEN world.nodes \ {n} ELSE world.nodes \cup {n}) \in SUBSET Nodes
      BY <3>1
    <3>3. [world EXCEPT !.nodes = IF n \in @ THEN @ \ {n} ELSE @ \cup {n}] \in World
      BY <2>1, <3>2 DEF World
    <3> QED BY <2>6, <3>3
  <2> QED BY <2>2, <2>3, <2>4, <2>5, <2>6 DEF HostChanges
<1>3. /\ world' = w /\ gate' = FALSE
      /\ launch' = [l \in Launches |-> [launch[l] EXCEPT !.gated = FALSE]]
      /\ past' = [past EXCEPT !.respecified = @ \/
            (w.graphics # world.graphics /\ \E l \in scene.launches : launch[l].pc # "idle")]
      /\ UNCHANGED <<phase, runtime, share, guestVars, numberVars, look, faults, scene>>
  BY <1>2 DEF ChangesTo
<1>4. /\ \A l \in Launches : launch'[l] = [launch[l] EXCEPT !.gated = FALSE]
      /\ launch' \in [Launches -> Launching]
      /\ \A l \in Launches : launch'[l].pc = launch[l].pc
  BY <1>1, <1>3 DEF LaunchTypes, Launching
<1>5. LaunchTypes' /\ GuestTypes'
  BY <1>1, <1>3, <1>4 DEF LaunchTypes, GuestTypes, guestVars
<1>6. past' \in [killed : BOOLEAN, signalled : BOOLEAN, over : BOOLEAN, respecified : BOOLEAN]
  <2> DEFINE new == past.respecified \/
            (w.graphics # world.graphics /\ \E l \in scene.launches : launch[l].pc # "idle")
  <2>1. new \in BOOLEAN /\ past' = [past EXCEPT !.respecified = new]
    BY <1>3
  <2> HIDE DEF new
  <2> QED BY <1>1, <2>1 DEF HostTypes
<1> QED BY <1>3, <1>4, <1>5, <1>6

\* What nothing but a recipe, a plan, a restart, the guest or the host does.
LEMMA OthersTyped ==
  ASSUME Types, \/ GateRuns \/ Returns \/ Lists \/ \E n \in Siblings \cup {0} : DirsChange(n)
                \/ \E kind \in Kinds, var \in {"set", "empty", "unset"} : Begins(kind, var)
  PROVE  /\ UNCHANGED <<recipeVars, guestVars, world, past, faults, scene>>
         /\ gate' = gate \/ GateRuns
BY DEF GateRuns, Returns, LookFrame, Lists, DirsChange, NumberFrame, Begins, hostVars

LEMMA TypesInitially == Init => Types
<1> SUFFICES ASSUME Init PROVE Types
  OBVIOUS
<1>1. scene \in Scenes /\ scene \in Scene /\ scene.faults \in Nat
  BY SceneIsTyped DEF Init
<1>2. FileTypes
  BY DEF Init, FileTypes, Phases, Snapshot, NoFile
<1>3. Idle \in Launching /\ Done \in Launching /\ Done.pc = "done"
  BY DEF Idle, Done, Launching, Steps, Modes
<1>4. LaunchTypes
  BY <1>3 DEF Init, LaunchTypes
<1>5. GuestTypes
  BY DEF Init, GuestTypes, Down, Vm
<1>6. world \in World
  <2>1. [graphics |-> FALSE, var |-> "set", file |-> "readable", vhost |-> TRUE, nodes |-> {}] \in World
    BY DEF World
  <2> QED BY <2>1 DEF Init
<1>7. HostTypes
  <2>1. look \in Look
    BY DEF Init, NoLook, Look, Kinds
  <2>2. faults \in 0..scene.faults
    BY <1>1 DEF Init
  <2>3. /\ seen \in [up : BOOLEAN, marked : BOOLEAN] /\ gate \in BOOLEAN
        /\ past \in [killed : BOOLEAN, signalled : BOOLEAN, over : BOOLEAN, respecified : BOOLEAN]
    BY DEF Init
  <2> QED BY <1>1, <1>6, <2>1, <2>2, <2>3 DEF HostTypes
<1> QED BY <1>2, <1>4, <1>5, <1>7 DEF Types

LEMMA TypesStep == Types /\ [Next]_vars => Types'
<1> SUFFICES ASSUME Types, [Next]_vars PROVE Types'
  OBVIOUS
<1>1. CASE UNCHANGED vars
  BY <1>1 DEF vars, recipeVars, guestVars, hostVars, numberVars, Types, FileTypes, LaunchTypes,
              GuestTypes, HostTypes
<1>2. CASE Next
  <2>1. look' \in Look /\ seen' \in [up : BOOLEAN, marked : BOOLEAN]
    BY <1>2, LookTyped, WitnessesTyped DEF Next
  <2>2. HostTypes
    BY DEF Types
  <2>3. ASSUME NEW l \in Launches, Step(l) \/ Leaves(l) \/ Fault(l) PROVE Types'
    BY <2>1, <2>2, <2>3, FilesTyped, RecipeTyped, GuestTyped DEF Types, HostTypes
  <2>4. ASSUME NEW l \in Launches, NEW mode \in Modes, Plans(l, mode) PROVE Types'
    BY <2>1, <2>2, <2>4, PlansTyped DEF Types, HostTypes
  <2>5. CASE Reboots
    BY <2>1, <2>2, <2>5, RebootsTyped DEF Types, HostTypes
  <2>6. CASE MonitorAnswers \/ GuestComesUp \/ VmStops
    <3>1. LaunchTypes'
      BY <2>6, VmTyped DEF Types, LaunchTypes
    <3> QED BY <2>1, <2>2, <2>6, <3>1, VmTyped DEF Types, HostTypes, hostVars
  <2>7. CASE HostChanges
    <3>1. FileTypes' /\ gate' \in BOOLEAN
      BY <2>7, HostTyped DEF Types, FileTypes
    <3> QED BY <2>1, <2>2, <2>7, <3>1, HostTyped DEF Types, HostTypes
  <2>8. CASE \/ GateRuns \/ Returns \/ Lists \/ \E n \in Siblings \cup {0} : DirsChange(n)
             \/ \E kind \in Kinds, var \in {"set", "empty", "unset"} : Begins(kind, var)
    <3>1. UNCHANGED <<recipeVars, guestVars, world, past, faults, scene>> /\ (gate' = gate \/ GateRuns)
      BY <2>8, OthersTyped
    <3>2. gate' \in BOOLEAN
      BY <2>2, <3>1 DEF GateRuns, HostTypes, Preflight
    <3> QED BY <2>1, <2>2, <3>1, <3>2
            DEF Types, FileTypes, LaunchTypes, GuestTypes, HostTypes, recipeVars, guestVars
  <2> QED BY <1>2, <2>3, <2>4, <2>5, <2>6, <2>7, <2>8 DEF Next, Act
<1> QED BY <1>1, <1>2
-----------------------------------------------------------------------------
(* The invariant, in its parts.                                            *)

\* Launches that do not overlap: at most one is under way, and the files,
\* the key pair and the machine are its own or those of the one before it.
OneAtATime ==
  /\ \A l, m \in Launches : launch[l].pc \in Active /\ launch[m].pc \in Active => l = m
  /\ \A l \in Launches : launch[l].pc \in Active =>
       share.record = l /\ (vm.stage # "down" => launch[l].pc \in {"launched", "attached"})
  /\ vm.stage # "down" => share.record = vm.by

SnapshotFollows ==
  /\ share.snap.whole
  /\ \A l \in Launches : /\ launch[l].pc = "vacuum" => share.tmp.by = l
                         /\ launch[l].pc = "move" => share.tmp.whole

KeysFollow ==
  /\ runtime.pub \in {None, runtime.id}
  /\ \A l \in Launches :
       /\ launch[l].pc = "pub" => runtime.id = l
       /\ launch[l].pc = "boot" => share.auth = runtime.id /\ runtime.id # None
  /\ vm.stage # "down" => share.auth = runtime.id /\ runtime.id # None
  /\ vm.stage = "armed" => vm.key = share.auth

MarkerFollows ==
  past.signalled \/ \A l \in Launches : launch[l].pc \in Marked => phase # None

Alone == ~past.over => OneAtATime /\ SnapshotFollows /\ KeysFollow /\ MarkerFollows

\* What a command saw when it began, and what was so ever since.
Watched ==
  look.pc = "begun" =>
    /\ seen.marked => Provisioning
    /\ look.kind = "status" /\ seen.up =>
         (look.alive <=> RuntimeRoot(look.var) = RuntimeRoot(scene.runtimeVar))

\* A gate that passed foretells, as long as the host is the same.
GateHolds ==
  /\ gate => Preflight(world)
  /\ \A l \in Launches : launch[l].gated =>
       /\ Preflight(world)
       /\ launch[l].pc \in Active => launch[l].gpu = ResolveGpu(world)
       /\ launch[l].why \in {"secret", "gpu", "vsock"} => world.file = "locked"

\* A launch without graphics, under way or with its machine still running,
\* is one of a spec without graphics.
GraphicsFollow ==
  ~past.respecified =>
    \A l \in Launches :
      /\ launch[l].pc \in Active \/ (vm.stage # "down" /\ vm.by = l)
      /\ launch[l].gpu = None
      => ~world.graphics

\* A listing shows the instances there were, in order; those that did not
\* come or go since are there if and only if they were.
Enumerates(s, S) ==
  s \in [1..Cardinality(S) -> S] /\ \A i, j \in DOMAIN s : i < j => s[i] < s[j]

ListingFollows ==
  /\ dirs \subseteq Siblings \cup {0} /\ IsFiniteSet(dirs)
  /\ pick = [listed |-> pick.listed, changed |-> pick.changed]
  /\ pick.changed \subseteq Siblings
  /\ pick.listed # <<>> =>
       \E S \in SUBSET Siblings :
         /\ IsFiniteSet(S) /\ Enumerates(pick.listed, S)
         /\ \A n \in Siblings \ pick.changed : n \in S <=> n \in dirs

Inv == /\ Types /\ StrandedOnlyByAKill /\ StoreDbLabelIsTrue /\ Alone /\ Watched
       /\ GateHolds /\ GraphicsFollow /\ ListingFollows

-----------------------------------------------------------------------------
(* Launches that do not overlap.                                           *)

\* What every step of a recipe leaves alone, and how it leaves its launch.
LEMMA RecipeFrames ==
  ASSUME Types, NEW l \in Launches, Step(l) \/ Leaves(l) \/ Fault(l)
  PROVE  /\ share'.record = share.record /\ share'.verdict = share.verdict
         /\ past'.over = past.over /\ past'.respecified = past.respecified
         /\ past.signalled => past'.signalled
         /\ past.killed => past'.killed
         /\ volume' = volume
         /\ \/ vm' = vm
            \/ vm' = Down
            \/ /\ vm.stage = "down" /\ Boots(l)
               /\ vm' = [Down EXCEPT !.stage = "started", !.by = l]
         /\ launch[l].pc \in {"launched", "attached"} =>
              launch'[l].pc \in {"launched", "attached", "done"}
<1>1. /\ share \in [auth : Launches \cup {None}, snap : Snapshot, tmp : Snapshot,
                   verdict : {None, "seeded", "already-seeded", "skipped-no-snapshot", "rolled-back"},
                   record : Launches \cup {None}]
      /\ past \in [killed : BOOLEAN, signalled : BOOLEAN, over : BOOLEAN, respecified : BOOLEAN]
      /\ launch \in [Launches -> Launching]
  BY DEF Types, FileTypes, HostTypes, LaunchTypes
<1>2. share'.record = share.record /\ share'.verdict = share.verdict
  BY <1>1 DEF Step, Fault, MakesDirs, StagesMirror, StartsSnapshot, EndsSnapshot, SnapshotFails,
              MovesSnapshot, StagesContext, StagesSecrets, GeneratesKey, WritesPublicKey,
              CopiesKey, DropsMarker, Aborts, IsSignalled, IsKilled, Boots, Leaves, GivesUpSnapshot
<1>3. \/ past' = past
      \/ past' = [past EXCEPT !.signalled = TRUE]
      \/ past' = [past EXCEPT !.killed = TRUE]
  BY DEF Step, Fault, MakesDirs, StagesMirror, StartsSnapshot, EndsSnapshot, SnapshotFails,
         MovesSnapshot, StagesContext, StagesSecrets, GeneratesKey, WritesPublicKey,
         CopiesKey, DropsMarker, Aborts, IsSignalled, IsKilled, Boots, Leaves, RecipeFrame
<1>4. /\ past'.over = past.over /\ past'.respecified = past.respecified
      /\ past.signalled => past'.signalled
      /\ past.killed => past'.killed
  BY <1>1, <1>3
<1>5. volume' = volume
  BY DEF Step, Fault, MakesDirs, StagesMirror, StartsSnapshot, EndsSnapshot, SnapshotFails,
         MovesSnapshot, StagesContext, StagesSecrets, GeneratesKey, WritesPublicKey,
         CopiesKey, DropsMarker, Aborts, IsSignalled, IsKilled, Boots, Leaves, RecipeFrame, guestVars
<1>6. \/ vm' = vm
      \/ vm' = Down
      \/ /\ vm.stage = "down" /\ Boots(l)
         /\ vm' = [Down EXCEPT !.stage = "started", !.by = l]
  BY DEF Step, Fault, MakesDirs, StagesMirror, StartsSnapshot, EndsSnapshot, SnapshotFails,
         MovesSnapshot, StagesContext, StagesSecrets, GeneratesKey, WritesPublicKey,
         CopiesKey, DropsMarker, Aborts, IsSignalled, IsKilled, Boots, Leaves, RecipeFrame, guestVars
<1>7. ASSUME launch[l].pc \in {"launched", "attached"}
      PROVE  launch'[l].pc \in {"launched", "attached", "done"}
  <2>1. DropsMarker(l) \/ Leaves(l) \/ IsSignalled(l) \/ IsKilled(l)
    BY <1>7 DEF Step, Fault, MakesDirs, StagesMirror, StartsSnapshot, EndsSnapshot, SnapshotFails,
                MovesSnapshot, StagesContext, StagesSecrets, GeneratesKey, WritesPublicKey,
                CopiesKey, Aborts, Boots
  <2>2. CASE DropsMarker(l)
    BY <1>1, <2>2 DEF DropsMarker, Goes
  <2>3. CASE Leaves(l)
    BY <1>1, <2>3 DEF Leaves, Goes
  <2>4. CASE IsSignalled(l)
    BY <1>7, <2>4 DEF IsSignalled
  <2>5. CASE IsKilled(l)
    BY <1>1, <2>5 DEF IsKilled, Ends
  <2> QED BY <2>1, <2>2, <2>3, <2>4, <2>5
<1> QED BY <1>2, <1>4, <1>5, <1>6, <1>7

\* A launch under way is the only one.
LEMMA OnlyOne ==
  ASSUME Types, OneAtATime, NEW l \in Launches, launch[l].pc \in Active
  PROVE  \A m \in Launches : launch[m].pc \in Active => m = l
BY DEF OneAtATime

LEMMA RecipeOneAtATime ==
  ASSUME Types, OneAtATime, NEW l \in Launches, Step(l) \/ Leaves(l) \/ Fault(l)
  PROVE  OneAtATime'
<1>1. launch[l].pc \in Active /\ launch \in [Launches -> Launching]
  BY RecipeAdvances DEF Types, LaunchTypes
<1>2. \A m \in Launches : m # l => launch'[m] = launch[m] /\ launch'[m].pc \notin Active
  <2>1. scene' = scene
    BY FilesTyped
  <2>2. \A m \in Launches : m # l => launch'[m] = launch[m]
    BY <2>1, RecipeTyped
  <2> QED BY <1>1, <2>2, OnlyOne
<1>3. share.record = l /\ (vm.stage # "down" => launch[l].pc \in {"launched", "attached"})
  BY <1>1 DEF OneAtATime
<1>4. vm.stage # "down" => share.record = vm.by
  BY DEF OneAtATime
<1>5. CASE vm' = vm \/ vm' = Down
  <2>1. vm'.stage # "down" => vm' = vm
    BY <1>5 DEF Down
  <2>2. vm'.stage # "down" => launch'[l].pc \in {"launched", "attached", "done"}
    BY <1>3, <2>1, RecipeFrames
  <2>3. share'.record = l /\ (vm'.stage # "down" => share'.record = vm'.by)
    BY <1>3, <1>4, <2>1, RecipeFrames
  <2> QED BY <1>2, <2>2, <2>3 DEF OneAtATime, Active
<1>6. CASE Boots(l) /\ vm' = [Down EXCEPT !.stage = "started", !.by = l]
  <2>1. launch'[l].pc = "launched"
    BY <1>1, <1>6 DEF Boots, Launching
  <2>2. share'.record = l /\ vm'.by = l
    BY <1>3, <1>6, RecipeFrames DEF Down
  <2> QED BY <1>2, <2>1, <2>2 DEF OneAtATime
<1> QED BY <1>5, <1>6, RecipeFrames

LEMMA RecipeSnapshot ==
  ASSUME Types, OneAtATime, SnapshotFollows, NEW l \in Launches, Step(l) \/ Leaves(l) \/ Fault(l)
  PROVE  SnapshotFollows'
<1>1. /\ launch[l].pc \in Active /\ launch \in [Launches -> Launching]
      /\ share.snap \in Snapshot /\ share.tmp \in Snapshot
      /\ share \in [auth : Launches \cup {None}, snap : Snapshot, tmp : Snapshot,
                   verdict : {None, "seeded", "already-seeded", "skipped-no-snapshot", "rolled-back"},
                   record : Launches \cup {None}]
      /\ NoFile.whole
  BY RecipeAdvances DEF Types, LaunchTypes, FileTypes, NoFile
<1>2. \A m \in Launches : m # l => launch'[m].pc \notin Active
  <2>1. scene' = scene
    BY FilesTyped
  <2>2. \A m \in Launches : m # l => launch'[m] = launch[m]
    BY <2>1, RecipeTyped
  <2> QED BY <1>1, <2>2, OnlyOne
<1>3. SUFFICES /\ share'.snap.whole
               /\ launch'[l].pc = "vacuum" => share'.tmp.by = l
               /\ launch'[l].pc = "move" => share'.tmp.whole
  BY <1>2 DEF SnapshotFollows, Active, Steps
<1>4. share.snap.whole
  BY DEF SnapshotFollows
<1>5. ASSUME share' = share, launch'[l].pc \notin {"vacuum", "move"}
      PROVE  /\ share'.snap.whole
             /\ launch'[l].pc = "vacuum" => share'.tmp.by = l
             /\ launch'[l].pc = "move" => share'.tmp.whole
  BY <1>4, <1>5
<1>6. ASSUME NEW pc, Goes(l, pc) PROVE launch'[l].pc = pc
  BY <1>1, <1>6 DEF Goes, Launching
<1>7. ASSUME NEW why, Ends(l, why) PROVE launch'[l].pc = "done"
  BY <1>1, <1>7 DEF Ends, Launching
<1>8. ASSUME GivesUpSnapshot(l)
      PROVE  share'.snap = share.snap /\ launch'[l].pc = "context"
  BY <1>1, <1>6, <1>8 DEF GivesUpSnapshot
<1>9. CASE MakesDirs(l) \/ StagesContext(l) \/ DropsMarker(l)
  <2>1. share' = share /\ launch'[l].pc \in {"mirror", "secrets", "done", "attached"}
    BY <1>6, <1>9 DEF MakesDirs, StagesContext, DropsMarker
  <2> QED BY <1>5, <2>1
<1>10. CASE StagesMirror(l)
  <2>1. share'.snap = share.snap /\ launch'[l].pc = "db"
    BY <1>1, <1>6, <1>10 DEF StagesMirror
  <2> QED BY <1>4, <2>1
<1>11. CASE StartsSnapshot(l)
  <2>1. CASE GivesUpSnapshot(l)
    BY <1>4, <1>8, <2>1
  <2>2. CASE share' = [share EXCEPT !.tmp = [by |-> l, whole |-> FALSE]] /\ Goes(l, "vacuum")
    <3>1. share'.snap = share.snap /\ share'.tmp.by = l /\ launch'[l].pc = "vacuum"
      BY <1>1, <1>6, <2>2
    <3> QED BY <1>4, <3>1
  <2> QED BY <1>11, <2>1, <2>2 DEF StartsSnapshot
<1>12. CASE EndsSnapshot(l)
  <2>1. /\ share'.tmp = Completes(share.tmp, l) /\ share'.snap = Completes(share.snap, l)
        /\ launch'[l].pc = "move" /\ launch[l].pc = "vacuum"
    BY <1>1, <1>6, <1>12 DEF EndsSnapshot
  <2>2. share.tmp.by = l
    BY <2>1 DEF SnapshotFollows
  <2>3. share'.tmp.whole
    BY <1>1, <2>1, <2>2 DEF Completes, Snapshot
  <2>4. share'.snap.whole
    BY <1>1, <1>4, <2>1 DEF Completes, Snapshot
  <2> QED BY <2>1, <2>3, <2>4
<1>13. CASE SnapshotFails(l)
  BY <1>4, <1>8, <1>13 DEF SnapshotFails
<1>14. CASE MovesSnapshot(l)
  <2>1. CASE GivesUpSnapshot(l)
    BY <1>4, <1>8, <2>1
  <2>2. CASE share' = [share EXCEPT !.snap = share.tmp, !.tmp = NoFile] /\ Goes(l, "context")
    <3>1. share'.snap = share.tmp /\ launch'[l].pc = "context"
      BY <1>1, <1>6, <2>2
    <3>2. share.tmp.whole
      BY <1>14 DEF SnapshotFollows, MovesSnapshot
    <3> QED BY <3>1, <3>2
  <2> QED BY <1>14, <2>1, <2>2 DEF MovesSnapshot
<1>15. CASE StagesSecrets(l) \/ GeneratesKey(l) \/ WritesPublicKey(l)
  <2>1. share' = share /\ launch'[l].pc \in {"keygen", "pub", "copy", "done"}
    BY <1>6, <1>7, <1>15 DEF StagesSecrets, GeneratesKey, WritesPublicKey, Fails
  <2> QED BY <1>5, <2>1
<1>16. CASE CopiesKey(l)
  <2>1. share'.snap = share.snap /\ launch'[l].pc \in {"boot", "done"}
    BY <1>1, <1>6, <1>7, <1>16 DEF CopiesKey, Fails
  <2> QED BY <1>4, <2>1
<1>17. CASE Boots(l)
  <2>1. share' = share /\ launch'[l].pc = "launched"
    BY <1>1, <1>17 DEF Boots, Launching
  <2> QED BY <1>5, <2>1
<1>18. CASE Leaves(l) \/ Aborts(l) \/ IsKilled(l)
  <2>1. share' = share /\ launch'[l].pc = "done"
    BY <1>6, <1>7, <1>18 DEF Leaves, Aborts, IsKilled
  <2> QED BY <1>5, <2>1
<1>19. CASE IsSignalled(l)
  BY <1>4, <1>19 DEF IsSignalled, SnapshotFollows
<1> QED BY <1>9, <1>10, <1>11, <1>12, <1>13, <1>14, <1>15, <1>16, <1>17, <1>18, <1>19 DEF Step, Fault

LEMMA RecipeKeys ==
  ASSUME Types, OneAtATime, KeysFollow, NEW l \in Launches, Step(l) \/ Leaves(l) \/ Fault(l)
  PROVE  KeysFollow'
<1> DEFINE Keys == /\ runtime'.pub \in {None, runtime'.id}
                   /\ launch'[l].pc = "pub" => runtime'.id = l
                   /\ launch'[l].pc = "boot" => share'.auth = runtime'.id /\ runtime'.id # None
                   /\ vm'.stage # "down" => share'.auth = runtime'.id /\ runtime'.id # None
                   /\ vm'.stage = "armed" => vm'.key = share'.auth
<1>1. /\ launch[l].pc \in Active /\ launch \in [Launches -> Launching]
      /\ runtime \in [there : BOOLEAN, id : Launches \cup {None}, pub : Launches \cup {None}]
      /\ share \in [auth : Launches \cup {None}, snap : Snapshot, tmp : Snapshot,
                   verdict : {None, "seeded", "already-seeded", "skipped-no-snapshot", "rolled-back"},
                   record : Launches \cup {None}]
      /\ l # None
  BY RecipeAdvances, SceneIsTyped DEF Types, LaunchTypes, FileTypes, HostTypes
<1>2. \A m \in Launches : m # l => launch'[m].pc \notin Active
  <2>1. scene' = scene
    BY FilesTyped
  <2>2. \A m \in Launches : m # l => launch'[m] = launch[m]
    BY <2>1, RecipeTyped
  <2> QED BY <1>1, <2>2, OnlyOne
<1>3. SUFFICES Keys
  BY <1>2 DEF KeysFollow, Active, Steps
<1>4. /\ runtime.pub \in {None, runtime.id}
      /\ launch[l].pc = "pub" => runtime.id = l
      /\ launch[l].pc = "boot" => share.auth = runtime.id /\ runtime.id # None
      /\ vm.stage # "down" => share.auth = runtime.id /\ runtime.id # None
      /\ vm.stage = "armed" => vm.key = share.auth
  BY DEF KeysFollow
<1>5. vm.stage # "down" => launch[l].pc \in {"launched", "attached"} /\ share.record = l /\ vm.by = l
  BY <1>1 DEF OneAtATime
<1>6. ASSUME NEW pc, Goes(l, pc) PROVE launch'[l].pc = pc
  BY <1>1, <1>6 DEF Goes, Launching
<1>7. ASSUME NEW why, Ends(l, why) PROVE launch'[l].pc = "done"
  BY <1>1, <1>7 DEF Ends, Launching
<1>8. ASSUME vm' = vm, runtime' = runtime, share'.auth = share.auth, launch'[l].pc \notin {"pub", "boot"}
      PROVE  Keys
  BY <1>4, <1>8
<1> HIDE DEF Keys
<1>9. CASE \/ StagesMirror(l) \/ StartsSnapshot(l) \/ EndsSnapshot(l) \/ SnapshotFails(l)
           \/ MovesSnapshot(l) \/ StagesContext(l) \/ StagesSecrets(l) \/ DropsMarker(l)
  <2>1. vm' = vm /\ runtime' = runtime
    BY <1>9 DEF StagesMirror, StartsSnapshot, EndsSnapshot, SnapshotFails, MovesSnapshot,
                StagesContext, StagesSecrets, DropsMarker, GivesUpSnapshot, RecipeFrame, guestVars
  <2>2. share'.auth = share.auth
    BY <1>1, <1>9 DEF StagesMirror, StartsSnapshot, EndsSnapshot, SnapshotFails, MovesSnapshot,
                StagesContext, StagesSecrets, DropsMarker, GivesUpSnapshot
  <2>3. launch'[l].pc \in {"db", "vacuum", "move", "context", "secrets", "keygen", "done", "attached"}
    BY <1>6, <1>7, <1>9 DEF StagesMirror, StartsSnapshot, EndsSnapshot, SnapshotFails, MovesSnapshot,
                StagesContext, StagesSecrets, DropsMarker, GivesUpSnapshot, Fails
  <2> QED BY <1>8, <2>1, <2>2, <2>3
<1>10. CASE Aborts(l) \/ IsKilled(l)
  <2>1. vm' = vm /\ runtime' = runtime /\ share' = share /\ launch'[l].pc = "done"
    BY <1>7, <1>10 DEF Aborts, IsKilled, RecipeFrame, guestVars
  <2> QED BY <1>8, <2>1
<1>11. CASE MakesDirs(l)
  <2>1. /\ vm' = vm /\ share' = share /\ launch'[l].pc = "mirror"
        /\ runtime'.id = runtime.id /\ runtime'.pub = runtime.pub
    BY <1>1, <1>6, <1>11 DEF MakesDirs, RecipeFrame, guestVars
  <2> QED BY <1>4, <2>1 DEF Keys
<1>12. CASE IsSignalled(l)
  <2>1. vm' = vm /\ share' = share /\ launch' = launch /\ runtime' = runtime
    BY <1>12 DEF IsSignalled, guestVars
  <2> QED BY <1>4, <2>1 DEF Keys
<1>13. CASE GeneratesKey(l)
  <2>1. vm' = vm /\ share' = share /\ vm.stage = "down"
    BY <1>5, <1>13 DEF GeneratesKey, RecipeFrame, guestVars
  <2>2. CASE Ends(l, "other") /\ runtime' = runtime
    BY <1>7, <1>8, <2>1, <2>2
  <2>3. CASE runtime.id = None /\ runtime' = [runtime EXCEPT !.id = l] /\ Goes(l, "pub")
    <3>1. runtime'.id = l /\ runtime'.pub = runtime.pub /\ runtime.pub = None /\ launch'[l].pc = "pub"
      BY <1>1, <1>4, <1>6, <2>3
    <3> QED BY <2>1, <3>1 DEF Keys
  <2>4. CASE runtime' = runtime /\ Goes(l, "copy")
    <3>1. launch'[l].pc = "copy"
      BY <1>6, <2>4
    <3> QED BY <1>8, <2>1, <2>4, <3>1
  <2> QED BY <1>13, <2>2, <2>3, <2>4 DEF GeneratesKey, Fails
<1>14. CASE WritesPublicKey(l)
  <2>1. vm' = vm /\ share' = share /\ vm.stage = "down" /\ runtime.id = l
    BY <1>4, <1>5, <1>14 DEF WritesPublicKey, RecipeFrame, guestVars
  <2>2. CASE Ends(l, "other") /\ runtime' = runtime
    BY <1>7, <1>8, <2>1, <2>2
  <2>3. CASE runtime' = [runtime EXCEPT !.pub = l] /\ Goes(l, "copy")
    <3>1. runtime'.id = l /\ runtime'.pub = l /\ launch'[l].pc = "copy"
      BY <1>1, <1>6, <2>1, <2>3
    <3> QED BY <2>1, <3>1 DEF Keys
  <2> QED BY <1>14, <2>2, <2>3 DEF WritesPublicKey, Fails
<1>15. CASE CopiesKey(l)
  <2>1. vm' = vm /\ runtime' = runtime /\ vm.stage = "down"
    BY <1>5, <1>15 DEF CopiesKey, RecipeFrame, guestVars
  <2>2. CASE Ends(l, "other") /\ share' = share
    BY <1>7, <1>8, <2>1, <2>2
  <2>3. CASE runtime.pub # None /\ share' = [share EXCEPT !.auth = runtime.pub] /\ Goes(l, "boot")
    <3>1. share'.auth = runtime.id /\ runtime.id # None /\ launch'[l].pc = "boot"
      BY <1>1, <1>4, <1>6, <2>3
    <3> QED BY <1>4, <2>1, <3>1 DEF Keys
  <2> QED BY <1>15, <2>2, <2>3 DEF CopiesKey, Fails
<1>16. CASE Boots(l)
  <2>1. share' = share /\ runtime' = runtime /\ launch'[l].pc = "launched"
    BY <1>1, <1>16 DEF Boots, Launching
  <2>2. share.auth = runtime.id /\ runtime.id # None /\ vm.stage = "down"
    BY <1>4, <1>5, <1>16 DEF Boots
  <2>3. vm'.stage # "armed"
    BY <1>16, <2>2 DEF Boots, Down
  <2> QED BY <1>4, <2>1, <2>2, <2>3 DEF Keys
<1>17. CASE Leaves(l)
  <2>1. runtime' = [there |-> FALSE, id |-> None, pub |-> None] /\ launch'[l].pc = "done"
    BY <1>6, <1>17 DEF Leaves
  <2>2. vm'.stage = "down"
    BY <1>5, <1>17 DEF Leaves, Down
  <2> QED BY <2>1, <2>2 DEF Keys
<1> QED BY <1>9, <1>10, <1>11, <1>12, <1>13, <1>14, <1>15, <1>16, <1>17 DEF Step, Fault

\* The marker of a recipe: each step leaves one, or leaves the steps that
\* have one, or was signalled.
LEMMA RecipeMarks ==
  ASSUME Types, NEW l \in Launches, Step(l) \/ Leaves(l) \/ Fault(l)
  PROVE  /\ launch'[l].pc \in Marked => \/ phase' # None
                                        \/ past'.signalled
                                        \/ phase' = phase /\ launch[l].pc \in Marked
         /\ phase' # None => \/ launch'[l].pc \in Marked
                             \/ past'.killed
                             \/ phase' = phase /\ launch[l].pc \notin Marked
<1> DEFINE Marks ==
         /\ launch'[l].pc \in Marked => \/ phase' # None
                                        \/ past'.signalled
                                        \/ phase' = phase /\ launch[l].pc \in Marked
         /\ phase' # None => \/ launch'[l].pc \in Marked
                             \/ past'.killed
                             \/ phase' = phase /\ launch[l].pc \notin Marked
<1>1. /\ launch \in [Launches -> Launching]
      /\ past \in [killed : BOOLEAN, signalled : BOOLEAN, over : BOOLEAN, respecified : BOOLEAN]
  BY DEF Types, LaunchTypes, HostTypes
<1>2. ASSUME NEW pc, Goes(l, pc) PROVE launch'[l].pc = pc
  BY <1>1, <1>2 DEF Goes, Launching
<1>3. ASSUME NEW why, Ends(l, why) PROVE launch'[l].pc = "done"
  BY <1>1, <1>3 DEF Ends, Launching
<1>4. /\ \A pc \in {"mirror", "db", "vacuum", "move", "context", "secrets", "keygen", "pub",
                    "copy", "boot", "launched"} : pc \in Marked
      /\ \A pc \in {"attached", "done"} : pc \notin Marked
      /\ \A p \in {"mirror", "db", "context", "secrets", "boot"} : p # None
  BY DEF Marked, Steps, None
<1>5. ASSUME launch'[l].pc \in Marked, phase' # None PROVE Marks
  BY <1>5
<1>6. ASSUME launch'[l].pc \notin Marked, phase' = None PROVE Marks
  BY <1>6
<1>7. ASSUME launch[l].pc \in Marked, launch'[l].pc \in Marked, phase' = phase PROVE Marks
  BY <1>7
<1>8. CASE MakesDirs(l)
  <2>1. launch'[l].pc = "mirror" /\ phase' = "mirror"
    BY <1>2, <1>8 DEF MakesDirs
  <2> QED BY <1>4, <1>5, <2>1
<1>9. CASE StagesMirror(l)
  <2>1. launch'[l].pc = "db" /\ phase' = "db"
    BY <1>2, <1>9 DEF StagesMirror
  <2> QED BY <1>4, <1>5, <2>1
<1>10. ASSUME GivesUpSnapshot(l) PROVE Marks
  <2>1. launch'[l].pc = "context" /\ phase' = "context"
    BY <1>2, <1>10 DEF GivesUpSnapshot
  <2> QED BY <1>4, <1>5, <2>1
<1>11. CASE StartsSnapshot(l)
  <2>1. CASE Goes(l, "vacuum") /\ phase' = phase
    <3>1. launch[l].pc = "db" /\ launch'[l].pc = "vacuum"
      BY <1>2, <1>11, <2>1 DEF StartsSnapshot
    <3> QED BY <1>4, <1>7, <2>1, <3>1
  <2> QED BY <1>10, <1>11, <2>1 DEF StartsSnapshot
<1>12. CASE EndsSnapshot(l)
  <2>1. launch[l].pc = "vacuum" /\ launch'[l].pc = "move" /\ phase' = phase
    BY <1>2, <1>12 DEF EndsSnapshot
  <2> QED BY <1>4, <1>7, <2>1
<1>13. CASE SnapshotFails(l)
  BY <1>10, <1>13 DEF SnapshotFails
<1>14. CASE MovesSnapshot(l)
  <2>1. CASE Goes(l, "context") /\ phase' = "context"
    <3>1. launch'[l].pc = "context"
      BY <1>2, <2>1
    <3> QED BY <1>4, <1>5, <2>1, <3>1
  <2> QED BY <1>10, <1>14, <2>1 DEF MovesSnapshot
<1>15. CASE StagesContext(l)
  <2>1. launch'[l].pc = "secrets" /\ phase' = "secrets"
    BY <1>2, <1>15 DEF StagesContext
  <2> QED BY <1>4, <1>5, <2>1
<1>16. ASSUME NEW why, Fails(l, why) PROVE Marks
  <2>1. launch'[l].pc = "done" /\ phase' = None
    BY <1>3, <1>16 DEF Fails
  <2> QED BY <1>4, <1>6, <2>1
<1>17. CASE StagesSecrets(l)
  <2>1. CASE Goes(l, "keygen") /\ phase' = phase
    <3>1. launch[l].pc = "secrets" /\ launch'[l].pc = "keygen"
      BY <1>2, <1>17, <2>1 DEF StagesSecrets
    <3> QED BY <1>4, <1>7, <2>1, <3>1
  <2> QED BY <1>16, <1>17, <2>1 DEF StagesSecrets
<1>18. CASE GeneratesKey(l)
  <2>1. CASE (Goes(l, "pub") \/ Goes(l, "copy")) /\ phase' = phase
    <3>1. launch[l].pc = "keygen" /\ launch'[l].pc \in {"pub", "copy"}
      BY <1>2, <1>18, <2>1 DEF GeneratesKey
    <3> QED BY <1>4, <1>7, <2>1, <3>1
  <2> QED BY <1>16, <1>18, <2>1 DEF GeneratesKey
<1>19. CASE WritesPublicKey(l)
  <2>1. CASE Goes(l, "copy") /\ phase' = phase
    <3>1. launch[l].pc = "pub" /\ launch'[l].pc = "copy"
      BY <1>2, <1>19, <2>1 DEF WritesPublicKey
    <3> QED BY <1>4, <1>7, <2>1, <3>1
  <2> QED BY <1>16, <1>19, <2>1 DEF WritesPublicKey
<1>20. CASE CopiesKey(l)
  <2>1. CASE Goes(l, "boot") /\ phase' = "boot"
    <3>1. launch'[l].pc = "boot"
      BY <1>2, <2>1
    <3> QED BY <1>4, <1>5, <2>1, <3>1
  <2> QED BY <1>16, <1>20, <2>1 DEF CopiesKey
<1>21. CASE Boots(l)
  <2>1. launch[l].pc = "boot" /\ launch'[l].pc = "launched" /\ phase' = phase
    BY <1>1, <1>21 DEF Boots, Launching
  <2> QED BY <1>4, <1>7, <2>1
<1>22. CASE DropsMarker(l)
  <2>1. launch'[l].pc \in {"done", "attached"} /\ phase' = None
    BY <1>2, <1>22 DEF DropsMarker
  <2> QED BY <1>4, <1>6, <2>1
<1>23. CASE Leaves(l)
  <2>1. launch'[l].pc = "done" /\ phase' = None
    BY <1>2, <1>23 DEF Leaves
  <2> QED BY <1>4, <1>6, <2>1
<1>24. CASE Aborts(l)
  <2>1. launch'[l].pc = "done" /\ phase' = None
    BY <1>3, <1>24 DEF Aborts
  <2> QED BY <1>4, <1>6, <2>1
<1>25. CASE IsSignalled(l)
  <2>1. phase' = None /\ past'.signalled
    BY <1>1, <1>25 DEF IsSignalled
  <2> QED BY <2>1 DEF Marks
<1>26. CASE IsKilled(l)
  <2>1. launch'[l].pc = "done" /\ past'.killed
    BY <1>1, <1>3, <1>26 DEF IsKilled
  <2> QED BY <1>4, <2>1 DEF Marks
<1>27. Marks
  BY <1>8, <1>9, <1>11, <1>12, <1>13, <1>14, <1>15, <1>17, <1>18, <1>19, <1>20, <1>21, <1>22,
     <1>23, <1>24, <1>25, <1>26 DEF Step, Fault
<1> QED BY <1>27 DEF Marks

LEMMA RecipeAlone ==
  ASSUME Types, Alone, NEW l \in Launches, Step(l) \/ Leaves(l) \/ Fault(l)
  PROVE  Alone'
<1> SUFFICES ASSUME ~past'.over
             PROVE  OneAtATime' /\ SnapshotFollows' /\ KeysFollow' /\ MarkerFollows'
  BY DEF Alone
<1>1. OneAtATime /\ SnapshotFollows /\ KeysFollow /\ MarkerFollows
  BY RecipeFrames DEF Alone
<1>2. launch[l].pc \in Active
  BY RecipeAdvances DEF Types, LaunchTypes
<1>3. \A m \in Launches : m # l => launch'[m].pc \notin Marked
  <2>1. scene' = scene
    BY FilesTyped
  <2>2. \A m \in Launches : m # l => launch'[m] = launch[m] /\ launch[m].pc \notin Active
    BY <1>1, <1>2, <2>1, RecipeTyped, OnlyOne
  <2> QED BY <2>2 DEF Active, Marked
<1>4. MarkerFollows'
  <2> SUFFICES ASSUME ~past'.signalled, NEW m \in Launches, launch'[m].pc \in Marked
               PROVE  phase' # None
    BY DEF MarkerFollows
  <2>1. m = l
    BY <1>3
  <2>2. phase' # None \/ (phase' = phase /\ launch[l].pc \in Marked)
    <3>1. launch'[l].pc \in Marked
      BY <2>1
    <3> QED BY <3>1, RecipeMarks
  <2>3. ~past.signalled
    BY RecipeFrames
  <2> QED BY <1>1, <2>2, <2>3 DEF MarkerFollows
<1> QED BY <1>1, <1>4, RecipeOneAtATime, RecipeSnapshot, RecipeKeys

\* Nothing but a machine that stops and launches that end, if anything.
LEMMA StaysAlone ==
  ASSUME Types, Alone, UNCHANGED <<phase, runtime, share>>, vm' = vm \/ vm' = Down,
         past'.over = past.over, past'.signalled = past.signalled,
         \A l \in Launches : launch'[l].pc \in {launch[l].pc, "done"}
  PROVE  Alone'
<1> SUFFICES ASSUME ~past'.over
             PROVE  OneAtATime' /\ SnapshotFollows' /\ KeysFollow' /\ MarkerFollows'
  BY DEF Alone
<1>1. OneAtATime /\ SnapshotFollows /\ KeysFollow /\ MarkerFollows
  BY DEF Alone
<1>2. /\ \A l \in Launches : launch'[l].pc \in Active => launch'[l].pc = launch[l].pc
      /\ \A l \in Launches : launch'[l].pc \in Marked => launch'[l].pc = launch[l].pc
      /\ vm'.stage # "down" => vm' = vm
  BY DEF Active, Marked, Down
<1>3. OneAtATime'
  BY <1>1, <1>2 DEF OneAtATime
<1>4. SnapshotFollows'
  BY <1>1 DEF SnapshotFollows
<1>5. KeysFollow'
  BY <1>1, <1>2 DEF KeysFollow
<1>6. MarkerFollows'
  BY <1>1, <1>2 DEF MarkerFollows
<1> QED BY <1>3, <1>4, <1>5, <1>6

LEMMA PlansAlone ==
  ASSUME Types, Alone, NEW l \in Launches, NEW mode \in Modes, Plans(l, mode)
  PROVE  Alone'
<1>1. /\ \A m \in Launches : m # l => launch'[m] = launch[m]
      /\ launch[l].pc = "idle"
      /\ UNCHANGED <<phase, runtime, vm>>
  BY PlansTyped DEF Plans, guestVars
<1>2. CASE launch'[l] = [Done EXCEPT !.gated = gate, !.why = "gpu"] /\ UNCHANGED <<share, past>>
  <2>1. launch'[l].pc = "done"
    BY <1>2 DEF Done, Idle
  <2>2. \A m \in Launches : launch'[m].pc \in {launch[m].pc, "done"}
    BY <1>1, <2>1
  <2> QED BY <1>1, <1>2, <2>2, StaysAlone
<1>3. CASE /\ launch'[l] = [Idle EXCEPT !.pc = "dirs", !.mode = mode,
                                        !.gpu = ResolveGpu(world), !.gated = gate]
           /\ share' = [share EXCEPT !.record = l]
           /\ past' = [past EXCEPT !.over = @ \/ ~Quiet \/ vm.stage # "down"]
  <2> SUFFICES ASSUME ~past'.over
               PROVE  OneAtATime' /\ SnapshotFollows' /\ KeysFollow' /\ MarkerFollows'
    BY DEF Alone
  <2>1. /\ past \in [killed : BOOLEAN, signalled : BOOLEAN, over : BOOLEAN, respecified : BOOLEAN]
        /\ share \in [auth : Launches \cup {None}, snap : Snapshot, tmp : Snapshot,
                      verdict : {None, "seeded", "already-seeded", "skipped-no-snapshot", "rolled-back"},
                      record : Launches \cup {None}]
    BY DEF Types, HostTypes, FileTypes
  <2>2. ~past.over /\ Quiet /\ vm.stage = "down"
    BY <1>3, <2>1
  <2>3. launch'[l].pc = "dirs"
    BY <1>3 DEF Idle
  <2>4. \A m \in Launches : m # l => launch'[m].pc \notin Active
    BY <1>1, <2>2 DEF Quiet
  <2>5. \A m \in Launches : launch'[m].pc \in Active => m = l
    BY <2>4
  <2>6. OneAtATime /\ SnapshotFollows /\ KeysFollow
    BY <2>2 DEF Alone
  <2>7. /\ share'.record = l /\ share'.snap = share.snap /\ share'.tmp = share.tmp
        /\ share'.auth = share.auth
    BY <1>3, <2>1
  <2>8. \A m \in Launches : launch'[m].pc \notin Marked /\ launch'[m].pc \notin {"vacuum", "move", "pub", "boot"}
    BY <2>3, <2>4 DEF Active, Marked, Steps
  <2>9. OneAtATime'
    BY <1>1, <2>2, <2>5, <2>7 DEF OneAtATime
  <2>10. SnapshotFollows'
    BY <2>6, <2>7, <2>8 DEF SnapshotFollows
  <2>11. KeysFollow'
    BY <1>1, <2>2, <2>6, <2>8 DEF KeysFollow
  <2> QED BY <2>8, <2>9, <2>10, <2>11 DEF MarkerFollows
<1> QED BY <1>2, <1>3, PlansTyped

LEMMA AloneStep ==
  ASSUME Types, Alone, Act
  PROVE  Alone'
<1>1. ASSUME NEW l \in Launches, Step(l) \/ Leaves(l) \/ Fault(l) PROVE Alone'
  BY <1>1, RecipeAlone
<1>2. ASSUME NEW l \in Launches, NEW mode \in Modes, Plans(l, mode) PROVE Alone'
  BY <1>2, PlansAlone
<1>3. CASE Reboots
  <2> SUFFICES ASSUME ~past'.over
               PROVE  OneAtATime' /\ SnapshotFollows' /\ KeysFollow' /\ MarkerFollows'
    BY DEF Alone
  <2>1. /\ past \in [killed : BOOLEAN, signalled : BOOLEAN, over : BOOLEAN, respecified : BOOLEAN]
        /\ launch \in [Launches -> Launching]
    BY DEF Types, HostTypes, LaunchTypes
  <2>2. /\ share' = share /\ vm' = Down /\ runtime' = [there |-> FALSE, id |-> None, pub |-> None]
        /\ past' = [past EXCEPT !.killed = @ \/ ~Quiet]
    BY <1>3, RebootsTyped
  <2>3. ~past.over
    BY <2>1, <2>2
  <2>4. \A m \in Launches : launch'[m].pc \in {"idle", "done"}
    <3> SUFFICES ASSUME NEW m \in Launches PROVE launch'[m].pc \in {"idle", "done"}
      OBVIOUS
    <3>1. CASE launch[m].pc \in Active
      <4>1. launch'[m] = [launch[m] EXCEPT !.pc = "done", !.why = "other"]
        BY <1>3, <3>1, RebootsTyped
      <4> QED BY <2>1, <4>1 DEF Launching
    <3>2. CASE launch[m].pc \notin Active
      <4>1. launch'[m] = launch[m] /\ launch[m].pc \in Steps
        BY <1>3, <2>1, <3>2, RebootsTyped DEF Launching
      <4> QED BY <3>2, <4>1 DEF Active
    <3> QED BY <3>1, <3>2
  <2>5. vm'.stage = "down"
    BY <2>2 DEF Down
  <2>6. SnapshotFollows
    BY <2>3 DEF Alone
  <2> QED BY <2>2, <2>4, <2>5, <2>6 DEF OneAtATime, SnapshotFollows, KeysFollow, MarkerFollows,
             Active, Marked
<1>4. CASE MonitorAnswers
  <2>1. UNCHANGED <<phase, runtime, launch, past, share>>
    BY <1>4 DEF MonitorAnswers, GuestFrame
  <2>2. vm.stage = "started" /\ vm'.stage = "up" /\ vm'.by = vm.by
    BY <1>4 DEF MonitorAnswers, Types, GuestTypes, Vm
  <2> QED BY <2>1, <2>2 DEF Alone, OneAtATime, SnapshotFollows, KeysFollow, MarkerFollows
<1>5. CASE GuestComesUp
  <2>1. UNCHANGED <<phase, runtime, launch, past>> /\ share' = [share EXCEPT !.verdict = Seed]
    BY <1>5 DEF GuestComesUp, GuestFrame
  <2>2. vm.stage = "up" /\ vm'.stage = "armed" /\ vm'.by = vm.by /\ vm'.key = share.auth
    BY <1>5 DEF GuestComesUp, Types, GuestTypes, Vm
  <2>3. /\ share'.record = share.record /\ share'.snap = share.snap /\ share'.tmp = share.tmp
        /\ share'.auth = share.auth
    BY <2>1 DEF Types, FileTypes
  <2> QED BY <2>1, <2>2, <2>3 DEF Alone, OneAtATime, SnapshotFollows, KeysFollow, MarkerFollows
<1>6. CASE VmStops
  <2>1. vm' = Down /\ UNCHANGED <<phase, runtime, launch, past, share>>
    BY <1>6 DEF VmStops, GuestFrame
  <2> QED BY <2>1, StaysAlone
<1>7. CASE HostChanges
  <2>1. /\ UNCHANGED <<phase, runtime, share, guestVars>>
        /\ \A l \in Launches : launch'[l] = [launch[l] EXCEPT !.gated = FALSE]
        /\ past' = [past EXCEPT !.respecified = @ \/
              (world'.graphics # world.graphics /\ \E l \in scene.launches : launch[l].pc # "idle")]
        /\ past \in [killed : BOOLEAN, signalled : BOOLEAN, over : BOOLEAN, respecified : BOOLEAN]
        /\ launch \in [Launches -> Launching]
    BY <1>7, HostTyped DEF Types, HostTypes, LaunchTypes
  <2>2. past'.over = past.over /\ past'.signalled = past.signalled
    BY <2>1
  <2>3. \A l \in Launches : launch'[l].pc = launch[l].pc
    BY <2>1 DEF Launching
  <2> QED BY <2>1, <2>2, <2>3, StaysAlone DEF guestVars
<1>8. CASE \/ GateRuns \/ Returns \/ Lists \/ \E n \in Siblings \cup {0} : DirsChange(n)
           \/ \E kind \in Kinds, var \in {"set", "empty", "unset"} : Begins(kind, var)
  <2>1. UNCHANGED <<recipeVars, guestVars, world, past, faults, scene>>
    BY <1>8, OthersTyped
  <2> QED BY <2>1, StaysAlone DEF recipeVars, guestVars
<1> QED BY <1>1, <1>2, <1>3, <1>4, <1>5, <1>6, <1>7, <1>8 DEF Act

-----------------------------------------------------------------------------
(* The marker, the label of the store, and what a command saw.             *)
LEMMA StrandedStep ==
  ASSUME Types, StrandedOnlyByAKill, Act
  PROVE  StrandedOnlyByAKill'
<1> SUFFICES ASSUME phase' # None, ~past'.killed
             PROVE  \E l \in Launches : launch'[l].pc \in Marked
  BY DEF StrandedOnlyByAKill
<1>1. /\ launch \in [Launches -> Launching]
      /\ past \in [killed : BOOLEAN, signalled : BOOLEAN, over : BOOLEAN, respecified : BOOLEAN]
  BY DEF Types, HostTypes, LaunchTypes
<1>2. ASSUME phase' = phase, past'.killed = past.killed,
             \A l \in Launches : launch[l].pc \in Marked => launch'[l].pc = launch[l].pc
      PROVE  \E l \in Launches : launch'[l].pc \in Marked
  <2>1. PICK l \in Launches : launch[l].pc \in Marked
    BY <1>2 DEF StrandedOnlyByAKill
  <2> QED BY <1>2, <2>1
<1>3. ASSUME NEW l \in Launches, Step(l) \/ Leaves(l) \/ Fault(l)
      PROVE  \E m \in Launches : launch'[m].pc \in Marked
  <2>1. CASE launch'[l].pc \in Marked
    BY <2>1
  <2>2. CASE launch'[l].pc \notin Marked
    <3>1. phase' = phase /\ launch[l].pc \notin Marked /\ ~past.killed
      BY <1>3, <2>2, RecipeMarks, RecipeFrames
    <3>2. PICK m \in Launches : launch[m].pc \in Marked
      BY <3>1 DEF StrandedOnlyByAKill
    <3>3. launch'[m] = launch[m]
      <4>1. scene' = scene /\ m # l
        BY <1>3, <3>1, <3>2, FilesTyped
      <4> QED BY <1>3, <4>1, RecipeTyped
    <3> QED BY <3>2, <3>3
  <2> QED BY <2>1, <2>2
<1>4. ASSUME NEW l \in Launches, NEW mode \in Modes, Plans(l, mode)
      PROVE  \E m \in Launches : launch'[m].pc \in Marked
  <2>1. /\ launch[l].pc = "idle" /\ \A m \in Launches : m # l => launch'[m] = launch[m]
        /\ phase' = phase
    BY <1>4, PlansTyped DEF Plans
  <2>2. past'.killed = past.killed
    BY <1>1, <1>4, PlansTyped
  <2> QED BY <1>2, <2>1, <2>2 DEF Marked
<1>5. CASE Reboots
  <2>1. /\ phase' = phase /\ past' = [past EXCEPT !.killed = @ \/ ~Quiet]
        /\ \A m \in Launches : launch[m].pc \notin Active => launch'[m] = launch[m]
    BY <1>5, RebootsTyped
  <2>2. past.killed = FALSE /\ Quiet
    BY <1>1, <2>1
  <2> QED BY <1>2, <2>1, <2>2, <1>1 DEF Quiet
<1>6. CASE MonitorAnswers \/ GuestComesUp \/ VmStops
  <2>1. UNCHANGED <<phase, launch, past>>
    BY <1>6, VmTyped
  <2> QED BY <1>2, <2>1
<1>7. CASE HostChanges
  <2>1. /\ phase' = phase
        /\ \A l \in Launches : launch'[l] = [launch[l] EXCEPT !.gated = FALSE]
        /\ past' = [past EXCEPT !.respecified = @ \/
              (world'.graphics # world.graphics /\ \E l \in scene.launches : launch[l].pc # "idle")]
    BY <1>7, HostTyped
  <2>2. past'.killed = past.killed
    BY <1>1, <2>1
  <2>3. \A l \in Launches : launch'[l].pc = launch[l].pc
    <3> SUFFICES ASSUME NEW l \in Launches PROVE launch'[l].pc = launch[l].pc
      OBVIOUS
    <3>1. launch[l] \in Launching /\ launch'[l] = [launch[l] EXCEPT !.gated = FALSE]
      BY <1>1, <2>1
    <3> QED BY <3>1 DEF Launching
  <2> QED BY <1>2, <2>1, <2>2, <2>3
<1>8. CASE \/ GateRuns \/ Returns \/ Lists \/ \E n \in Siblings \cup {0} : DirsChange(n)
           \/ \E kind \in Kinds, var \in {"set", "empty", "unset"} : Begins(kind, var)
  <2>1. UNCHANGED <<phase, launch, past>>
    BY <1>8, OthersTyped DEF recipeVars
  <2> QED BY <1>2, <2>1
<1> QED BY <1>3, <1>4, <1>5, <1>6, <1>7, <1>8 DEF Act

LEMMA StoreStep ==
  ASSUME Types, StoreDbLabelIsTrue, Act
  PROVE  StoreDbLabelIsTrue'
<1>1. share \in [auth : Launches \cup {None}, snap : Snapshot, tmp : Snapshot,
                 verdict : {None, "seeded", "already-seeded", "skipped-no-snapshot", "rolled-back"},
                 record : Launches \cup {None}]
  BY DEF Types, FileTypes
<1>2. ASSUME volume' = volume, share'.verdict = share.verdict, vm'.stage = "armed" => vm.stage = "armed"
      PROVE  StoreDbLabelIsTrue'
  BY <1>2 DEF StoreDbLabelIsTrue, HostSeeded
<1>3. ASSUME NEW l \in Launches, Step(l) \/ Leaves(l) \/ Fault(l) PROVE StoreDbLabelIsTrue'
  <2>1. vm' = vm \/ vm' = Down \/ vm' = [Down EXCEPT !.stage = "started", !.by = l]
    BY <1>3, RecipeFrames
  <2>2. vm'.stage = "armed" => vm.stage = "armed"
    <3>1. Down.stage = "down" /\ [Down EXCEPT !.stage = "started", !.by = l].stage = "started"
      BY DEF Down
    <3> HIDE DEF Down
    <3> QED BY <2>1, <3>1
  <2> QED BY <1>2, <1>3, <2>2, RecipeFrames
<1>4. ASSUME NEW l \in Launches, NEW mode \in Modes, Plans(l, mode) PROVE StoreDbLabelIsTrue'
  <2>1. UNCHANGED guestVars
    BY <1>4 DEF Plans
  <2>2. share'.verdict = share.verdict
    BY <1>1, <1>4, PlansTyped
  <2> QED BY <1>2, <2>1, <2>2 DEF guestVars
<1>5. CASE Reboots \/ VmStops
  <2>1. vm' = Down /\ UNCHANGED <<share, volume>>
    BY <1>5, RebootsTyped DEF VmStops
  <2> QED BY <1>2, <2>1 DEF Down
<1>6. CASE MonitorAnswers
  <2>1. UNCHANGED <<share, volume>> /\ vm' = [vm EXCEPT !.stage = "up"]
    BY <1>6 DEF MonitorAnswers
  <2>2. vm'.stage = "up"
    BY <2>1 DEF Types, GuestTypes, Vm
  <2> QED BY <1>2, <2>1, <2>2
<1>7. CASE GuestComesUp
  <2>1. share'.verdict = Seed /\ volume' = (Seed \in {"seeded", "already-seeded"})
    BY <1>1, <1>7 DEF GuestComesUp
  <2> HIDE DEF Seed
  <2> QED BY <2>1 DEF StoreDbLabelIsTrue, HostSeeded
<1>8. CASE HostChanges
  BY <1>2, <1>8, HostTyped DEF guestVars
<1>9. CASE \/ GateRuns \/ Returns \/ Lists \/ \E n \in Siblings \cup {0} : DirsChange(n)
           \/ \E kind \in Kinds, var \in {"set", "empty", "unset"} : Begins(kind, var)
  BY <1>2, <1>9, OthersTyped DEF recipeVars, guestVars
<1> QED BY <1>3, <1>4, <1>5, <1>6, <1>7, <1>8, <1>9 DEF Act

\* A command that goes on is the one that began.
LEMMA LookGoesOn ==
  ASSUME Types, Act, look'.pc = "begun"
  PROVE  /\ scene' = scene
         /\ \/ look.pc = "begun" /\ look' = look
            \/ /\ look.pc = "idle" /\ UNCHANGED <<launch, past, vm>>
               /\ look'.kind = "status" =>
                    look'.alive = (Reachable /\ RuntimeRoot(look'.var) = RuntimeRoot(scene.runtimeVar))
<1>1. look \in Look
  BY DEF Types, HostTypes
<1>2. CASE Returns
  BY <1>2 DEF Returns, NoLook
<1>3. ASSUME NEW kind \in Kinds, NEW var \in {"set", "empty", "unset"}, Begins(kind, var)
      PROVE  /\ scene' = scene /\ look.pc = "idle" /\ UNCHANGED <<launch, past, vm>>
             /\ look'.kind = "status" =>
                  look'.alive = (Reachable /\ RuntimeRoot(look'.var) = RuntimeRoot(scene.runtimeVar))
  <2>1. /\ look.pc = "idle" /\ LookFrame
        /\ look' = [pc |-> "begun", kind |-> kind, var |-> var,
                    alive |-> /\ kind = "status" /\ Reachable
                              /\ RuntimeRoot(var) = RuntimeRoot(scene.runtimeVar),
                    port |-> IF kind = "status" THEN None ELSE share.record]
    BY <1>3 DEF Begins
  <2>2. /\ look'.kind = kind /\ look'.var = var
        /\ look'.alive = (/\ kind = "status" /\ Reachable
                          /\ RuntimeRoot(var) = RuntimeRoot(scene.runtimeVar))
    BY <2>1
  <2>3. UNCHANGED <<launch, past, vm, scene>>
    BY <2>1 DEF LookFrame, recipeVars, guestVars
  <2> HIDE DEF Reachable, RuntimeRoot
  <2> QED BY <2>1, <2>2, <2>3
<1>4. ASSUME NEW l \in Launches, Step(l) \/ Leaves(l) \/ Fault(l) PROVE scene' = scene /\ look' = look
  BY <1>4, FilesTyped
<1>5. ASSUME \/ \E l \in Launches, mode \in Modes : Plans(l, mode)
             \/ Reboots \/ MonitorAnswers \/ GuestComesUp \/ VmStops \/ HostChanges \/ GateRuns
             \/ Lists \/ \E n \in Siblings \cup {0} : DirsChange(n)
      PROVE  scene' = scene /\ look' = look
  BY <1>5 DEF Plans, Reboots, MonitorAnswers, GuestComesUp, VmStops, GuestFrame, HostChanges,
              ChangesTo, GateRuns, Lists, DirsChange, NumberFrame
<1> HIDE DEF Reachable, RuntimeRoot
<1>6. CASE look' = look /\ scene' = scene
  BY <1>6
<1>7. \/ look' = look /\ scene' = scene
      \/ Returns
      \/ \E kind \in Kinds, var \in {"set", "empty", "unset"} : Begins(kind, var)
  <2>1. ASSUME NEW l \in Launches, Step(l) \/ Leaves(l) \/ Fault(l) PROVE look' = look /\ scene' = scene
    BY <1>4, <2>1
  <2>2. ASSUME NEW l \in Launches, NEW mode \in Modes, Plans(l, mode)
        PROVE  look' = look /\ scene' = scene
    BY <1>5, <2>2
  <2> QED BY <1>5, <2>1, <2>2 DEF Act
<1> QED BY <1>2, <1>3, <1>6, <1>7

LEMMA WatchedStep ==
  ASSUME Types, Watched, Act, Witnesses
  PROVE  Watched'
<1> SUFFICES ASSUME look'.pc = "begun"
             PROVE  /\ seen'.marked => Provisioning'
                    /\ look'.kind = "status" /\ seen'.up =>
                         (look'.alive <=> RuntimeRoot(look'.var) = RuntimeRoot(scene'.runtimeVar))
  BY DEF Watched, RuntimeRoot
<1>1. CASE look.pc = "begun" /\ look' = look
  <2>1. seen' = [up |-> seen.up /\ Reachable', marked |-> seen.marked /\ Provisioning']
    BY <1>1 DEF Witnesses
  <2>2. seen'.marked => Provisioning'
    <3> HIDE DEF Provisioning
    <3> QED BY <2>1
  <2>3. seen'.up => seen.up
    <3> HIDE DEF Provisioning, Reachable
    <3> QED BY <2>1
  <2>4. scene' = scene
    BY LookGoesOn
  <2> QED BY <1>1, <2>2, <2>3, <2>4 DEF Watched
<1>2. CASE /\ look.pc = "idle" /\ UNCHANGED <<launch, past, vm>>
           /\ look'.kind = "status" =>
                look'.alive = (Reachable /\ RuntimeRoot(look'.var) = RuntimeRoot(scene.runtimeVar))
  <2>1. seen' = [up |-> Reachable, marked |-> Provisioning]
    BY <1>2 DEF Witnesses
  <2>2. Provisioning' = Provisioning
    BY <1>2 DEF Provisioning
  <2>3. seen'.marked = Provisioning /\ seen'.up = Reachable
    <3> HIDE DEF Provisioning, Reachable
    <3> QED BY <2>1
  <2>4. scene' = scene
    BY LookGoesOn
  <2> HIDE DEF Reachable, RuntimeRoot, Provisioning
  <2> QED BY <1>2, <2>2, <2>3, <2>4
<1> QED BY <1>1, <1>2, LookGoesOn

-----------------------------------------------------------------------------
(* The gate, and graphics.                                                 *)

\* The preflight asks only the host and the ladder of the spec.
LEMMA SameHostSamePreflight ==
  ASSUME world' = world, scene' = scene
  PROVE  Preflight(world)' = Preflight(world) /\ ResolveGpu(world)' = ResolveGpu(world)
BY DEF Preflight, ResolveGpu, Satisfied

LEMMA RecipeGate ==
  ASSUME Types, GateHolds, NEW l \in Launches, Step(l) \/ Leaves(l) \/ Fault(l)
  PROVE  GateHolds'
<1>1. /\ scene' = scene /\ world' = world /\ gate' = gate
      /\ \A m \in Launches : m # l => launch'[m] = launch[m]
  <2>1. scene' = scene /\ world' = world /\ gate' = gate
    BY FilesTyped
  <2> QED BY <2>1, RecipeTyped
<1>2. PICK pc \in Steps \ {"idle"}, why \in Whys :
        /\ Advanced(l, pc, why)
        /\ why \in {"secret", "gpu", "vsock"} => why = launch[l].why \/ StagesSecrets(l) \/ Boots(l)
  BY RecipeAdvances DEF Types, LaunchTypes
<1>3. launch[l].pc \in Active /\ launch \in [Launches -> Launching]
  BY RecipeAdvances DEF Types, LaunchTypes
<1>4. Preflight(world)' = Preflight(world) /\ ResolveGpu(world)' = ResolveGpu(world)
  BY <1>1, SameHostSamePreflight
<1>5. /\ launch'[l].why = why /\ launch'[l].gpu = launch[l].gpu /\ launch'[l].gated = launch[l].gated
  BY <1>2 DEF Advanced
<1> HIDE DEF Preflight, ResolveGpu
<1>6. launch[l].gated => Preflight(world) /\ launch[l].gpu = ResolveGpu(world)
  BY <1>3 DEF GateHolds
<1>7. ASSUME launch[l].gated, why \in {"secret", "gpu", "vsock"} PROVE world.file = "locked"
  <2>1. CASE why = launch[l].why
    BY <1>7, <2>1 DEF GateHolds
  <2>2. CASE StagesSecrets(l)
    <3>1. why \in {"secret", "gpu", "vsock"} /\ launch'[l].why = why
      BY <1>5, <1>7
    <3>2. CASE launch'[l].why = launch[l].why
      BY <1>5, <2>1, <3>2
    <3>3. CASE Ends(l, "other")
      <4>1. launch'[l].why = "other"
        BY <1>3, <3>3 DEF Ends, Launching
      <4> QED BY <3>1, <4>1
    <3>4. CASE world.var # "set" \/ world.file # "readable"
      <4>1. world.var = "set" /\ world.file # "absent"
        BY <1>6, <1>7 DEF Preflight
      <4>2. world.file \in {"readable", "locked", "absent"}
        BY DEF Types, HostTypes, World
      <4> QED BY <3>4, <4>1, <4>2
    <3>5. CASE Goes(l, "keygen")
      <4>1. launch'[l].why = launch[l].why
        BY <1>3, <3>5 DEF Goes, Launching
      <4> QED BY <3>2, <4>1
    <3> QED BY <2>2, <3>3, <3>4, <3>5 DEF StagesSecrets, Fails
  <2>3. CASE Boots(l)
    <3>1. launch'[l].why = BootFails(l)
      <4>1. launch' = [launch EXCEPT ![l].pc = "launched", ![l].why = BootFails(l)]
        BY <2>3 DEF Boots
      <4> HIDE DEF BootFails
      <4> QED BY <1>3, <4>1 DEF Launching
    <3>2. world.vhost
      BY <1>6, <1>7 DEF Preflight
    <3>3. launch[l].gpu \in {"integrated", "discrete"} => Satisfied(launch[l].gpu, world)
      <4>1. scene \in Scenes
        BY DEF Types, HostTypes
      <4> QED BY <1>6, <1>7, <4>1, LadderIsTyped DEF Roles
    <3>4. BootFails(l) = None
      BY <3>2, <3>3 DEF BootFails
    <3> QED BY <1>5, <1>7, <3>1, <3>4 DEF None
  <2> QED BY <1>2, <1>7, <2>1, <2>2, <2>3
<1>8. gate' => Preflight(world)'
  BY <1>1, <1>4 DEF GateHolds
<1>9. ASSUME NEW m \in Launches, launch'[m].gated
      PROVE  /\ Preflight(world)'
             /\ launch'[m].pc \in Active => launch'[m].gpu = ResolveGpu(world)'
             /\ launch'[m].why \in {"secret", "gpu", "vsock"} => world'.file = "locked"
  <2>1. CASE m = l
    BY <1>1, <1>4, <1>5, <1>6, <1>7, <1>9, <2>1
  <2>2. CASE m # l
    BY <1>1, <1>4, <1>9, <2>2 DEF GateHolds
  <2> QED BY <2>1, <2>2
<1> QED BY <1>8, <1>9 DEF GateHolds

LEMMA GateStep ==
  ASSUME Types, GateHolds, Act
  PROVE  GateHolds'
<1>1. ASSUME NEW l \in Launches, Step(l) \/ Leaves(l) \/ Fault(l) PROVE GateHolds'
  BY <1>1, RecipeGate
<1>2. ASSUME world' = world, scene' = scene, gate' = gate \/ gate' = Preflight(world),
             \A l \in Launches : launch'[l] = launch[l]
      PROVE  GateHolds'
  <2>1. Preflight(world)' = Preflight(world) /\ ResolveGpu(world)' = ResolveGpu(world)
    BY <1>2, SameHostSamePreflight
  <2> HIDE DEF Preflight, ResolveGpu
  <2> QED BY <1>2, <2>1 DEF GateHolds
<1>3. ASSUME NEW l \in Launches, NEW mode \in Modes, Plans(l, mode) PROVE GateHolds'
  <2>1. /\ scene' = scene /\ world' = world /\ gate' = gate
        /\ \A m \in Launches : m # l => launch'[m] = launch[m]
    BY <1>3, PlansTyped
  <2>2. Preflight(world)' = Preflight(world) /\ ResolveGpu(world)' = ResolveGpu(world)
    BY <2>1, SameHostSamePreflight
  <2>3. gate => ResolveGpu(world) # "unavailable"
    BY DEF GateHolds, Preflight
  <2> HIDE DEF Preflight, ResolveGpu
  <2>4. launch'[l].gated => /\ gate
                            /\ launch'[l].gpu = ResolveGpu(world)
                            /\ launch'[l].why = None
    <3>1. CASE launch'[l] = [Done EXCEPT !.gated = gate, !.why = "gpu"]
               /\ ResolveGpu(world) = "unavailable"
      <4>1. launch'[l].gated = gate
        BY <3>1 DEF Done, Idle
      <4> QED BY <2>3, <3>1, <4>1
    <3>2. CASE launch'[l] = [Idle EXCEPT !.pc = "dirs", !.mode = mode,
                                         !.gpu = ResolveGpu(world), !.gated = gate]
      BY <3>2 DEF Idle
    <3> QED BY <1>3, <3>1, <3>2, PlansTyped
  <2>5. ASSUME NEW m \in Launches, launch'[m].gated
        PROVE  /\ Preflight(world)'
               /\ launch'[m].pc \in Active => launch'[m].gpu = ResolveGpu(world)'
               /\ launch'[m].why \in {"secret", "gpu", "vsock"} => world'.file = "locked"
    <3>1. CASE m = l
      <4>1. gate /\ launch'[l].gpu = ResolveGpu(world) /\ launch'[l].why = None
        BY <2>4, <2>5, <3>1
      <4> QED BY <2>2, <3>1, <4>1 DEF GateHolds, None
    <3>2. CASE m # l
      BY <2>1, <2>2, <2>5, <3>2 DEF GateHolds
    <3> QED BY <3>1, <3>2
  <2> QED BY <2>1, <2>2, <2>5 DEF GateHolds
<1>4. CASE Reboots
  <2>1. /\ scene' = scene /\ world' = world /\ gate' = gate
        /\ \A l \in Launches : /\ launch[l].pc \notin Active => launch'[l] = launch[l]
                               /\ launch[l].pc \in Active =>
                                    launch'[l] = [launch[l] EXCEPT !.pc = "done", !.why = "other"]
    BY <1>4, RebootsTyped
  <2>2. Preflight(world)' = Preflight(world) /\ ResolveGpu(world)' = ResolveGpu(world)
    BY <2>1, SameHostSamePreflight
  <2> HIDE DEF Preflight, ResolveGpu
  <2>3. ASSUME NEW m \in Launches, launch'[m].gated
        PROVE  /\ Preflight(world)'
               /\ launch'[m].pc \in Active => launch'[m].gpu = ResolveGpu(world)'
               /\ launch'[m].why \in {"secret", "gpu", "vsock"} => world'.file = "locked"
    <3>1. CASE launch[m].pc \in Active
      <4>1. launch'[m] = [launch[m] EXCEPT !.pc = "done", !.why = "other"] /\ launch[m] \in Launching
        BY <2>1, <3>1 DEF Types, LaunchTypes
      <4>2. launch'[m].pc = "done" /\ launch'[m].why = "other" /\ launch[m].gated
        BY <2>3, <4>1 DEF Launching
      <4> QED BY <2>2, <4>2 DEF GateHolds, Active
    <3>2. CASE launch[m].pc \notin Active
      BY <2>1, <2>2, <2>3, <3>2 DEF GateHolds
    <3> QED BY <3>1, <3>2
  <2> QED BY <2>1, <2>2, <2>3 DEF GateHolds
<1>5. CASE MonitorAnswers \/ GuestComesUp \/ VmStops
  BY <1>2, <1>5, VmTyped DEF hostVars
<1>6. CASE HostChanges
  <2>1. /\ gate' = FALSE /\ \A l \in Launches : launch'[l] = [launch[l] EXCEPT !.gated = FALSE]
        /\ launch \in [Launches -> Launching]
    BY <1>6, HostTyped DEF Types, LaunchTypes
  <2>2. \A l \in Launches : ~launch'[l].gated
    BY <2>1 DEF Launching
  <2> QED BY <2>1, <2>2 DEF GateHolds
<1>7. CASE \/ GateRuns \/ Returns \/ Lists \/ \E n \in Siblings \cup {0} : DirsChange(n)
           \/ \E kind \in Kinds, var \in {"set", "empty", "unset"} : Begins(kind, var)
  <2>1. UNCHANGED <<launch, world, scene>> /\ (gate' = gate \/ GateRuns)
    BY <1>7, OthersTyped DEF recipeVars
  <2> QED BY <1>2, <2>1 DEF GateRuns
<1> QED BY <1>1, <1>3, <1>4, <1>5, <1>6, <1>7 DEF Act

LEMMA GraphicsStep ==
  ASSUME Types, GraphicsFollow, Act
  PROVE  GraphicsFollow'
<1> SUFFICES ASSUME ~past'.respecified, NEW m \in Launches,
                    launch'[m].pc \in Active \/ (vm'.stage # "down" /\ vm'.by = m),
                    launch'[m].gpu = None
             PROVE  ~world'.graphics
  BY DEF GraphicsFollow
<1>1. /\ launch \in [Launches -> Launching]
      /\ past \in [killed : BOOLEAN, signalled : BOOLEAN, over : BOOLEAN, respecified : BOOLEAN]
      /\ scene \in Scenes /\ GuestTypes
  BY DEF Types, LaunchTypes, HostTypes
<1>2. ASSUME past'.respecified = past.respecified, world' = world,
             launch'[m].gpu = launch[m].gpu,
             launch'[m].pc \in Active => launch[m].pc \in Active,
             vm'.stage # "down" /\ vm'.by = m =>
               launch[m].pc \in Active \/ (vm.stage # "down" /\ vm.by = m)
      PROVE  ~world'.graphics
  BY <1>2 DEF GraphicsFollow
<1>3. ASSUME NEW l \in Launches, Step(l) \/ Leaves(l) \/ Fault(l) PROVE ~world'.graphics
  <2>1. /\ scene' = scene /\ world' = world /\ past'.respecified = past.respecified
        /\ launch[l].pc \in Active
    BY <1>1, <1>3, FilesTyped, RecipeFrames, RecipeAdvances
  <2>2. launch'[m].gpu = launch[m].gpu /\ (launch'[m].pc \in Active => launch[m].pc \in Active)
    <3>1. CASE m = l
      BY <1>1, <1>3, <2>1, <3>1, RecipeAdvances DEF Advanced
    <3>2. CASE m # l
      BY <1>3, <2>1, <3>2, RecipeTyped
    <3> QED BY <3>1, <3>2
  <2>3. ASSUME vm'.stage # "down" /\ vm'.by = m
        PROVE  launch[m].pc \in Active \/ (vm.stage # "down" /\ vm.by = m)
    <3>1. vm' = vm \/ vm' = Down \/ vm' = [Down EXCEPT !.stage = "started", !.by = l]
      BY <1>3, RecipeFrames
    <3>2. Down.stage = "down" /\ [Down EXCEPT !.stage = "started", !.by = l].by = l
      BY DEF Down
    <3> HIDE DEF Down
    <3> QED BY <2>1, <2>3, <3>1, <3>2
  <2> QED BY <1>2, <2>1, <2>2, <2>3
<1>4. ASSUME NEW l \in Launches, NEW mode \in Modes, Plans(l, mode) PROVE ~world'.graphics
  <2>1. /\ world' = world /\ vm' = vm /\ launch[l].pc = "idle"
        /\ \A k \in Launches : k # l => launch'[k] = launch[k]
    BY <1>4, PlansTyped DEF Plans, guestVars
  <2>2. past'.respecified = past.respecified
    BY <1>1, <1>4, PlansTyped
  <2>3. CASE m # l
    BY <1>2, <2>1, <2>2, <2>3
  <2>4. CASE m = l
    <3>1. launch'[l].pc \in Active
      BY <1>1, <2>1, <2>4 DEF GuestTypes
    <3>2. CASE launch'[l] = [Done EXCEPT !.gated = gate, !.why = "gpu"]
      BY <3>1, <3>2 DEF Done, Idle, Active
    <3>3. CASE launch'[l] = [Idle EXCEPT !.pc = "dirs", !.mode = mode,
                                         !.gpu = ResolveGpu(world), !.gated = gate]
      <4>1. launch'[l].gpu = ResolveGpu(world)
        BY <3>3 DEF Idle
      <4>2. ResolveGpu(world) = None
        BY <2>4, <4>1
      <4> QED BY <1>1, <2>1, <4>2, LadderIsTyped
    <3> QED BY <1>4, <3>2, <3>3, PlansTyped
  <2> QED BY <2>3, <2>4
<1>5. CASE Reboots
  <2>1. /\ world' = world /\ vm' = Down
        /\ past' = [past EXCEPT !.killed = @ \/ ~Quiet]
        /\ launch[m].pc \notin Active => launch'[m] = launch[m]
        /\ launch[m].pc \in Active => launch'[m] = [launch[m] EXCEPT !.pc = "done", !.why = "other"]
    BY <1>5, RebootsTyped
  <2>2. past'.respecified = past.respecified /\ vm'.stage = "down"
    BY <1>1, <2>1 DEF Down
  <2>3. launch[m] \in Launching
    BY <1>1
  <2>4. launch[m].pc \notin Active
    BY <2>1, <2>2, <2>3 DEF Active, Launching
  <2> QED BY <1>2, <2>1, <2>2, <2>4
<1>6. CASE MonitorAnswers \/ GuestComesUp \/ VmStops
  <2>1. UNCHANGED <<launch, past, world>>
    BY <1>6, VmTyped DEF hostVars
  <2>2. vm'.stage # "down" => vm.stage # "down" /\ vm'.by = vm.by
    <3>1. CASE MonitorAnswers
      BY <1>1, <3>1 DEF MonitorAnswers, GuestTypes, Vm
    <3>2. CASE GuestComesUp
      <4>1. vm.stage = "up" /\ vm'.by = vm.by
        BY <1>1, <3>2 DEF GuestComesUp, GuestTypes, Vm
      <4> QED BY <4>1
    <3>3. CASE VmStops
      BY <3>3 DEF VmStops, Down
    <3> QED BY <1>6, <3>1, <3>2, <3>3
  <2> QED BY <1>2, <2>1, <2>2
<1>7. CASE HostChanges
  <2>1. /\ launch'[m] = [launch[m] EXCEPT !.gated = FALSE] /\ vm' = vm
        /\ past' = [past EXCEPT !.respecified = @ \/
             (world'.graphics # world.graphics /\ \E l \in scene.launches : launch[l].pc # "idle")]
    BY <1>7, HostTyped DEF guestVars
  <2>2. launch'[m].pc = launch[m].pc /\ launch'[m].gpu = launch[m].gpu
    BY <1>1, <2>1 DEF Launching
  <2>3. /\ ~past.respecified
        /\ ~(world'.graphics # world.graphics /\ \E l \in scene.launches : launch[l].pc # "idle")
    BY <1>1, <2>1
  <2>4. m \in scene.launches /\ launch[m].pc # "idle"
    BY <1>1, <2>1, <2>2 DEF GuestTypes, Types, LaunchTypes, Active
  <2>5. world'.graphics = world.graphics
    BY <2>3, <2>4
  <2> QED BY <2>1, <2>2, <2>3, <2>5 DEF GraphicsFollow
<1>8. CASE \/ GateRuns \/ Returns \/ Lists \/ \E n \in Siblings \cup {0} : DirsChange(n)
           \/ \E kind \in Kinds, var \in {"set", "empty", "unset"} : Begins(kind, var)
  BY <1>2, <1>8, OthersTyped DEF recipeVars, guestVars
<1> QED BY <1>3, <1>4, <1>5, <1>6, <1>7, <1>8 DEF Act

-----------------------------------------------------------------------------
(* Numbers.                                                                *)

\* The numbers up to a number, of a finite set of them.
Upto(S, x) == {n \in S : n <= x}

LEMMA UptoIsFinite ==
  ASSUME NEW S \in SUBSET Nat, IsFiniteSet(S), NEW x
  PROVE  /\ IsFiniteSet(Upto(S, x)) /\ Cardinality(Upto(S, x)) \in Nat
         /\ Cardinality(Upto(S, x)) <= Cardinality(S)
<1>1. Upto(S, x) \in SUBSET S
  BY DEF Upto
<1> QED BY <1>1, FS_Subset, FS_CardinalityType

\* The number of the elements up to an element tells it from the others.
LEMMA RankIsStrict ==
  ASSUME NEW S \in SUBSET Nat, IsFiniteSet(S), NEW x \in S, NEW y \in S, x < y
  PROVE  Cardinality(Upto(S, x)) < Cardinality(Upto(S, y))
<1>1. x \in Nat /\ y \in Nat
  OBVIOUS
<1>2. Upto(S, x) \in SUBSET Upto(S, y)
  <2> SUFFICES ASSUME NEW n \in S, n <= x PROVE n <= y
    BY DEF Upto
  <2>1. n \in Nat
    OBVIOUS
  <2> QED BY <1>1, <2>1
<1>3. y \in Upto(S, y) /\ y \notin Upto(S, x)
  BY <1>1 DEF Upto
<1>4. /\ Cardinality(Upto(S, x)) <= Cardinality(Upto(S, y))
      /\ Cardinality(Upto(S, y)) = Cardinality(Upto(S, x)) => Upto(S, y) = Upto(S, x)
  BY <1>2, UptoIsFinite, FS_Subset
<1>5. Cardinality(Upto(S, x)) \in Nat /\ Cardinality(Upto(S, y)) \in Nat
  BY UptoIsFinite
<1>6. Cardinality(Upto(S, y)) # Cardinality(Upto(S, x))
  BY <1>3, <1>4
<1> QED BY <1>4, <1>5, <1>6

LEMMA RankIsInRange ==
  ASSUME NEW S \in SUBSET Nat, IsFiniteSet(S), NEW x \in S
  PROVE  Cardinality(Upto(S, x)) \in 1..Cardinality(S)
<1>1. x \in Upto(S, x)
  BY DEF Upto
<1>2. Cardinality(Upto(S, x)) # 0
  BY <1>1, UptoIsFinite, FS_EmptySet
<1>3. Cardinality(Upto(S, x)) \in Nat /\ Cardinality(S) \in Nat
  BY UptoIsFinite, FS_CardinalityType
<1> QED BY <1>2, <1>3, UptoIsFinite

\* A finite set of numbers can be listed in ascending order.
LEMMA ListingExists ==
  ASSUME NEW S \in SUBSET Nat, IsFiniteSet(S)
  PROVE  \E s : Enumerates(s, S)
<1> DEFINE N == Cardinality(S)
           rank == [x \in S |-> Cardinality(Upto(S, x))]
<1>1. N \in Nat /\ IsFiniteSet(1..N) /\ Cardinality(1..N) = N
  <2>1. N \in Nat
    BY FS_CardinalityType
  <2>2. Cardinality(1..N) = IF 1 > N THEN 0 ELSE N - 1 + 1
    BY <2>1, FS_Interval
  <2>3. IsFiniteSet(1..N)
    BY <2>1, FS_Interval
  <2> QED BY <2>1, <2>2, <2>3
<1>2. \A x \in S : rank[x] = Cardinality(Upto(S, x))
  OBVIOUS
<1>3. rank \in [S -> 1..N]
  BY RankIsInRange
<1> HIDE DEF rank
<1>4. \A x, y \in S : x < y => rank[x] < rank[y]
  BY <1>2, RankIsStrict
<1>5. \A x, y \in S : rank[x] = rank[y] => x = y
  <2> SUFFICES ASSUME NEW x \in S, NEW y \in S, x # y PROVE rank[x] # rank[y]
    OBVIOUS
  <2>1. rank[x] \in Nat /\ rank[y] \in Nat /\ x \in Nat /\ y \in Nat
    BY <1>3
  <2>2. x < y \/ y < x
    BY <2>1
  <2> QED BY <1>4, <2>1, <2>2
<1>6. rank \in Injection(S, 1..N)
  BY <1>3, <1>5 DEF Injection, IsInjective
<1>7. rank \in Surjection(S, 1..N)
  <2> HIDE DEF N
  <2>1. Cardinality(S) = Cardinality(1..N)
    BY <1>1 DEF N
  <2> QED BY <1>1, <1>6, <2>1, FS_Injection
<1>8. \A i \in 1..N : \E x \in S : rank[x] = i
  BY <1>7 DEF Surjection
<1> DEFINE s == [i \in 1..N |-> CHOOSE x \in S : rank[x] = i]
<1>9. \A i \in 1..N : s[i] \in S /\ rank[s[i]] = i
  BY <1>8
<1>10. s \in [1..N -> S] /\ DOMAIN s = 1..N
  BY <1>9
<1> HIDE DEF s
<1>11. ASSUME NEW i \in 1..N, NEW j \in 1..N, i < j PROVE s[i] < s[j]
  <2>1. s[i] \in S /\ s[j] \in S /\ rank[s[i]] = i /\ rank[s[j]] = j
    BY <1>9
  <2>2. s[i] \in Nat /\ s[j] \in Nat /\ i \in Nat /\ j \in Nat
    <3>1. \A k \in 1..N : k \in Nat
      BY <1>1
    <3>2. \A x \in S : x \in Nat
      OBVIOUS
    <3> QED BY <2>1, <3>1, <3>2
  <2>3. ~(s[j] < s[i])
    <3>1. CASE s[j] < s[i]
      <4>1. rank[s[j]] < rank[s[i]]
        BY <1>4, <2>1, <3>1
      <4> QED BY <1>11, <2>1, <2>2, <4>1
    <3> QED BY <3>1
  <2>4. s[j] # s[i]
    BY <1>11, <2>1, <2>2
  <2> QED BY <2>2, <2>3, <2>4
<1>12. Enumerates(s, S)
  BY <1>10, <1>11 DEF Enumerates
<1> QED BY <1>12

\* The number of an element in such a list is that of the elements up to it.
LEMMA NumberIsRank ==
  ASSUME NEW S \in SUBSET Nat, IsFiniteSet(S), NEW s, Enumerates(s, S)
  PROVE  /\ DOMAIN s = 1..Cardinality(S)
         /\ \A i \in DOMAIN s : s[i] \in S /\ i = Cardinality(Upto(S, s[i]))
         /\ \A x \in S : \E i \in DOMAIN s : s[i] = x
<1> DEFINE N == Cardinality(S)
<1>1. N \in Nat /\ s \in [1..N -> S] /\ DOMAIN s = 1..N
      /\ \A i, j \in 1..N : i < j => s[i] < s[j]
  BY FS_CardinalityType DEF Enumerates
<1>2. IsFiniteSet(1..N) /\ \A i \in 0..N : Cardinality(1..i) = i /\ IsFiniteSet(1..i)
  <2> SUFFICES ASSUME NEW i \in 0..N PROVE Cardinality(1..i) = i /\ IsFiniteSet(1..i)
    BY <1>1, FS_Interval
  <2> HIDE DEF N
  <2>1. i \in Int /\ i \in Nat /\ 1 \in Int
    BY <1>1
  <2>2. IsFiniteSet(1..i) /\ Cardinality(1..i) = IF 1 > i THEN 0 ELSE i - 1 + 1
    BY <2>1, FS_Interval
  <2> QED BY <2>1, <2>2
<1> HIDE DEF N
<1>3. ASSUME NEW i \in 1..N, NEW j \in 1..N
      PROVE  s[i] \in Nat /\ s[j] \in Nat /\ (s[j] <= s[i] <=> j <= i) /\ (s[i] = s[j] => i = j)
  <2>1. s[i] \in Nat /\ s[j] \in Nat /\ i \in Nat /\ j \in Nat
    <3>1. \A k \in 1..N : k \in Nat
      BY <1>1
    <3>2. \A x \in S : x \in Nat
      OBVIOUS
    <3>3. s[i] \in S /\ s[j] \in S
      BY <1>1
    <3> QED BY <3>1, <3>2, <3>3
  <2>2. (i < j => s[i] < s[j]) /\ (j < i => s[j] < s[i])
    BY <1>1
  <2> QED BY <2>1, <2>2
<1>4. s \in Injection(1..N, S)
  BY <1>1, <1>3 DEF Injection, IsInjective
<1>5. s \in Surjection(1..N, S)
  <2>1. Cardinality(1..N) = Cardinality(S)
    <3>1. N \in 0..N
      BY <1>1
    <3> QED BY <1>2, <3>1 DEF N
  <2> QED BY <1>2, <1>4, <2>1, FS_Injection
<1>6. \A x \in S : \E i \in 1..N : s[i] = x
  BY <1>5 DEF Surjection
<1>7. ASSUME NEW i \in 1..N PROVE s[i] \in S /\ i = Cardinality(Upto(S, s[i]))
  <2>1. s[i] \in S /\ i \in 0..N /\ i \in Nat
    BY <1>1
  <2> DEFINE f == [j \in 1..i |-> s[j]]
  <2>2. \A j \in 1..i : j \in 1..N /\ f[j] = s[j]
    BY <1>1, <2>1
  <2>3. ASSUME NEW j \in 1..i PROVE f[j] \in Upto(S, s[i])
    <3>1. j \in 1..N /\ j <= i
      BY <2>2, <2>1
    <3>2. s[j] <= s[i] /\ s[j] \in S
      BY <1>1, <1>3, <3>1
    <3> QED BY <2>2, <3>2 DEF Upto
  <2>4. f \in [1..i -> Upto(S, s[i])]
    BY <2>3
  <2> HIDE DEF f
  <2>5. f \in Injection(1..i, Upto(S, s[i]))
    BY <1>3, <2>2, <2>4 DEF Injection, IsInjective
  <2>6. ASSUME NEW x \in Upto(S, s[i]) PROVE \E j \in 1..i : f[j] = x
    <3>1. x \in S /\ x <= s[i]
      BY DEF Upto
    <3>2. PICK j \in 1..N : s[j] = x
      BY <1>6, <3>1
    <3>3. j <= i
      BY <1>3, <3>1, <3>2
    <3>4. j \in 1..i
      BY <1>1, <2>1, <3>3
    <3> QED BY <2>2, <3>2, <3>4
  <2>7. f \in Surjection(1..i, Upto(S, s[i]))
    BY <2>4, <2>6 DEF Surjection
  <2>8. IsFiniteSet(1..i) /\ Cardinality(1..i) = i
    BY <1>2, <2>1
  <2>9. Cardinality(Upto(S, s[i])) = Cardinality(1..i)
    BY <2>5, <2>7, <2>8, FS_Surjection
  <2> QED BY <2>1, <2>8, <2>9
<1> QED BY <1>1, <1>6, <1>7 DEF N

\* Two lists of sets that agree up to a number show it at the same place.
LEMMA SameUptoSameNumber ==
  ASSUME NEW S \in SUBSET Nat, IsFiniteSet(S), NEW s, Enumerates(s, S),
         NEW T \in SUBSET Nat, IsFiniteSet(T), NEW t, Enumerates(t, T),
         NEW i \in DOMAIN s, Upto(S, s[i]) = Upto(T, s[i])
  PROVE  i \in DOMAIN t /\ t[i] = s[i]
<1>1. s[i] \in S /\ i = Cardinality(Upto(S, s[i]))
  BY NumberIsRank
<1>2. s[i] \in T
  <2>1. s[i] \in Upto(S, s[i])
    <3>1. s[i] \in Nat
      BY <1>1
    <3>2. \A n \in Nat : n <= n
      OBVIOUS
    <3>3. s[i] <= s[i]
      BY <3>1, <3>2
    <3> QED BY <1>1, <3>3 DEF Upto
  <2>2. s[i] \in Upto(T, s[i])
    BY <2>1
  <2> QED BY <2>2 DEF Upto
<1>3. PICK j \in DOMAIN t : t[j] = s[i]
  <2>1. \A x \in T : \E j \in DOMAIN t : t[j] = x
    BY NumberIsRank
  <2> QED BY <1>2, <2>1
<1>4. j = Cardinality(Upto(T, t[j]))
  BY NumberIsRank
<1>5. j = i
  BY <1>1, <1>3, <1>4
<1> QED BY <1>3, <1>5

LEMMA ListingStep ==
  ASSUME Types, ListingFollows, Act
  PROVE  ListingFollows'
<1>1. /\ dirs \subseteq Siblings \cup {0} /\ IsFiniteSet(dirs) /\ pick.changed \subseteq Siblings
      /\ Siblings \subseteq Nat \ {0}
  BY ProvisionAssumption DEF ListingFollows
<1>2. CASE Lists
  <2>1. pick' = [listed |-> ListInstances, changed |-> {}] /\ dirs' = dirs
    BY <1>2 DEF Lists
  <2>2. dirs \ {0} \in SUBSET Nat /\ dirs \ {0} \in SUBSET Siblings /\ IsFiniteSet(dirs \ {0})
    BY <1>1, FS_RemoveElement
  <2>3. Enumerates(ListInstances, dirs \ {0})
    BY <2>2, ListingExists DEF ListInstances, Enumerates
  <2>4. \A n \in Siblings : n \in dirs \ {0} <=> n \in dirs
    BY <1>1
  <2> HIDE DEF ListInstances
  <2>5. /\ pick'.listed = ListInstances /\ pick'.changed = {}
        /\ pick' = [listed |-> pick'.listed, changed |-> pick'.changed]
    BY <2>1
  <2> QED BY <1>1, <2>1, <2>2, <2>3, <2>4, <2>5 DEF ListingFollows
<1>3. ASSUME NEW n \in Siblings \cup {0}, DirsChange(n) PROVE ListingFollows'
  <2>1. /\ dirs' = IF n \in dirs THEN dirs \ {n} ELSE dirs \cup {n}
        /\ pick' = [pick EXCEPT !.changed = IF pick.listed = <<>> THEN {} ELSE @ \cup ({n} \ {0})]
    BY <1>3 DEF DirsChange
  <2>2. dirs' \subseteq Siblings \cup {0} /\ IsFiniteSet(dirs')
    BY <1>1, <2>1, FS_RemoveElement, FS_AddElement
  <2>3. \A m : m # n => (m \in dirs' <=> m \in dirs)
    BY <2>1
  <2>4. /\ pick' = [listed |-> pick'.listed, changed |-> pick'.changed]
        /\ pick'.listed = pick.listed
        /\ pick'.changed = IF pick.listed = <<>> THEN {} ELSE pick.changed \cup ({n} \ {0})
    BY <2>1 DEF ListingFollows
  <2>5. pick'.changed \subseteq Siblings
    BY <1>1, <2>4
  <2>6. ASSUME pick'.listed # <<>>
        PROVE  \E S \in SUBSET Siblings :
                 /\ IsFiniteSet(S) /\ Enumerates(pick'.listed, S)
                 /\ \A m \in Siblings \ pick'.changed : m \in S <=> m \in dirs'
    <3>1. PICK S \in SUBSET Siblings :
            /\ IsFiniteSet(S) /\ Enumerates(pick.listed, S)
            /\ \A m \in Siblings \ pick.changed : m \in S <=> m \in dirs
      BY <2>4, <2>6 DEF ListingFollows
    <3>2. \A m \in Siblings \ pick'.changed : m \in Siblings \ pick.changed /\ m # n
      BY <1>1, <2>4, <2>6
    <3> QED BY <2>3, <2>4, <3>1, <3>2
  <2> QED BY <2>2, <2>4, <2>5, <2>6 DEF ListingFollows
<1>4. ASSUME UNCHANGED numberVars PROVE ListingFollows'
  BY <1>4 DEF numberVars, ListingFollows
<1>5. ASSUME NEW l \in Launches, Step(l) \/ Leaves(l) \/ Fault(l) PROVE UNCHANGED numberVars
  BY <1>5, FilesTyped
<1>6. ASSUME NEW l \in Launches, NEW mode \in Modes, Plans(l, mode) PROVE UNCHANGED numberVars
  BY <1>6 DEF Plans
<1>7. ASSUME \/ Reboots \/ MonitorAnswers \/ GuestComesUp \/ VmStops \/ HostChanges \/ GateRuns \/ Returns
             \/ \E kind \in Kinds, var \in {"set", "empty", "unset"} : Begins(kind, var)
      PROVE  UNCHANGED numberVars
  BY <1>7 DEF Reboots, MonitorAnswers, GuestComesUp, VmStops, GuestFrame, HostChanges, ChangesTo,
              GateRuns, Returns, Begins, LookFrame
<1> QED BY <1>2, <1>3, <1>4, <1>5, <1>6, <1>7 DEF Act

-----------------------------------------------------------------------------
(* The invariant, and what follows of it.                                  *)
LEMMA InvInitially == Init => Inv
<1> SUFFICES ASSUME Init PROVE Inv
  OBVIOUS
<1>1. Types
  BY TypesInitially
<1>2. /\ vm = Down /\ vm.stage = "down" /\ phase = None /\ share.snap.whole
      /\ runtime.pub = None /\ gate = FALSE /\ look.pc = "idle"
  BY DEF Init, Down, NoFile, NoLook
<1>3. ASSUME NEW l \in Launches
      PROVE  launch[l].pc \in {"idle", "done"} /\ ~launch[l].gated
  BY DEF Init, Idle, Done
<1>4. StrandedOnlyByAKill /\ StoreDbLabelIsTrue /\ Watched
  BY <1>2 DEF StrandedOnlyByAKill, StoreDbLabelIsTrue, Watched
<1>5. Alone
  BY <1>2, <1>3 DEF Alone, OneAtATime, SnapshotFollows, KeysFollow, MarkerFollows, Active, Marked
<1>6. GateHolds
  BY <1>2, <1>3 DEF GateHolds
<1>7. GraphicsFollow
  BY <1>2, <1>3 DEF GraphicsFollow, Active
<1>8. ListingFollows
  BY FS_EmptySet DEF Init, ListingFollows
<1> QED BY <1>1, <1>4, <1>5, <1>6, <1>7, <1>8 DEF Inv

LEMMA InvStep == Inv /\ [Next]_vars => Inv'
<1> SUFFICES ASSUME Inv, [Next]_vars PROVE Inv'
  OBVIOUS
<1>1. Types'
  BY TypesStep DEF Inv
<1>2. CASE UNCHANGED vars
  <2>1. /\ UNCHANGED <<world, phase, runtime, share, vm, volume, launch, look, seen, gate>>
        /\ UNCHANGED <<dirs, pick, past, faults, scene>>
    BY <1>2 DEF vars, recipeVars, guestVars, hostVars, numberVars
  <2>2. StrandedOnlyByAKill' /\ StoreDbLabelIsTrue' /\ ListingFollows'
    BY <2>1 DEF Inv, StrandedOnlyByAKill, StoreDbLabelIsTrue, HostSeeded, ListingFollows
  <2>3. Alone'
    BY <2>1 DEF Inv, Alone, OneAtATime, SnapshotFollows, KeysFollow, MarkerFollows
  <2>4. Watched'
    BY <2>1 DEF Inv, Watched, Provisioning, RuntimeRoot
  <2>5. Preflight(world)' = Preflight(world) /\ ResolveGpu(world)' = ResolveGpu(world)
    BY <2>1, SameHostSamePreflight
  <2>6. GateHolds' /\ GraphicsFollow'
    <3> HIDE DEF Preflight, ResolveGpu
    <3> QED BY <2>1, <2>5 DEF Inv, GateHolds, GraphicsFollow
  <2> QED BY <1>1, <2>2, <2>3, <2>4, <2>6 DEF Inv
<1>3. CASE Next
  BY <1>1, <1>3, StrandedStep, StoreStep, AloneStep, WatchedStep, GateStep, GraphicsStep, ListingStep
     DEF Inv, Next
<1> QED BY <1>2, <1>3

LEMMA InvAlways == ProvisionSpec => []Inv
<1>1. Init => Inv
  BY InvInitially
<1>2. Inv /\ [Next]_vars => Inv'
  BY InvStep
<1> QED BY <1>1, <1>2, PTL DEF ProvisionSpec

\* The state is always well typed; a marker without its launch is left only
\* by one that was killed; and the guest is never given a snapshot that is
\* not complete, unless launches overlapped (start.rs: the traps and tails of
\* the recipe, VACUUM INTO and the move).
THEOREM NothingStaysHalfMade == ProvisionSpec => []NothingIsLeftHalfMade
<1>1. Inv => NothingIsLeftHalfMade
  <2> SUFFICES ASSUME Inv PROVE NothingIsLeftHalfMade
    OBVIOUS
  <2>1. ToSet(pick.listed) \subseteq Siblings
    <3>1. CASE pick.listed = <<>>
      BY <3>1 DEF ToSet
    <3>2. CASE pick.listed # <<>>
      <4>1. PICK S \in SUBSET Siblings : IsFiniteSet(S) /\ Enumerates(pick.listed, S)
        BY <3>2 DEF Inv, ListingFollows
      <4> QED BY <4>1 DEF Enumerates, ToSet
    <3> QED BY <3>1, <3>2
  <2>2. dirs \subseteq Siblings \cup {0} /\ pick.changed \subseteq Siblings
    BY DEF Inv, ListingFollows
  <2>3. ProvisionTypeOK
    BY <2>1, <2>2 DEF Inv, Types, FileTypes, LaunchTypes, GuestTypes, HostTypes, ProvisionTypeOK
  <2>4. SnapshotIsWhole
    BY DEF Inv, Alone, SnapshotFollows, SnapshotIsWhole
  <2> QED BY <2>3, <2>4 DEF Inv, NothingIsLeftHalfMade
<1> QED BY <1>1, InvAlways, PTL

\* What `status` says of an instance is so: a launch nobody disturbs is seen
\* from its first step to its last, a machine that answers all along is
\* reported running to every shell that looks where it is, and the label of
\* the store is the volume's (status.rs: State, summarize, store_db_label).
THEOREM StatusTellsTheTruth == ProvisionSpec => []StatusIsTrue
<1>1. Inv => StatusIsTrue
  <2> SUFFICES ASSUME Inv PROVE StatusIsTrue
    OBVIOUS
  <2>1. LaunchIsSeen
    <3> SUFFICES ASSUME look.pc = "begun", seen.marked PROVE State # "stopped"
      BY DEF LaunchIsSeen
    <3>1. Provisioning
      BY DEF Inv, Watched
    <3>2. phase # None
      BY <3>1 DEF Inv, Alone, MarkerFollows, Provisioning
    <3> QED BY <3>2 DEF State
  <2>2. RunningIsReported
    <3> SUFFICES ASSUME look.pc = "begun", look.kind = "status", seen.up
                 PROVE  State = "running" <=> (look.var = "set" <=> scene.runtimeVar = "set")
      BY DEF RunningIsReported
    <3>1. look.alive <=> RuntimeRoot(look.var) = RuntimeRoot(scene.runtimeVar)
      BY DEF Inv, Watched
    <3>2. State = "running" <=> look.alive
      BY DEF State
    <3>3. RuntimeRoot(look.var) = RuntimeRoot(scene.runtimeVar)
            <=> (look.var = "set" <=> scene.runtimeVar = "set")
      BY DEF RuntimeRoot
    <3> QED BY <3>1, <3>2, <3>3
  <2> QED BY <2>1, <2>2 DEF Inv, StatusIsTrue
<1> QED BY <1>1, InvAlways, PTL

\* A command about an instance gets to the one that is meant: attach finds
\* the session of the guest, screenshot its compositor, and a number the
\* instance the listing showed at it (attach.rs, screenshot.rs, resolve.rs).
THEOREM TheRightInstanceIsReached == ProvisionSpec => []CommandsReachTheInstance
<1>1. Inv => CommandsReachTheInstance
  <2> SUFFICES ASSUME Inv PROVE CommandsReachTheInstance
    OBVIOUS
  <2>1. AttachFindsTheSession
    <3> SUFFICES ASSUME look.kind = "attach", InSight, vm.session,
                        look.port = share.record, ~past.over
                 PROVE  Attach = "attached"
      BY DEF AttachFindsTheSession
    <3>1. vm.stage = "armed"
      BY DEF Inv, Types, GuestTypes
    <3>2. OneAtATime /\ KeysFollow
      BY DEF Inv, Alone
    <3>3. Opens
      BY <3>1, <3>2 DEF Opens, OneAtATime, KeysFollow
    <3> QED BY <3>1, <3>3 DEF Attach, Reachable
  <2>2. ScreenshotIsClear
    <3> SUFFICES ASSUME Capture = "no compositor", ~past.respecified
                 PROVE  FALSE
      BY DEF ScreenshotIsClear
    <3>1. world.graphics /\ Opens /\ launch[vm.by].gpu = None
      BY DEF Capture, Grim
    <3>2. vm.stage = "armed"
      BY <3>1 DEF Opens
    <3>3. vm.by \in Launches
      BY <3>2, SceneIsTyped DEF Inv, Types, GuestTypes, HostTypes
    <3> QED BY <3>1, <3>2, <3>3 DEF Inv, GraphicsFollow
  <2>3. NumbersShiftOnlyFromBelow
    <3> SUFFICES ASSUME NEW i \in DOMAIN pick.listed, \A n \in pick.changed : n > pick.listed[i]
                 PROVE  ResolveIndex(i) = pick.listed[i]
      BY DEF NumbersShiftOnlyFromBelow
    <3> DEFINE T == dirs \ {0}
    <3>1. pick.listed # <<>>
      OBVIOUS
    <3>2. PICK S \in SUBSET Siblings :
            /\ IsFiniteSet(S) /\ Enumerates(pick.listed, S)
            /\ \A n \in Siblings \ pick.changed : n \in S <=> n \in dirs
      BY <3>1 DEF Inv, ListingFollows
    <3>3. /\ Siblings \subseteq Nat \ {0} /\ S \in SUBSET Nat
          /\ T \in SUBSET Nat /\ T \subseteq Siblings /\ IsFiniteSet(T)
          /\ pick.changed \subseteq Siblings
      BY ProvisionAssumption, FS_RemoveElement DEF Inv, ListingFollows
    <3>4. pick.listed[i] \in S /\ pick.listed[i] \in Nat
      BY <3>2, <3>3, NumberIsRank
    <3>5. Enumerates(ListInstances, T)
      <4> HIDE DEF T
      <4>1. \E s : Enumerates(s, T)
        BY <3>3, ListingExists
      <4> QED BY <4>1 DEF T, ListInstances, Enumerates
    <3>6. ASSUME NEW n \in Siblings, n <= pick.listed[i] PROVE n \in S <=> n \in T
      <4>1. n \in Nat /\ n # 0
        BY <3>3
      <4>2. n \notin pick.changed
        BY <3>4, <3>6, <4>1
      <4> QED BY <3>2, <4>1, <4>2
    <3> HIDE DEF T
    <3>7. Upto(S, pick.listed[i]) = Upto(T, pick.listed[i])
      BY <3>2, <3>3, <3>6 DEF Upto
    <3> DEFINE listed == pick.listed
               instances == ListInstances
    <3>8. /\ Enumerates(listed, S) /\ Enumerates(instances, T) /\ i \in DOMAIN listed
          /\ Upto(S, listed[i]) = Upto(T, listed[i])
      BY <3>2, <3>5, <3>7
    <3> HIDE DEF listed, instances
    <3>9. i \in DOMAIN instances /\ instances[i] = listed[i]
      BY <3>2, <3>3, <3>8, SameUptoSameNumber
    <3> QED BY <3>9 DEF ResolveIndex, instances, listed
  <2> QED BY <2>1, <2>2, <2>3 DEF CommandsReachTheInstance
<1> QED BY <1>1, InvAlways, PTL

\* A launch does not fail of what the gate looked at, if nothing changed
\* since, but for a secret that is there and cannot be read (status.rs:
\* preflight; start.rs: decide, the recipe and the boot).
THEOREM TheGateForetells == ProvisionSpec => []GateForetells
<1>1. Inv => GateForetells
  BY DEF Inv, GateHolds, GateForetells
<1> QED BY <1>1, InvAlways, PTL
=============================================================================
