------------------------------- MODULE Launch -------------------------------
(***************************************************************************)
(* The life of an instance on the host: `sandbox start` (katsuobushi-      *)
(* controller/src/sandbox/start.rs and the recipe it emits), `stop`        *)
(* (stop.rs) and `prune` (prune.rs), each of them a process of its own.    *)
(* Only starts exclude one another, and only from the probe of their       *)
(* siblings' claims to the write of their own record; the recipe, stop and *)
(* prune run under no lock.                                                *)
(*                                                                         *)
(* A name is what the commands read in it: which kind of instance it is,   *)
(* the card it carries, and whether it ends in eight hex digits, which     *)
(* decide_name appends to every --name and prune looks for.                *)
(***************************************************************************)
EXTENDS Naturals

CONSTANTS
  Names,     \* instance names that may be minted
  Starters,  \* `sandbox start` processes
  Stoppers,  \* `sandbox stop` processes
  Cids,      \* the vsock CIDs pick_cid draws from
  Ports,     \* the loopback ports pick_port draws from
  Cards,     \* cards of the project board
  Faults     \* whether processes may die and recipes abort

ASSUME LaunchAssumption ==
  /\ "none" \notin Cids /\ "none" \notin Ports /\ "nobody" \notin Starters
  /\ Faults \in BOOLEAN
  /\ \A n \in Names :
       /\ DOMAIN n = {"kind", "card", "hex8", "salt"}
       /\ n.kind \in {"card", "review", "friendly", "unnamed"}
       /\ n.card \in Cards \cup {"none"}
       /\ n.hex8 \in BOOLEAN

VARIABLES
  minted,   \* names given to an instance so far
  dir,      \* per name, the state directory and the instance.json in it
  vm,       \* per name, the virtual machine
  runtime,  \* per name, the runtime directory and the monitor socket in it
  lock,     \* the holder of .start.lock
  starter,  \* per start process, what it is doing
  stopper,  \* per stop process, what it is doing
  pruner,   \* the prune process
  archive,  \* the cards accepted or cancelled
  upset     \* instances another command was in the way of, or that a stop
            \* took for dead, since they were last started (history)

launchVars == <<minted, dir, vm, runtime, lock, starter, stopper, pruner, archive, upset>>

-----------------------------------------------------------------------------
None == "none"
Nobody == "nobody"
NoName == [kind |-> "unnamed", card |-> "none", hex8 |-> FALSE, salt |-> 0]
AnyName == Names \cup {NoName}

\* Named instances are the persistent ones.
IsNamed(n) == n.kind # "unnamed"

\* state: no directory; a directory without a record; with a record half
\* written; with a record; with one of another schema version.
Dir == [state : {"absent", "bare", "torn", "whole", "other"}, cid : Cids \cup {None},
        port : Ports \cup {None}]
Absent == [state |-> "absent", cid |-> None, port |-> None]
Bare   == [Absent EXCEPT !.state = "bare"]

\* bound: qemu listens on its monitor socket.
Vm == [up : BOOLEAN, bound : BOOLEAN, cid : Cids \cup {None}, port : Ports \cup {None}]
Down == [up |-> FALSE, bound |-> FALSE, cid |-> None, port |-> None]

Runtime == {"absent", "bare", "socket"}

Modes == {"agent", "interactive"}
Starter == [pc : {"idle", "locked", "writing", "recipe", "booting", "attached"},
            name : AnyName, mode : Modes, cid : Cids \cup {None}, port : Ports \cup {None}]
Idle == [pc |-> "idle", name |-> NoName, mode |-> "agent", cid |-> None, port |-> None]

Stopper == [pc : {"idle", "asked", "down"}, name : AnyName, remove : BOOLEAN]
StopIdle == [pc |-> "idle", name |-> NoName, remove |-> FALSE]

\* reap: the instances of terminal cards that were listed (history).
Pruner == [pc : {"idle", "sweeping"}, reap : SUBSET Names, todo : SUBSET Names]
PruneIdle == [pc |-> "idle", reap |-> {}, todo |-> {}]

LaunchInit ==
  /\ minted = {}
  /\ dir = [n \in Names |-> Absent]
  /\ vm = [n \in Names |-> Down]
  /\ runtime = [n \in Names |-> "absent"]
  /\ lock = Nobody
  /\ starter = [p \in Starters |-> Idle]
  /\ stopper = [p \in Stoppers |-> StopIdle]
  /\ pruner = PruneIdle
  /\ archive = {}
  /\ upset = {}

\* History.  A start is under way; a command gets in the way of an instance
\* that runs or is being started.
Starting(n) == \E p \in Starters : starter[p].pc # "idle" /\ starter[p].name = n
Stopping(n) == \E q \in Stoppers : stopper[q].pc # "idle" /\ stopper[q].name = n
Upsets(n, does) == upset' = IF does THEN upset \cup {n} ELSE upset
Settles(n) ==
  upset' = IF vm[n].up \/ Starting(n) \/ Stopping(n) THEN upset \cup {n} ELSE upset \ {n}

-----------------------------------------------------------------------------
(* start: run, decide, and the write of instance.json.                     *)

\* Mutant: starts do not exclude one another.
LocksWithoutLock(p, n, mode) ==
  /\ starter[p].pc = "idle"
  /\ n \notin minted \/ n.hex8
  /\ lock' = p
  /\ minted' = minted \cup {n}
  /\ starter' = [starter EXCEPT ![p] = [Idle EXCEPT !.pc = "locked", !.name = n, !.mode = mode]]
  /\ Settles(n)
  /\ UNCHANGED <<dir, vm, runtime, stopper, pruner, archive>>

\* The name is minted afresh, or is the full name of an earlier instance
\* (only a name with the suffix is taken verbatim).
Locks(p, n, mode) ==
  /\ starter[p].pc = "idle" /\ lock = Nobody
  /\ n \notin minted \/ n.hex8
  /\ lock' = p
  /\ minted' = minted \cup {n}
  /\ starter' = [starter EXCEPT ![p] = [Idle EXCEPT !.pc = "locked", !.name = n, !.mode = mode]]
  /\ Settles(n)
  /\ UNCHANGED <<dir, vm, runtime, stopper, pruner, archive>>

\* parse_claims reads a record of any version.
Claims(n) == dir[n].state \in {"whole", "other"}
Siblings(n) == {m \in Names \ {n} : Claims(m)}
UsedCids(n)  == {dir[m].cid : m \in Siblings(n)}
UsedPorts(n) == {dir[m].port : m \in Siblings(n)}
OwnCid(n) == IF Claims(n) THEN dir[n].cid ELSE None
Bound == {vm[m].port : m \in Names}

FreePorts(n) == Ports \ (UsedPorts(n) \cup Bound)
FreeCids(n, mode) ==
  IF mode = "interactive" THEN {None} ELSE
  IF OwnCid(n) # None THEN {OwnCid(n)} ELSE Cids \ UsedCids(n)

\* decide, and the truncation of instance.json that opens its write.  What
\* can happen between the probes (stop, prune) only frees claims.
Decides(p, port, cid) ==
  /\ starter[p].pc = "locked"
  /\ port \in FreePorts(starter[p].name)
  /\ cid \in FreeCids(starter[p].name, starter[p].mode)
  /\ dir' = [dir EXCEPT ![starter[p].name] = [Bare EXCEPT !.state = "torn"]]
  /\ starter' = [starter EXCEPT ![p].pc = "writing", ![p].port = port, ![p].cid = cid]
  /\ UNCHANGED <<minted, vm, runtime, lock, stopper, pruner, archive, upset>>

\* A probe runs out of draws, git or the GPU ladder fails: nothing is written.
Bails(p) ==
  /\ starter[p].pc = "locked"
  /\ starter' = [starter EXCEPT ![p] = Idle]
  /\ lock' = Nobody
  /\ UNCHANGED <<minted, dir, vm, runtime, stopper, pruner, archive, upset>>

\* The record is complete, the recipe is emitted, the process exits (and so
\* releases the lock); its wrapper goes on with the recipe.
Records(p) ==
  LET s == starter[p] IN
  /\ s.pc = "writing"
  /\ IF dir[s.name].state = "torn"
       THEN dir' = [dir EXCEPT ![s.name] = [state |-> "whole", cid |-> s.cid, port |-> s.port]]
       ELSE UNCHANGED dir
  /\ starter' = [starter EXCEPT ![p].pc = "recipe"]
  /\ lock' = Nobody
  /\ UNCHANGED <<minted, vm, runtime, stopper, pruner, archive, upset>>

-----------------------------------------------------------------------------
(* The recipe.                                                             *)

MakesDirs(p) ==
  LET n == starter[p].name IN
  /\ starter[p].pc = "recipe"
  /\ dir' = IF dir[n].state = "absent" THEN [dir EXCEPT ![n] = Bare] ELSE dir
  /\ runtime' = IF runtime[n] = "absent" THEN [runtime EXCEPT ![n] = "bare"] ELSE runtime
  /\ starter' = [starter EXCEPT ![p].pc = "booting"]
  /\ UNCHANGED <<minted, vm, lock, stopper, pruner, archive, upset>>

\* qemu comes up unless the CID, the port or the disks are in use; the agent
\* tail leaves it running, the interactive tail waits for the session.
Clashes(n, s) ==
  \/ vm[n].up
  \/ \E m \in Names \ {n} : vm[m].up /\ (vm[m].port = s.port \/ (s.cid # None /\ vm[m].cid = s.cid))

Boots(p) ==
  LET s == starter[p]  n == s.name IN
  /\ s.pc = "booting"
  /\ dir[n].state # "absent" /\ runtime[n] # "absent"
  /\ vm' = IF Clashes(n, s) THEN vm
            ELSE [vm EXCEPT ![n] = [up |-> TRUE, bound |-> FALSE, cid |-> s.cid, port |-> s.port]]
  /\ starter' = [starter EXCEPT ![p] = IF s.mode = "agent" THEN Idle
                                         ELSE [s EXCEPT !.pc = "attached"]]
  /\ UNCHANGED <<minted, dir, runtime, lock, stopper, pruner, archive, upset>>

\* A moment later qemu binds its monitor socket, over one an earlier run has
\* left; without the directory to bind it in it exits.
Binds(n) ==
  /\ vm[n].up /\ ~vm[n].bound
  /\ IF runtime[n] = "absent"
       THEN vm' = [vm EXCEPT ![n] = Down] /\ UNCHANGED runtime
       ELSE vm' = [vm EXCEPT ![n].bound = TRUE] /\ runtime' = [runtime EXCEPT ![n] = "socket"]
  /\ UNCHANGED <<minted, dir, lock, starter, stopper, pruner, archive, upset>>

\* The directories are gone: the recipe fails (set -e).
LosesDirs(p) ==
  /\ starter[p].pc = "booting"
  /\ dir[starter[p].name].state = "absent" \/ runtime[starter[p].name] = "absent"
  /\ starter' = [starter EXCEPT ![p] = Idle]
  /\ UNCHANGED <<minted, dir, vm, runtime, lock, stopper, pruner, archive, upset>>

\* The cleanup trap of the interactive tail.
Leaves(p) ==
  LET n == starter[p].name IN
  /\ starter[p].pc = "attached"
  /\ vm' = [vm EXCEPT ![n] = Down]
  /\ runtime' = [runtime EXCEPT ![n] = "absent"]
  /\ dir' = IF IsNamed(n) THEN dir ELSE [dir EXCEPT ![n] = Absent]
  /\ starter' = [starter EXCEPT ![p] = Idle]
  /\ UNCHANGED <<minted, lock, stopper, pruner, archive, upset>>

\* A required secret is missing, the user interrupts, the process is killed.
Aborts(p) ==
  /\ Faults
  /\ starter[p].pc \in {"locked", "writing", "recipe", "booting"}
  /\ starter' = [starter EXCEPT ![p] = Idle]
  /\ lock' = IF lock = p THEN Nobody ELSE lock
  /\ UNCHANGED <<minted, dir, vm, runtime, stopper, pruner, archive, upset>>

\* The tools are updated to another instanceVersion.
Updates ==
  /\ Faults /\ \A p \in Starters : starter[p].pc = "idle"
  /\ \E n \in Names : dir[n].state = "whole"
  /\ dir' = [n \in Names |-> IF dir[n].state = "whole"
                                THEN [dir[n] EXCEPT !.state = "other"] ELSE dir[n]]
  /\ UNCHANGED <<minted, vm, runtime, lock, starter, stopper, pruner, archive, upset>>

\* qemu ends: by itself, or because a stop has told it to quit.
VmDies(n) ==
  /\ vm[n].up
  /\ vm' = [vm EXCEPT ![n] = Down]
  /\ UNCHANGED <<minted, dir, runtime, lock, starter, stopper, pruner, archive, upset>>

-----------------------------------------------------------------------------
(* stop: stop_core and quit_and_confirm.                                   *)

\* Resolve the instance.  A monitor socket that exists is told to quit;
\* without one there is nothing to shut down: not even a VM that has yet to
\* bind its socket.
Asks(q, n, remove) ==
  /\ stopper[q].pc = "idle" /\ dir[n].state # "absent"
  /\ stopper' = [stopper EXCEPT ![q] =
                    [pc |-> IF runtime[n] = "socket" THEN "asked" ELSE "down",
                     name |-> n, remove |-> remove]]
  /\ Upsets(n, Starting(n) \/ (runtime[n] # "socket" /\ vm[n].up))
  /\ UNCHANGED <<minted, dir, vm, runtime, lock, starter, pruner, archive>>

\* Whether a probe of the monitor is answered: is_alive.
Listens(n) == runtime[n] = "socket" /\ vm[n].bound

\* Mutant: the quit is sent, and nobody looks whether the monitor went away.
ConfirmsUnprobed(q) ==
  LET n == stopper[q].name IN
  /\ stopper[q].pc = "asked"
  /\ stopper' = [stopper EXCEPT ![q].pc = "down"]
  /\ Upsets(n, vm[n].up /\ ~Listens(n))
  /\ UNCHANGED <<minted, dir, vm, runtime, lock, starter, pruner, archive>>

\* One of the probes is refused: the VM is down, or another one has yet to
\* bind the socket.
Confirms(q) ==
  LET n == stopper[q].name IN
  /\ stopper[q].pc = "asked" /\ ~Listens(n)
  /\ stopper' = [stopper EXCEPT ![q].pc = "down"]
  /\ Upsets(n, vm[n].up)
  /\ UNCHANGED <<minted, dir, vm, runtime, lock, starter, pruner, archive>>

\* A monitor that takes more than a second to greet is taken for a dead one.
Doubts(q) ==
  LET n == stopper[q].name IN
  /\ stopper[q].pc = "asked" /\ Listens(n)
  /\ stopper' = [stopper EXCEPT ![q].pc = "down"]
  /\ Upsets(n, TRUE)
  /\ UNCHANGED <<minted, dir, vm, runtime, lock, starter, pruner, archive>>

\* A monitor that answers ten probes: nothing is removed.
Refuses(q) ==
  /\ stopper[q].pc = "asked" /\ Listens(stopper[q].name)
  /\ stopper' = [stopper EXCEPT ![q] = StopIdle]
  /\ UNCHANGED <<minted, dir, vm, runtime, lock, starter, pruner, archive, upset>>

\* A record that cannot be read counts as that of an ephemeral instance.
KnownNamed(n) == dir[n].state = "whole" /\ IsNamed(n)

Removes(q) ==
  LET s == stopper[q] IN
  /\ s.pc = "down" /\ (s.remove \/ ~KnownNamed(s.name))
  /\ dir' = [dir EXCEPT ![s.name] = Absent]
  /\ runtime' = [runtime EXCEPT ![s.name] = "absent"]
  /\ stopper' = [stopper EXCEPT ![q] = StopIdle]
  /\ UNCHANGED <<minted, vm, lock, starter, pruner, archive, upset>>

Keeps(q) ==
  LET s == stopper[q] IN
  /\ s.pc = "down" /\ ~s.remove /\ KnownNamed(s.name)
  /\ stopper' = [stopper EXCEPT ![q] = StopIdle]
  /\ UNCHANGED <<minted, dir, vm, runtime, lock, starter, pruner, archive, upset>>

-----------------------------------------------------------------------------
(* prune: instance_card_id and prune_with.                                 *)

InstanceCardId(n) ==
  IF n.kind = "card" /\ ~n.hex8 THEN n.card ELSE
  IF n.kind = "review" /\ n.hex8 THEN n.card ELSE "none"

Accepts(c) ==
  /\ c \notin archive
  /\ archive' = archive \cup {c}
  /\ UNCHANGED <<minted, dir, vm, runtime, lock, starter, stopper, pruner, upset>>

\* The board is read, then the state directories are listed; all but those
\* of a terminal card are skipped.  (Without a terminal card a sweep changes
\* nothing, and is left out.)
Sweeps ==
  /\ pruner.pc = "idle" /\ archive # {}
  /\ LET found == {n \in Names : dir[n].state # "absent"} IN
     pruner' = [pc   |-> "sweeping",
                reap |-> {n \in found : n.card \in archive},
                todo |-> {n \in found : InstanceCardId(n) \in archive}]
  /\ UNCHANGED <<minted, dir, vm, runtime, lock, starter, stopper, archive, upset>>

PrunesOne(n) ==
  /\ pruner.pc = "sweeping" /\ n \in pruner.todo
  /\ dir' = [dir EXCEPT ![n] = Absent]
  /\ pruner' = [pruner EXCEPT !.todo = @ \ {n}]
  /\ Upsets(n, vm[n].up \/ Starting(n))
  /\ UNCHANGED <<minted, vm, runtime, lock, starter, stopper, archive>>

SweepEnds ==
  /\ pruner.pc = "sweeping" /\ pruner.todo = {}
  /\ pruner' = PruneIdle
  /\ UNCHANGED <<minted, dir, vm, runtime, lock, starter, stopper, archive, upset>>

-----------------------------------------------------------------------------
Start(p) ==
  \/ \E n \in Names, mode \in Modes : Locks(p, n, mode)
  \/ \E port \in Ports, cid \in Cids \cup {None} : Decides(p, port, cid)
  \/ Bails(p) \/ Records(p) \/ MakesDirs(p) \/ Boots(p) \/ LosesDirs(p)
  \/ Leaves(p) \/ Aborts(p)

Stop(q) ==
  \/ \E n \in Names, remove \in BOOLEAN : Asks(q, n, remove)
  \/ Confirms(q) \/ Doubts(q) \/ Refuses(q) \/ Removes(q) \/ Keeps(q)

Prune == Sweeps \/ SweepEnds \/ \E n \in Names : PrunesOne(n)

LaunchNext ==
  \/ \E p \in Starters : Start(p)
  \/ \E q \in Stoppers : Stop(q)
  \/ Prune
  \/ Updates
  \/ \E n \in Names : Binds(n) \/ VmDies(n)
  \/ \E c \in Cards : Accepts(c)

LaunchSpec == LaunchInit /\ [][LaunchNext]_launchVars

-----------------------------------------------------------------------------
(* Types; the allocation lock is held exactly by the start that decides or *)
(* writes its record, and is not left behind by one that died.             *)
LaunchTypeOK ==
  /\ minted \subseteq Names
  /\ dir \in [Names -> Dir]
  /\ vm \in [Names -> Vm]
  /\ runtime \in [Names -> Runtime]
  /\ lock \in Starters \cup {Nobody}
  /\ \A p \in Starters : lock = p <=> starter[p].pc \in {"locked", "writing"}
  /\ starter \in [Starters -> Starter]
  /\ \A p \in Starters : starter[p].pc # "idle" => starter[p].name \in Names
  /\ stopper \in [Stoppers -> Stopper]
  /\ \A q \in Stoppers : stopper[q].pc # "idle" => stopper[q].name \in Names
  /\ pruner \in Pruner
  /\ archive \subseteq Cards
  /\ upset \subseteq Names

(* No two instances on record claim the same CID or the same ssh port,     *)
(* whatever starts, resumes, dies, is stopped or pruned meanwhile.         *)
ClaimsAreDisjoint ==
  \A m, n \in Names :
    m # n /\ Claims(m) /\ Claims(n) =>
      /\ dir[m].port # dir[n].port
      /\ dir[m].cid = dir[n].cid => dir[m].cid = None

(* Between a start's decision and its record, its claims are still free:   *)
(* this is what the allocation lock is held for.                           *)
DecisionsStayValid ==
  \A p \in Starters :
    starter[p].pc = "writing" =>
      /\ starter[p].port \notin UsedPorts(starter[p].name)
      /\ starter[p].cid # None => starter[p].cid \notin UsedCids(starter[p].name)

(* What starts have claimed, on record or about to be, stays apart.        *)
ClaimsStayApart == LaunchTypeOK /\ ClaimsAreDisjoint /\ DecisionsStayValid

(* An instance that runs is on record, with the CID and port it runs on,   *)
(* and once its monitor is bound the socket is in its place: it can be     *)
(* found, reached and stopped.  "Removing its dirs then would delete the    *)
(* disk images out from under a live VM" (stop_core): a stop never does,    *)
(* nor any other command, but in the cases `upset` records.  Another start *)
(* or a stop of the instance overlapped with its start; a stop met it      *)
(* before it had bound its monitor, or waited a second for the greeting in *)
(* vain (is_alive); or a sweep removed it while it ran (prune's known gap).*)
RunningIsOnRecord ==
  \A n \in Names \ upset :
    vm[n].up => /\ Claims(n) /\ dir[n].cid = vm[n].cid /\ dir[n].port = vm[n].port
                /\ vm[n].bound => runtime[n] = "socket"

-----------------------------------------------------------------------------
(* What a comment says, and the code does not do.                          *)

(* prune: it handles "Implementor instances, named `card-<id>` by `sandbox *)
(* dispatch`", so a sweep leaves none of a terminal card behind.           *)
PruneReapsImplementors ==
  [][pruner.pc = "sweeping" /\ pruner'.pc = "idle" =>
       \A n \in pruner.reap : n.kind = "card" => dir[n].state = "absent"]_launchVars
=============================================================================
