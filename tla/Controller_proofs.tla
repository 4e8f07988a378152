-------------------------- MODULE Controller_proofs --------------------------
(***************************************************************************)
(* Proofs about the controller's own state.  Launch, for any number of     *)
(* starts, stops, names, CIDs and ports: types, the claims that the        *)
(* allocation lock keeps apart, and the record of an instance that runs.   *)
(* Calendar, for every second from 1970 to the end of 9999: the stamps of  *)
(* which the names of instances are made, and the records, notes and ages. *)
(* BoardText, for boards, edits and commands of any number: what a command *)
(* writes is read back, and what is on the board is listed.                *)
(***************************************************************************)
EXTENDS Launch, Calendar, BoardText, SequenceTheorems, FiniteSetTheorems,
        WellFoundedInduction, TLAPS

-----------------------------------------------------------------------------
(* Types, and the lock.                                                    *)

LEMMA IdlesAreTyped ==
  /\ Idle \in Starter /\ StopIdle \in Stopper /\ PruneIdle \in Pruner
  /\ Absent \in Dir /\ Bare \in Dir /\ Down \in Vm
BY DEF Idle, Starter, StopIdle, Stopper, PruneIdle, Pruner, Absent, Bare, Dir, Down, Vm,
       AnyName, Modes

LEMMA TypeInit == LaunchInit => LaunchTypeOK
<1> SUFFICES ASSUME LaunchInit PROVE LaunchTypeOK
  OBVIOUS
<1>1. starter \in [Starters -> Starter] /\ stopper \in [Stoppers -> Stopper]
  BY IdlesAreTyped DEF LaunchInit
<1>2. \A p \in Starters : starter[p].pc = "idle"
  BY DEF LaunchInit, Idle
<1>3. \A q \in Stoppers : stopper[q].pc = "idle"
  BY DEF LaunchInit, StopIdle
<1>4. \A p \in Starters : lock = p <=> starter[p].pc \in {"locked", "writing"}
  BY <1>2, LaunchAssumption DEF LaunchInit, Nobody
<1>5. dir \in [Names -> Dir] /\ vm \in [Names -> Vm]
  BY IdlesAreTyped DEF LaunchInit
<1>6. pruner \in Pruner
  BY IdlesAreTyped DEF LaunchInit
<1>7. runtime \in [Names -> Runtime]
  BY DEF LaunchInit, Runtime
<1> QED
  BY <1>1, <1>2, <1>3, <1>4, <1>5, <1>6, <1>7 DEF LaunchInit, LaunchTypeOK

LEMMA TypeStart ==
  ASSUME LaunchTypeOK, NEW p \in Starters, Start(p)
  PROVE  LaunchTypeOK'
<1> USE LaunchAssumption, IdlesAreTyped DEF LaunchTypeOK, Nobody
<1>1. ASSUME NEW n \in Names, NEW mode \in Modes, Locks(p, n, mode)
      PROVE  LaunchTypeOK'
  <2>1. [Idle EXCEPT !.pc = "locked", !.name = n, !.mode = mode] \in Starter
    BY DEF Idle, Starter, AnyName
  <2>2. starter' \in [Starters -> Starter]
    BY <1>1, <2>1 DEF Locks
  <2>3. \A q \in Starters : lock' = q <=> starter'[q].pc \in {"locked", "writing"}
    BY <1>1 DEF Locks, Idle
  <2>4. upset' \subseteq Names
    BY <1>1 DEF Locks, Settles
  <2> QED BY <1>1, <2>2, <2>3, <2>4 DEF Locks
<1>2. ASSUME NEW port \in Ports, NEW cid \in Cids \cup {None}, Decides(p, port, cid)
      PROVE  LaunchTypeOK'
  <2>1. [Bare EXCEPT !.state = "torn"] \in Dir
    BY DEF Bare, Absent, Dir
  <2>2. starter' = [starter EXCEPT ![p] = [starter[p] EXCEPT !.pc = "writing", !.port = port, !.cid = cid]]
    BY <1>2 DEF Decides
  <2>3. [starter[p] EXCEPT !.pc = "writing", !.port = port, !.cid = cid] \in Starter
    BY DEF Starter
  <2>4. starter' \in [Starters -> Starter]
    BY <2>2, <2>3
  <2>5. \A q \in Starters : lock' = q <=> starter'[q].pc \in {"locked", "writing"}
    BY <1>2, <2>2 DEF Decides, Starter
  <2>6. dir' \in [Names -> Dir]
    BY <1>2, <2>1 DEF Decides
  <2> QED BY <1>2, <2>4, <2>5, <2>6 DEF Decides
<1>3. CASE Bails(p)
  BY <1>3 DEF Bails, Idle
<1>4. CASE Records(p)
  <2>1. starter' = [starter EXCEPT ![p] = [starter[p] EXCEPT !.pc = "recipe"]]
    BY <1>4 DEF Records
  <2>2. [starter[p] EXCEPT !.pc = "recipe"] \in Starter
    BY DEF Starter
  <2>3. starter' \in [Starters -> Starter]
    BY <2>1, <2>2
  <2>4. \A q \in Starters : lock' = q <=> starter'[q].pc \in {"locked", "writing"}
    BY <1>4, <2>1 DEF Records, Starter
  <2>5. [state |-> "whole", cid |-> starter[p].cid, port |-> starter[p].port] \in Dir
    BY DEF Starter, Dir
  <2>6. dir' \in [Names -> Dir]
    BY <1>4, <2>5 DEF Records
  <2> QED BY <1>4, <2>3, <2>4, <2>6 DEF Records
<1>5. CASE MakesDirs(p)
  <2>1. starter' = [starter EXCEPT ![p] = [starter[p] EXCEPT !.pc = "booting"]]
    BY <1>5 DEF MakesDirs
  <2>2. [starter[p] EXCEPT !.pc = "booting"] \in Starter
    BY DEF Starter
  <2>3. starter' \in [Starters -> Starter]
    BY <2>1, <2>2
  <2>4. \A q \in Starters : lock' = q <=> starter'[q].pc \in {"locked", "writing"}
    BY <1>5, <2>1 DEF MakesDirs, Starter
  <2>5. dir' \in [Names -> Dir] /\ runtime' \in [Names -> Runtime]
    BY <1>5 DEF MakesDirs, Runtime
  <2> QED BY <1>5, <2>3, <2>4, <2>5 DEF MakesDirs
<1>6. CASE Boots(p)
  <2> DEFINE s == starter[p]
  <2>1. s \in Starter /\ s.pc = "booting" /\ s.name \in Names
    BY <1>6 DEF Boots
  <2>2. [s EXCEPT !.pc = "attached"] \in Starter
    BY <2>1 DEF Starter
  <2>3. starter' = [starter EXCEPT ![p] = IF s.mode = "agent" THEN Idle
                                             ELSE [s EXCEPT !.pc = "attached"]]
    BY <1>6 DEF Boots
  <2>4. starter' \in [Starters -> Starter]
    BY <2>2, <2>3
  <2>5. starter'[p].pc \in {"idle", "attached"}
    BY <2>1, <2>3 DEF Starter, Idle
  <2>6. starter'[p].pc = "attached" => starter'[p].name = s.name
    BY <2>1, <2>3 DEF Starter, Idle
  <2>7. \A q \in Starters : lock' = q <=> starter'[q].pc \in {"locked", "writing"}
    BY <1>6, <2>1, <2>3, <2>5 DEF Boots
  <2>8. \A q \in Starters : starter'[q].pc # "idle" => starter'[q].name \in Names
    BY <2>1, <2>3, <2>5, <2>6
  <2>9. [up |-> TRUE, bound |-> FALSE, cid |-> s.cid, port |-> s.port] \in Vm
    BY <2>1 DEF Starter, Vm
  <2>10. vm' \in [Names -> Vm]
    BY <1>6, <2>9 DEF Boots
  <2> HIDE DEF s
  <2> QED BY <1>6, <2>4, <2>7, <2>8, <2>10 DEF Boots
<1>7. CASE LosesDirs(p)
  BY <1>7 DEF LosesDirs, Idle
<1>8. CASE Leaves(p)
  <2>1. /\ starter' \in [Starters -> Starter] /\ vm' \in [Names -> Vm]
        /\ dir' \in [Names -> Dir] /\ runtime' \in [Names -> Runtime]
    BY <1>8 DEF Leaves, Runtime
  <2>2. \A q \in Starters : lock' = q <=> starter'[q].pc \in {"locked", "writing"}
    BY <1>8 DEF Leaves, Idle
  <2>3. \A q \in Starters : starter'[q].pc # "idle" => starter'[q].name \in Names
    BY <1>8 DEF Leaves, Idle
  <2> QED BY <1>8, <2>1, <2>2, <2>3 DEF Leaves
<1>9. CASE Aborts(p)
  <2>1. \A q \in Starters : lock' = q <=> starter'[q].pc \in {"locked", "writing"}
    BY <1>9 DEF Aborts, Idle
  <2>2. \A q \in Starters : starter'[q].pc # "idle" => starter'[q].name \in Names
    BY <1>9 DEF Aborts, Idle
  <2> QED BY <1>9, <2>1, <2>2 DEF Aborts
<1> QED
  BY <1>1, <1>2, <1>3, <1>4, <1>5, <1>6, <1>7, <1>8, <1>9 DEF Start

LEMMA TypeStop ==
  ASSUME LaunchTypeOK, NEW q \in Stoppers, Stop(q)
  PROVE  LaunchTypeOK'
<1> USE IdlesAreTyped DEF LaunchTypeOK
<1>1. ASSUME NEW n \in Names, NEW remove \in BOOLEAN, Asks(q, n, remove)
      PROVE  LaunchTypeOK'
  <2>1. PICK pc \in {"asked", "down"} :
           stopper' = [stopper EXCEPT ![q] = [pc |-> pc, name |-> n, remove |-> remove]]
    BY <1>1 DEF Asks
  <2>2. [pc |-> pc, name |-> n, remove |-> remove] \in Stopper
    BY DEF Stopper, AnyName
  <2>3. stopper' \in [Stoppers -> Stopper]
    BY <2>1, <2>2
  <2>4. \A r \in Stoppers : stopper'[r].pc # "idle" => stopper'[r].name \in Names
    BY <2>1
  <2>5. upset' \subseteq Names
    BY <1>1 DEF Asks, Upsets
  <2> QED BY <1>1, <2>3, <2>4, <2>5 DEF Asks
<1>2. CASE Confirms(q) \/ Doubts(q)
  <2>1. stopper' = [stopper EXCEPT ![q] = [stopper[q] EXCEPT !.pc = "down"]]
    BY <1>2 DEF Confirms, Doubts
  <2>2. stopper[q] \in Stopper /\ stopper[q].name \in Names
    BY <1>2 DEF Confirms, Doubts
  <2>3. [stopper[q] EXCEPT !.pc = "down"] \in Stopper
    BY <2>2 DEF Stopper
  <2>4. stopper' \in [Stoppers -> Stopper]
    BY <2>1, <2>3
  <2>5. \A r \in Stoppers : stopper'[r].pc # "idle" => stopper'[r].name \in Names
    BY <2>1, <2>2 DEF Stopper
  <2>6. upset' \subseteq Names
    BY <1>2, <2>2 DEF Confirms, Doubts, Upsets
  <2> QED BY <1>2, <2>4, <2>5, <2>6 DEF Confirms, Doubts
<1>3. CASE Refuses(q)
  BY <1>3 DEF Refuses, StopIdle
<1>4. CASE Removes(q)
  BY <1>4 DEF Removes, StopIdle, Runtime
<1>5. CASE Keeps(q)
  BY <1>5 DEF Keeps, StopIdle
<1> QED
  BY <1>1, <1>2, <1>3, <1>4, <1>5 DEF Stop

LEMMA TypePrune ==
  ASSUME LaunchTypeOK, Prune
  PROVE  LaunchTypeOK'
<1> USE IdlesAreTyped DEF LaunchTypeOK
<1>1. CASE Sweeps
  BY <1>1 DEF Sweeps, Pruner
<1>2. CASE SweepEnds
  BY <1>2 DEF SweepEnds
<1>3. ASSUME NEW n \in Names, PrunesOne(n)
      PROVE  LaunchTypeOK'
  <2>1. [pruner EXCEPT !.todo = pruner.todo \ {n}] \in Pruner
    BY DEF Pruner
  <2>2. pruner' \in Pruner
    BY <1>3, <2>1 DEF PrunesOne
  <2>3. dir' \in [Names -> Dir] /\ upset' \subseteq Names
    BY <1>3 DEF PrunesOne, Upsets
  <2> QED BY <1>3, <2>2, <2>3 DEF PrunesOne
<1> QED
  BY <1>1, <1>2, <1>3 DEF Prune

LEMMA TypeStep == LaunchTypeOK /\ [LaunchNext]_launchVars => LaunchTypeOK'
<1> SUFFICES ASSUME LaunchTypeOK, [LaunchNext]_launchVars PROVE LaunchTypeOK'
  OBVIOUS
<1>1. CASE Updates
  <2>1. \A n \in Names : [dir[n] EXCEPT !.state = "other"] \in Dir
    BY DEF LaunchTypeOK, Dir
  <2>2. dir' \in [Names -> Dir]
    BY <1>1, <2>1 DEF Updates, LaunchTypeOK
  <2> QED BY <1>1, <2>2 DEF Updates, LaunchTypeOK
<1>2. ASSUME NEW n \in Names, VmDies(n) \/ Binds(n) PROVE LaunchTypeOK'
  <2>1. [vm[n] EXCEPT !.bound = TRUE] \in Vm
    BY DEF LaunchTypeOK, Vm
  <2>2. vm' \in [Names -> Vm]
    BY <1>2, <2>1, IdlesAreTyped DEF VmDies, Binds, LaunchTypeOK
  <2>3. runtime' \in [Names -> Runtime]
    BY <1>2 DEF VmDies, Binds, LaunchTypeOK, Runtime
  <2> QED BY <1>2, <2>2, <2>3 DEF VmDies, Binds, LaunchTypeOK
<1>3. ASSUME NEW c \in Cards, Accepts(c) PROVE LaunchTypeOK'
  BY <1>3 DEF Accepts, LaunchTypeOK
<1>4. CASE UNCHANGED launchVars
  BY <1>4 DEF launchVars, LaunchTypeOK
<1> QED
  BY <1>1, <1>2, <1>3, <1>4, TypeStart, TypeStop, TypePrune DEF LaunchNext

-----------------------------------------------------------------------------
(* The claims.  ClaimsStayApart is inductive: whoever decides sees every   *)
(* claim, and as it holds the lock nobody else is between decision and     *)
(* record.                                                                 *)

\* Where claims only disappear, and no start gets to its decision, what was
\* apart stays apart.
LEMMA FewerClaims ==
  ASSUME ClaimsAreDisjoint, DecisionsStayValid,
         \A n \in Names : Claims(n)' =>
            Claims(n) /\ dir'[n].cid = dir[n].cid /\ dir'[n].port = dir[n].port,
         \A p \in Starters : starter'[p].pc = "writing" => starter'[p] = starter[p]
  PROVE  ClaimsAreDisjoint' /\ DecisionsStayValid'
<1>1. ClaimsAreDisjoint'
  BY DEF ClaimsAreDisjoint
<1>2. DecisionsStayValid'
  <2> SUFFICES ASSUME NEW p \in Starters, NEW n, n = starter'[p].name, starter'[p].pc = "writing"
               PROVE  /\ starter'[p].port \notin UsedPorts(n)'
                      /\ starter'[p].cid # None => starter'[p].cid \notin UsedCids(n)'
    BY DEF DecisionsStayValid, UsedPorts, UsedCids, Siblings
  <2>1. starter'[p] = starter[p]
    OBVIOUS
  <2>2. /\ starter[p].port \notin UsedPorts(n)
        /\ starter[p].cid # None => starter[p].cid \notin UsedCids(n)
    BY <2>1 DEF DecisionsStayValid
  <2>3. UsedPorts(n)' \subseteq UsedPorts(n) /\ UsedCids(n)' \subseteq UsedCids(n)
    BY DEF UsedPorts, UsedCids, Siblings
  <2> QED BY <2>1, <2>2, <2>3
<1> QED BY <1>1, <1>2

LEMMA ApartAfterDecides ==
  ASSUME ClaimsStayApart, NEW p \in Starters, NEW port \in Ports, NEW cid \in Cids \cup {None},
         Decides(p, port, cid)
  PROVE  ClaimsAreDisjoint' /\ DecisionsStayValid'
<1> USE DEF ClaimsStayApart
<1>0. PICK n \in Names : n = starter[p].name
  BY DEF Decides, LaunchTypeOK
<1>1. starter[p].pc = "locked" /\ lock = p
  BY DEF Decides, LaunchTypeOK
<1>2. dir' = [dir EXCEPT ![n] = [Bare EXCEPT !.state = "torn"]] /\ dir \in [Names -> Dir]
  BY <1>0 DEF Decides, LaunchTypeOK
<1>3. /\ ~Claims(n)'
      /\ \A m \in Names \ {n} : dir'[m] = dir[m]
  BY <1>0, <1>1, <1>2 DEF Claims, Bare, Absent
<1>4. ClaimsAreDisjoint'
  BY <1>3 DEF ClaimsAreDisjoint, Claims
<1>5. /\ starter'[p].pc = "writing" /\ starter'[p].name = n
      /\ starter'[p].port = port /\ starter'[p].cid = cid
      /\ \A r \in Starters \ {p} : starter'[r] = starter[r]
  BY <1>0 DEF Decides, LaunchTypeOK, Starter
<1>6. \A r \in Starters \ {p} : starter[r].pc # "writing"
  BY <1>1 DEF LaunchTypeOK
<1>7. UsedPorts(n)' = UsedPorts(n) /\ UsedCids(n)' = UsedCids(n)
  BY <1>3 DEF UsedPorts, UsedCids, Siblings, Claims
<1>8. port \notin UsedPorts(n)
  BY <1>0 DEF Decides, FreePorts
<1>9. cid # None => cid \notin UsedCids(n)
  <2> SUFFICES ASSUME cid # None PROVE cid \notin UsedCids(n)
    OBVIOUS
  <2>1. cid \in FreeCids(n, starter[p].mode) /\ starter[p].mode # "interactive"
    BY <1>0 DEF Decides, FreeCids
  <2>2. CASE OwnCid(n) # None
    <3>1. Claims(n) /\ cid = dir[n].cid
      BY <2>1, <2>2 DEF FreeCids, OwnCid
    <3> QED BY <1>1, <3>1 DEF ClaimsAreDisjoint, UsedCids, Siblings
  <2>3. CASE OwnCid(n) = None
    BY <2>1, <2>3 DEF FreeCids
  <2> QED BY <2>2, <2>3
<1>10. DecisionsStayValid'
  BY <1>0, <1>5, <1>6, <1>7, <1>8, <1>9 DEF DecisionsStayValid
<1> QED BY <1>4, <1>10

LEMMA ApartAfterRecords ==
  ASSUME ClaimsStayApart, NEW p \in Starters, Records(p)
  PROVE  ClaimsAreDisjoint' /\ DecisionsStayValid'
<1> USE DEF ClaimsStayApart
<1>0. PICK n \in Names : n = starter[p].name
  BY DEF Records, LaunchTypeOK
<1>1. starter[p].pc = "writing" /\ lock = p
  BY DEF Records, LaunchTypeOK
<1>2. \A r \in Starters : starter'[r].pc # "writing"
  <2>1. \A r \in Starters \ {p} : starter'[r] = starter[r] /\ starter[r].pc # "writing"
    BY <1>1 DEF Records, LaunchTypeOK
  <2>2. starter'[p].pc = "recipe"
    BY DEF Records, LaunchTypeOK, Starter
  <2> QED BY <2>1, <2>2
<1>3. DecisionsStayValid'
  BY <1>2 DEF DecisionsStayValid
<1>4. CASE dir[n].state # "torn"
  <2>1. dir' = dir
    BY <1>0, <1>4 DEF Records
  <2> QED BY <1>3, <2>1 DEF ClaimsAreDisjoint, Claims
<1>5. CASE dir[n].state = "torn"
  <2>1. dir'[n].cid = starter[p].cid /\ dir'[n].port = starter[p].port
    BY <1>0, <1>1, <1>5 DEF Records, LaunchTypeOK
  <2>2. \A m \in Names \ {n} : dir'[m] = dir[m]
    BY <1>0, <1>1, <1>5 DEF Records, LaunchTypeOK
  <2>3. \A m \in Names \ {n} : Claims(m) =>
           dir[m].port # starter[p].port /\ (starter[p].cid # None => dir[m].cid # starter[p].cid)
    BY <1>0, <1>1 DEF DecisionsStayValid, UsedPorts, UsedCids, Siblings
  <2>4. ClaimsAreDisjoint'
    BY <2>1, <2>2, <2>3 DEF ClaimsAreDisjoint, Claims
  <2> QED BY <1>3, <2>4
<1> QED BY <1>4, <1>5

LEMMA ApartAfterStart ==
  ASSUME ClaimsStayApart, NEW p \in Starters, Start(p)
  PROVE  ClaimsAreDisjoint' /\ DecisionsStayValid'
<1> USE DEF ClaimsStayApart
<1> DEFINE Fewer ==
      /\ \A n \in Names : Claims(n)' =>
            Claims(n) /\ dir'[n].cid = dir[n].cid /\ dir'[n].port = dir[n].port
      /\ \A r \in Starters : starter'[r].pc = "writing" => starter'[r] = starter[r]
<1>0. Fewer => ClaimsAreDisjoint' /\ DecisionsStayValid'
  BY FewerClaims
<1>1. ASSUME NEW n \in Names, NEW mode \in Modes, Locks(p, n, mode)
      PROVE  Fewer
  BY <1>1 DEF Locks, Idle, Claims, LaunchTypeOK
<1>2. CASE Bails(p) \/ LosesDirs(p) \/ Aborts(p)
  <2>1. Fewer
    BY <1>2 DEF Bails, LosesDirs, Aborts, Idle, Claims, LaunchTypeOK
  <2> QED BY <1>0, <2>1
<1>3. CASE MakesDirs(p)
  <2>1. \A n \in Names : Claims(n)' => Claims(n) /\ dir'[n] = dir[n]
    BY <1>3 DEF MakesDirs, Bare, Absent, Claims, LaunchTypeOK
  <2>2. starter' = [starter EXCEPT ![p] = [starter[p] EXCEPT !.pc = "booting"]]
    BY <1>3 DEF MakesDirs
  <2>3. \A r \in Starters : starter'[r].pc = "writing" => starter'[r] = starter[r]
    BY <2>2 DEF LaunchTypeOK, Starter
  <2>4. Fewer
    BY <2>1, <2>3
  <2> QED BY <1>0, <2>4
<1>4. CASE Boots(p)
  <2>1. dir' = dir
    BY <1>4 DEF Boots
  <2>2. starter'[p].pc \in {"idle", "attached"} /\ \A r \in Starters \ {p} : starter'[r] = starter[r]
    BY <1>4 DEF Boots, LaunchTypeOK, Starter, Idle
  <2>3. Fewer
    BY <2>1, <2>2 DEF Claims
  <2> QED BY <1>0, <2>3
<1>5. CASE Leaves(p)
  <2>1. \A n \in Names : Claims(n)' => Claims(n) /\ dir'[n] = dir[n]
    BY <1>5 DEF Leaves, Absent, Claims, LaunchTypeOK
  <2>2. \A r \in Starters : starter'[r].pc = "writing" => starter'[r] = starter[r]
    BY <1>5 DEF Leaves, Idle, LaunchTypeOK
  <2>3. Fewer
    BY <2>1, <2>2
  <2> QED BY <1>0, <2>3
<1> HIDE DEF Fewer
<1> QED
  BY <1>0, <1>1, <1>2, <1>3, <1>4, <1>5, ApartAfterDecides, ApartAfterRecords DEF Start

LEMMA ApartStep ==
  ClaimsStayApart /\ [LaunchNext]_launchVars => ClaimsStayApart'
<1> SUFFICES ASSUME ClaimsStayApart, [LaunchNext]_launchVars
             PROVE  ClaimsAreDisjoint' /\ DecisionsStayValid'
  BY TypeStep DEF ClaimsStayApart
<1> USE DEF ClaimsStayApart
<1>1. ASSUME NEW p \in Starters, Start(p)
      PROVE  ClaimsAreDisjoint' /\ DecisionsStayValid'
  BY <1>1, ApartAfterStart
<1>2. ASSUME starter' = starter,
             \A n \in Names : Claims(n)' =>
               Claims(n) /\ dir'[n].cid = dir[n].cid /\ dir'[n].port = dir[n].port
      PROVE  ClaimsAreDisjoint' /\ DecisionsStayValid'
  BY <1>2, FewerClaims
<1>3. ASSUME NEW q \in Stoppers, Stop(q)
      PROVE  starter' = starter /\ \A n \in Names : Claims(n)' => Claims(n) /\ dir'[n] = dir[n]
  <2>1. starter' = starter
    BY <1>3 DEF Stop, Asks, Confirms, Doubts, Refuses, Removes, Keeps
  <2>2. dir' = dir \/ dir' = [dir EXCEPT ![stopper[q].name] = Absent]
    BY <1>3 DEF Stop, Asks, Confirms, Doubts, Refuses, Removes, Keeps
  <2> QED BY <2>1, <2>2 DEF Absent, Claims, LaunchTypeOK
<1>4. CASE Prune
  <2>1. starter' = starter /\ \A n \in Names : Claims(n)' => Claims(n) /\ dir'[n] = dir[n]
    BY <1>4 DEF Prune, Sweeps, SweepEnds, PrunesOne, Absent, Claims, LaunchTypeOK
  <2> QED BY <1>2, <2>1
<1>5. CASE Updates
  <2>1. \A n \in Names : Claims(n)' =>
           Claims(n) /\ dir'[n].cid = dir[n].cid /\ dir'[n].port = dir[n].port
    BY <1>5 DEF Updates, Claims, LaunchTypeOK, Dir
  <2> QED BY <1>2, <1>5, <2>1 DEF Updates
<1>6. CASE \/ UNCHANGED launchVars \/ \E c \in Cards : Accepts(c)
          \/ \E n \in Names : Binds(n) \/ VmDies(n)
  <2>1. starter' = starter /\ dir' = dir
    BY <1>6 DEF launchVars, Binds, VmDies, Accepts
  <2> QED BY <1>2, <2>1 DEF Claims
<1> QED
  BY <1>1, <1>2, <1>3, <1>4, <1>5, <1>6 DEF LaunchNext

(* No two starts, in whatever order they lock, decide, write, die and are  *)
(* stopped or swept meanwhile, claim one CID or one port, and a dead start *)
(* does not keep the allocation lock: ClaimsStayApart, for any number of   *)
(* processes and instances.                                                *)
THEOREM ClaimsNeverCollide == LaunchSpec => []ClaimsStayApart
<1>1. LaunchInit => ClaimsStayApart
  <2> SUFFICES ASSUME LaunchInit PROVE ClaimsAreDisjoint /\ DecisionsStayValid
    BY TypeInit DEF ClaimsStayApart
  <2>1. \A n \in Names : ~Claims(n)
    BY DEF LaunchInit, Claims, Absent
  <2>2. \A p \in Starters : starter[p].pc # "writing"
    BY DEF LaunchInit, Idle
  <2> QED BY <2>1, <2>2 DEF ClaimsAreDisjoint, DecisionsStayValid
<1>2. ClaimsStayApart /\ [LaunchNext]_launchVars => ClaimsStayApart'
  BY ApartStep
<1> QED BY <1>1, <1>2, PTL DEF LaunchSpec

-----------------------------------------------------------------------------
(***************************************************************************)
(* An instance that runs is on record, with the CID and port it runs on,   *)
(* as long as no other command got in its way: RunningIsOnRecord.          *)
(*                                                                         *)
(* It is not inductive: that a boot finds the record as its start wrote it *)
(* depends on what other starts, stops and sweeps did since.  Quiet says   *)
(* what holds of an instance that is not upset, at every step of its       *)
(* start.                                                                  *)
(***************************************************************************)

At(p, n) == starter[p].pc # "idle" /\ starter[p].name = n

OnRecord(n, cid, port) == Claims(n) /\ dir[n].cid = cid /\ dir[n].port = port

\* p starts n, and no other start and no stop is about; the record is
\* p's own from its first byte to the boot.
StartsAlone(p, n) ==
  /\ \A r \in Starters : At(r, n) => r = p
  /\ ~Stopping(n)
  /\ starter[p].pc # "attached" => ~vm[n].up
  /\ starter[p].pc = "writing" => dir[n].state = "torn"
  /\ starter[p].pc \in {"recipe", "booting"} => OnRecord(n, starter[p].cid, starter[p].port)

\* A stop has made sure that n is down.
Ending(n) == \E q \in Stoppers : stopper[q].pc = "down" /\ stopper[q].name = n

Reachable(n) == vm[n].bound => runtime[n] = "socket"

Quiet(n) ==
  /\ \A p \in Starters : At(p, n) => StartsAlone(p, n)
  /\ Ending(n) => ~vm[n].up
  /\ vm[n].up => Reachable(n) /\ OnRecord(n, vm[n].cid, vm[n].port)

\* The inductive invariant.
QuietUnlessUpset == LaunchTypeOK /\ \A n \in Names \ upset : Quiet(n)

-----------------------------------------------------------------------------
\* A step elsewhere.
LEMMA QuietKept ==
  ASSUME NEW n \in Names, Quiet(n),
         dir'[n] = dir[n], vm'[n] = vm[n], runtime'[n] = runtime[n],
         \A p \in Starters : At(p, n)' => starter'[p] = starter[p],
         Stopping(n)' => Stopping(n), Ending(n)' => Ending(n)
  PROVE  Quiet(n)'
<1>1. \A p \in Starters : At(p, n)' => At(p, n) /\ starter'[p] = starter[p]
  BY DEF At
<1>2. \A p \in Starters : At(p, n)' => StartsAlone(p, n)'
  BY <1>1 DEF Quiet, StartsAlone, OnRecord, Claims
<1>3. vm'[n].up => Reachable(n)' /\ OnRecord(n, vm[n].cid, vm[n].port)'
  BY DEF Quiet, Reachable, OnRecord, Claims
<1>4. Ending(n)' => ~vm'[n].up
  BY DEF Quiet
<1> QED BY <1>2, <1>3, <1>4 DEF Quiet

\* A step of the one start of n.
LEMMA QuietOwn ==
  ASSUME NEW n \in Names, NEW p \in Starters,
         \A r \in Starters : At(r, n)' => r = p,
         ~Stopping(n)',
         At(p, n)' =>
           /\ starter'[p].pc # "attached" => ~vm'[n].up
           /\ starter'[p].pc = "writing" => dir'[n].state = "torn"
           /\ starter'[p].pc \in {"recipe", "booting"} =>
                OnRecord(n, starter[p].cid, starter[p].port)',
         vm'[n].up => Reachable(n)' /\ OnRecord(n, vm[n].cid, vm[n].port)'
  PROVE  Quiet(n)'
BY DEF Quiet, StartsAlone, Stopping, Ending

LEMMA QuietAfterLocks ==
  ASSUME QuietUnlessUpset, NEW p \in Starters, NEW m \in Names, NEW mode \in Modes,
         Locks(p, m, mode), NEW n \in Names \ upset'
  PROVE  Quiet(n)'
<1> USE DEF QuietUnlessUpset
<1>1. starter' = [starter EXCEPT ![p] = [Idle EXCEPT !.pc = "locked", !.name = m, !.mode = mode]]
  BY DEF Locks
<1>2. /\ starter'[p].pc = "locked" /\ starter'[p].name = m
      /\ \A r \in Starters \ {p} : starter'[r] = starter[r]
  BY <1>1 DEF LaunchTypeOK, Idle
<1>3. dir' = dir /\ vm' = vm /\ runtime' = runtime /\ stopper' = stopper
  BY DEF Locks
<1>4. CASE n # m
  <2>1. Quiet(n)
    BY <1>4 DEF Locks, Settles
  <2>2. \A r \in Starters : At(r, n)' => starter'[r] = starter[r]
    BY <1>2, <1>4 DEF At
  <2> QED BY <1>3, <2>1, <2>2, QuietKept DEF Stopping, Ending
<1>5. CASE n = m
  <2>1. ~vm[n].up /\ ~Starting(n) /\ ~Stopping(n)
    BY <1>5 DEF Locks, Settles
  <2>2. \A r \in Starters : At(r, n)' => r = p
    BY <1>2, <2>1 DEF At, Starting
  <2>3. ~Stopping(n)'
    BY <1>3, <2>1 DEF Stopping
  <2> QED BY <1>2, <1>3, <2>1, <2>2, <2>3, QuietOwn
<1> QED BY <1>4, <1>5

\* Every other step of a start is at the name it has.
LEMMA QuietAfterStart ==
  ASSUME QuietUnlessUpset, NEW p \in Starters, Start(p),
         ~\E m \in Names, mode \in Modes : Locks(p, m, mode),
         NEW n \in Names \ upset'
  PROVE  Quiet(n)'
<1> USE DEF QuietUnlessUpset
<1>1. starter[p].pc # "idle" /\ upset' = upset /\ stopper' = stopper
  BY DEF Start, Decides, Bails, Records, MakesDirs, Boots, LosesDirs, Leaves, Aborts
<1>2. Quiet(n) /\ (Stopping(n)' <=> Stopping(n)) /\ (Ending(n)' <=> Ending(n))
  BY <1>1 DEF Stopping, Ending
<1>3. starter[p].name \in Names
  BY <1>1 DEF LaunchTypeOK
<1>4. /\ \A r \in Starters \ {p} : starter'[r] = starter[r]
      /\ starter'[p].pc # "idle" => starter'[p].name = starter[p].name
  <2>1. CASE Bails(p) \/ LosesDirs(p) \/ Leaves(p) \/ Aborts(p)
    BY <2>1 DEF Bails, LosesDirs, Leaves, Aborts, Idle, LaunchTypeOK
  <2>2. CASE Boots(p)
    BY <2>2 DEF Boots, Idle, LaunchTypeOK, Starter
  <2>3. CASE Records(p) \/ MakesDirs(p)
    BY <2>3 DEF Records, MakesDirs, LaunchTypeOK, Starter
  <2>4. ASSUME NEW port \in Ports, NEW cid \in Cids \cup {None}, Decides(p, port, cid)
        PROVE  /\ \A r \in Starters \ {p} : starter'[r] = starter[r]
               /\ starter'[p].name = starter[p].name
    BY <2>4 DEF Decides, LaunchTypeOK, Starter
  <2> QED BY <2>1, <2>2, <2>3, <2>4 DEF Start
<1>5. CASE starter[p].name # n
  <2>1. \A r \in Starters : At(r, n)' => starter'[r] = starter[r]
    BY <1>4, <1>5 DEF At
  <2>2. dir'[n] = dir[n] /\ vm'[n] = vm[n] /\ runtime'[n] = runtime[n]
    BY <1>5 DEF Start, Decides, Bails, Records, MakesDirs, Boots, LosesDirs, Leaves, Aborts,
                LaunchTypeOK
  <2> QED BY <1>2, <2>1, <2>2, QuietKept
<1>6. CASE starter[p].name = n
  <2>1. StartsAlone(p, n)
    BY <1>1, <1>2, <1>6 DEF Quiet, At
  <2>2. \A r \in Starters : At(r, n)' => r = p
    BY <1>4, <2>1 DEF StartsAlone, At
  <2>3. ~Stopping(n)'
    BY <1>2, <2>1 DEF StartsAlone
  <2>4. ASSUME starter'[p].pc = "idle", dir'[n] = dir[n], vm'[n] = vm[n], runtime'[n] = runtime[n]
        PROVE  Quiet(n)'
    <3>1. vm'[n].up => Reachable(n)' /\ OnRecord(n, vm[n].cid, vm[n].port)'
      BY <1>2, <2>4 DEF Quiet, Reachable, OnRecord, Claims
    <3> QED BY <2>2, <2>3, <2>4, <3>1, QuietOwn DEF At
  <2>5. CASE Bails(p) \/ LosesDirs(p) \/ Aborts(p)
    <3>1. starter'[p].pc = "idle" /\ dir' = dir /\ vm' = vm /\ runtime' = runtime
      BY <2>5 DEF Bails, LosesDirs, Aborts, Idle, LaunchTypeOK
    <3> QED BY <2>4, <3>1
  <2>6. CASE Leaves(p)
    <3>1. starter'[p].pc = "idle" /\ ~vm'[n].up
      BY <1>6, <2>6 DEF Leaves, Idle, Down, LaunchTypeOK
    <3> QED BY <2>2, <2>3, <3>1, QuietOwn DEF At
  <2>7. ASSUME NEW port \in Ports, NEW cid \in Cids \cup {None}, Decides(p, port, cid)
        PROVE  Quiet(n)'
    <3>1. starter'[p].pc = "writing" /\ dir'[n].state = "torn" /\ vm' = vm
      BY <1>6, <2>7 DEF Decides, Bare, Absent, LaunchTypeOK, Starter
    <3>2. ~vm[n].up
      BY <2>1, <2>7 DEF StartsAlone, Decides
    <3> QED BY <2>2, <2>3, <3>1, <3>2, QuietOwn
  <2>8. CASE Records(p)
    <3>1. starter[p].pc = "writing" /\ dir[n].state = "torn" /\ ~vm[n].up /\ vm' = vm
      BY <2>1, <2>8 DEF StartsAlone, Records
    <3>2. starter' = [starter EXCEPT ![p] = [starter[p] EXCEPT !.pc = "recipe"]]
      BY <2>8 DEF Records
    <3>3. /\ starter'[p].pc = "recipe"
          /\ starter'[p].cid = starter[p].cid /\ starter'[p].port = starter[p].port
      BY <3>2 DEF LaunchTypeOK, Starter
    <3>4. dir'[n] = [state |-> "whole", cid |-> starter[p].cid, port |-> starter[p].port]
      BY <1>6, <2>8, <3>1 DEF Records, LaunchTypeOK
    <3>5. OnRecord(n, starter[p].cid, starter[p].port)'
      BY <3>3, <3>4 DEF OnRecord, Claims
    <3> QED BY <2>2, <2>3, <3>1, <3>3, <3>5, QuietOwn
  <2>9. CASE MakesDirs(p)
    <3>1. starter[p].pc = "recipe" /\ ~vm[n].up /\ vm' = vm
      BY <2>1, <2>9 DEF StartsAlone, MakesDirs
    <3>2. OnRecord(n, starter[p].cid, starter[p].port)
      BY <2>1, <3>1 DEF StartsAlone
    <3>3. starter' = [starter EXCEPT ![p] = [starter[p] EXCEPT !.pc = "booting"]]
      BY <2>9 DEF MakesDirs
    <3>4. /\ starter'[p].pc = "booting"
          /\ starter'[p].cid = starter[p].cid /\ starter'[p].port = starter[p].port
      BY <3>3 DEF LaunchTypeOK, Starter
    <3>5. dir' = dir
      BY <1>6, <2>9, <3>2 DEF MakesDirs, OnRecord, Claims
    <3>6. OnRecord(n, starter[p].cid, starter[p].port)'
      BY <3>2, <3>4, <3>5 DEF OnRecord, Claims
    <3> QED BY <2>2, <2>3, <3>1, <3>4, <3>6, QuietOwn
  <2>10. CASE Boots(p)
    <3>1. /\ starter[p].pc = "booting" /\ ~vm[n].up /\ dir' = dir
          /\ OnRecord(n, starter[p].cid, starter[p].port)
      BY <2>1, <2>10 DEF StartsAlone, Boots
    <3>2. starter'[p].pc \in {"idle", "attached"}
      BY <2>10 DEF Boots, Idle, LaunchTypeOK, Starter
    <3>3. vm'[n].up => Reachable(n)' /\ OnRecord(n, vm[n].cid, vm[n].port)'
      <4>1. CASE Clashes(n, starter[p])
        BY <1>6, <2>10, <3>1, <4>1 DEF Boots
      <4>2. CASE ~Clashes(n, starter[p])
        <5>1. vm'[n] = [up |-> TRUE, bound |-> FALSE, cid |-> starter[p].cid,
                        port |-> starter[p].port]
          BY <1>6, <2>10, <4>2 DEF Boots, LaunchTypeOK
        <5> QED BY <3>1, <5>1 DEF Reachable, OnRecord, Claims
      <4> QED BY <4>1, <4>2
    <3>4. starter'[p].pc \notin {"writing", "recipe", "booting"}
      BY <3>2
    <3>5. At(p, n)' => starter'[p].pc = "attached"
      BY <3>2 DEF At
    <3> QED BY <2>2, <2>3, <3>3, <3>4, <3>5, QuietOwn
  <2> QED
    BY <2>5, <2>6, <2>7, <2>8, <2>9, <2>10 DEF Start
<1> QED BY <1>5, <1>6

-----------------------------------------------------------------------------
(* Stops and sweeps.                                                       *)

LEMMA QuietAfterStop ==
  ASSUME QuietUnlessUpset, NEW q \in Stoppers, Stop(q), NEW n \in Names \ upset'
  PROVE  Quiet(n)'
<1> USE DEF QuietUnlessUpset
<1>1. starter' = starter /\ vm' = vm
  BY DEF Stop, Asks, Confirms, Doubts, Refuses, Removes, Keeps
<1>2. \A r \in Starters : At(r, n)' <=> At(r, n)
  BY <1>1 DEF At
<1>3. ASSUME NEW m \in Names, NEW remove \in BOOLEAN, Asks(q, m, remove)
      PROVE  Quiet(n)'
  <2>1. Quiet(n) /\ dir' = dir /\ runtime' = runtime
    BY <1>3 DEF Asks, Upsets
  <2>2. stopper' = [stopper EXCEPT ![q] =
                      [pc |-> IF runtime[m] = "socket" THEN "asked" ELSE "down",
                       name |-> m, remove |-> remove]]
    BY <1>3 DEF Asks
  <2>3. CASE n # m
    <3>1. (Stopping(n)' => Stopping(n)) /\ (Ending(n)' => Ending(n))
      BY <2>2, <2>3 DEF Stopping, Ending, LaunchTypeOK
    <3> QED BY <1>1, <2>1, <3>1, QuietKept
  <2>4. CASE n = m
    <3>1. ~Starting(n) /\ (runtime[n] = "socket" \/ ~vm[n].up)
      BY <1>3, <2>4 DEF Asks, Upsets
    <3>2. \A r \in Starters : ~At(r, n)'
      BY <1>2, <3>1 DEF Starting, At
    <3>3. vm'[n].up => Reachable(n)' /\ OnRecord(n, vm[n].cid, vm[n].port)'
      BY <1>1, <2>1 DEF Quiet, Reachable, OnRecord, Claims
    <3>4. runtime[n] = "socket" => (Ending(n)' => Ending(n))
      BY <2>2, <2>4 DEF Ending, LaunchTypeOK
    <3>5. Ending(n)' => ~vm'[n].up
      BY <1>1, <2>1, <3>1, <3>4 DEF Quiet
    <3> QED BY <3>2, <3>3, <3>5 DEF Quiet
  <2> QED BY <2>3, <2>4
<1>4. CASE Confirms(q) \/ Doubts(q)
  <2>1. Quiet(n) /\ dir' = dir /\ runtime' = runtime
    BY <1>4 DEF Confirms, Doubts, Upsets
  <2>2. /\ stopper[q].pc = "asked"
        /\ stopper' = [stopper EXCEPT ![q] = [stopper[q] EXCEPT !.pc = "down"]]
    BY <1>4 DEF Confirms, Doubts
  <2>3. Stopping(n)' => Stopping(n)
    BY <2>2 DEF Stopping, LaunchTypeOK, Stopper
  <2>4. CASE stopper[q].name # n
    <3>1. Ending(n)' => Ending(n)
      BY <2>2, <2>4 DEF Ending, LaunchTypeOK, Stopper
    <3> QED BY <1>1, <2>1, <2>3, <3>1, QuietKept
  <2>5. CASE stopper[q].name = n
    <3>1. Confirms(q) /\ ~vm[n].up
      BY <1>4, <2>5 DEF Confirms, Doubts, Upsets
    <3>2. Stopping(n)
      BY <2>2, <2>5 DEF Stopping
    <3>3. \A r \in Starters : ~At(r, n)'
      BY <1>2, <2>1, <3>2 DEF Quiet, StartsAlone
    <3> QED BY <1>1, <3>1, <3>3 DEF Quiet
  <2> QED BY <2>4, <2>5
<1>5. CASE Refuses(q)
  <2>1. Quiet(n) /\ dir' = dir /\ runtime' = runtime
    BY <1>5 DEF Refuses
  <2>2. (Stopping(n)' => Stopping(n)) /\ (Ending(n)' => Ending(n))
    BY <1>5 DEF Refuses, Stopping, Ending, StopIdle, LaunchTypeOK
  <2> QED BY <1>1, <2>1, <2>2, QuietKept
<1>6. CASE Removes(q) \/ Keeps(q)
  <2>1. Quiet(n) /\ stopper' = [stopper EXCEPT ![q] = StopIdle]
    BY <1>6 DEF Removes, Keeps
  <2>2. (Stopping(n)' => Stopping(n)) /\ (Ending(n)' => Ending(n))
    BY <2>1 DEF Stopping, Ending, StopIdle, LaunchTypeOK
  <2>3. CASE stopper[q].name # n
    <3>1. dir'[n] = dir[n] /\ runtime'[n] = runtime[n]
      BY <1>6, <2>3 DEF Removes, Keeps, LaunchTypeOK
    <3> QED BY <1>1, <2>1, <2>2, <3>1, QuietKept
  <2>4. CASE stopper[q].name = n
    <3>1. Stopping(n) /\ Ending(n)
      BY <1>6, <2>4 DEF Removes, Keeps, Stopping, Ending
    <3>2. ~vm'[n].up /\ \A r \in Starters : ~At(r, n)'
      BY <1>1, <1>2, <2>1, <3>1 DEF Quiet, StartsAlone
    <3> QED BY <3>2 DEF Quiet
  <2> QED BY <2>3, <2>4
<1> QED BY <1>3, <1>4, <1>5, <1>6 DEF Stop

LEMMA QuietAfterPrune ==
  ASSUME QuietUnlessUpset, Prune, NEW n \in Names \ upset'
  PROVE  Quiet(n)'
<1> USE DEF QuietUnlessUpset
<1>1. starter' = starter /\ stopper' = stopper /\ vm' = vm /\ runtime' = runtime
  BY DEF Prune, Sweeps, SweepEnds, PrunesOne
<1>2. Quiet(n)
  BY DEF Prune, Sweeps, SweepEnds, PrunesOne, Upsets
<1>3. CASE dir'[n] = dir[n]
  BY <1>1, <1>2, <1>3, QuietKept DEF Stopping, Ending
<1>4. CASE dir'[n] # dir[n]
  <2>1. PrunesOne(n)
    BY <1>4 DEF Prune, Sweeps, SweepEnds, PrunesOne, LaunchTypeOK
  <2>2. ~vm[n].up /\ ~Starting(n)
    BY <2>1 DEF PrunesOne, Upsets
  <2>3. ~vm'[n].up /\ \A r \in Starters : ~At(r, n)'
    BY <1>1, <2>2 DEF Starting, At
  <2> QED BY <2>3 DEF Quiet
<1> QED BY <1>3, <1>4

LEMMA QuietStep ==
  QuietUnlessUpset /\ [LaunchNext]_launchVars => QuietUnlessUpset'
<1> SUFFICES ASSUME QuietUnlessUpset, [LaunchNext]_launchVars, NEW n \in Names \ upset'
             PROVE  Quiet(n)'
  BY TypeStep DEF QuietUnlessUpset
<1>1. ASSUME NEW p \in Starters, Start(p) PROVE Quiet(n)'
  BY <1>1, QuietAfterLocks, QuietAfterStart
<1>2. ASSUME NEW q \in Stoppers, Stop(q) PROVE Quiet(n)'
  BY <1>2, QuietAfterStop
<1>3. CASE Prune
  BY <1>3, QuietAfterPrune
<1>4. CASE Updates
  <2>1. starter' = starter /\ stopper' = stopper /\ vm' = vm /\ runtime' = runtime /\ Quiet(n)
    BY <1>4 DEF Updates, QuietUnlessUpset
  <2>2. \A p \in Starters : ~At(p, n)'
    BY <1>4 DEF Updates, At
  <2>3. /\ Claims(n) => Claims(n)'
        /\ dir'[n].cid = dir[n].cid /\ dir'[n].port = dir[n].port
    BY <1>4 DEF Updates, Claims, QuietUnlessUpset, LaunchTypeOK, Dir
  <2>4. vm'[n].up => Reachable(n)' /\ OnRecord(n, vm[n].cid, vm[n].port)'
    BY <2>1, <2>3 DEF Quiet, Reachable, OnRecord
  <2>5. Ending(n)' => ~vm'[n].up
    BY <2>1 DEF Quiet, Ending
  <2> QED BY <2>2, <2>4, <2>5 DEF Quiet
<1>5. ASSUME NEW m \in Names, VmDies(m) \/ Binds(m) PROVE Quiet(n)'
  <2>1. starter' = starter /\ stopper' = stopper /\ dir' = dir /\ Quiet(n)
    BY <1>5 DEF VmDies, Binds, QuietUnlessUpset
  <2>2. CASE n # m
    <3>1. vm'[n] = vm[n] /\ runtime'[n] = runtime[n]
      BY <1>5, <2>2 DEF VmDies, Binds, QuietUnlessUpset, LaunchTypeOK
    <3> QED BY <2>1, <3>1, QuietKept DEF Stopping, Ending
  <2>3. CASE n = m
    <3>1. vm[n] \in Vm /\ vm[n].up
      BY <1>5, <2>3 DEF VmDies, Binds, QuietUnlessUpset, LaunchTypeOK
    <3>2. \/ ~vm'[n].up
          \/ /\ vm'[n].up /\ vm'[n].cid = vm[n].cid /\ vm'[n].port = vm[n].port
             /\ runtime'[n] = "socket"
      BY <1>5, <2>3, <3>1 DEF VmDies, Binds, Down, QuietUnlessUpset, LaunchTypeOK, Vm
    <3>3. \A p \in Starters : At(p, n)' => StartsAlone(p, n)'
      BY <2>1, <3>1, <3>2 DEF Quiet, StartsAlone, At, Stopping, OnRecord, Claims
    <3>4. vm'[n].up => Reachable(n)' /\ OnRecord(n, vm[n].cid, vm[n].port)'
      BY <2>1, <3>1, <3>2 DEF Quiet, Reachable, OnRecord, Claims
    <3>5. Ending(n)' => ~vm'[n].up
      BY <2>1, <3>1 DEF Quiet, Ending
    <3> QED BY <3>3, <3>4, <3>5 DEF Quiet
  <2> QED BY <2>2, <2>3
<1>6. CASE UNCHANGED launchVars \/ \E c \in Cards : Accepts(c)
  <2>1. /\ starter' = starter /\ stopper' = stopper /\ dir' = dir /\ vm' = vm
        /\ runtime' = runtime /\ Quiet(n)
    BY <1>6 DEF launchVars, Accepts, QuietUnlessUpset
  <2> QED BY <2>1, QuietKept DEF Stopping, Ending
<1> QED
  BY <1>1, <1>2, <1>3, <1>4, <1>5, <1>6 DEF LaunchNext

-----------------------------------------------------------------------------
(* An instance that runs, and that no start, stop or sweep got in the way  *)
(* of, is on record with the CID and port it runs on, for any number of    *)
(* processes and instances: RunningIsOnRecord.                             *)
THEOREM RunningInstancesAreOnRecord == LaunchSpec => []RunningIsOnRecord
<1>1. LaunchInit => QuietUnlessUpset
  <2> SUFFICES ASSUME LaunchInit, NEW n \in Names PROVE Quiet(n)
    BY TypeInit DEF QuietUnlessUpset
  <2>1. \A p \in Starters : ~At(p, n)
    BY DEF LaunchInit, Idle, At
  <2>2. ~vm[n].up
    BY DEF LaunchInit, Down
  <2> QED BY <2>1, <2>2 DEF Quiet
<1>2. QuietUnlessUpset /\ [LaunchNext]_launchVars => QuietUnlessUpset'
  BY QuietStep
<1>3. QuietUnlessUpset => RunningIsOnRecord
  BY DEF QuietUnlessUpset, Quiet, Reachable, OnRecord, RunningIsOnRecord
<1> QED BY <1>1, <1>2, <1>3, PTL DEF LaunchSpec

-----------------------------------------------------------------------------
(* Stamps (Calendar).  Rust's division, on numbers that are not negative.  *)

LEMMA QuoBounds ==
  ASSUME NEW a \in Nat, NEW b \in Nat \ {0}
  PROVE  Quo(a, b) \in Nat /\ b * Quo(a, b) <= a /\ a < b * Quo(a, b) + b
BY DEF Quo

LEMMA QuoIs ==
  ASSUME NEW a \in Nat, NEW b \in Nat \ {0}, NEW q \in Int, b * q <= a, a < b * q + b
  PROVE  Quo(a, b) = q
BY DEF Quo

\* The divisors that the algorithms use.
DivideBy(b) == \A a \in Nat : Quo(a, b) \in Nat /\ b * Quo(a, b) <= a /\ a < b * Quo(a, b) + b

LEMMA Divisors ==
  /\ DivideBy(4) /\ DivideBy(5) /\ DivideBy(60) /\ DivideBy(100) /\ DivideBy(153) /\ DivideBy(365)
  /\ DivideBy(400) /\ DivideBy(1460) /\ DivideBy(3600) /\ DivideBy(36524) /\ DivideBy(86400)
  /\ DivideBy(146096) /\ DivideBy(146097)
<1>1. \A b \in Nat \ {0} : DivideBy(b)
  BY QuoBounds DEF DivideBy
<1>2. QED
  BY <1>1

LEMMA ModIs ==
  ASSUME NEW a \in Int, NEW b \in Nat \ {0}, NEW q \in Int, NEW r \in Int, a = b * q + r, 0 <= r, r < b
  PROVE  a % b = r
OBVIOUS

\* A date of the calendar, with the bound that keeps the divisions positive.
IsDate(y, m, x) == y \in Int /\ y >= 1970 /\ m \in 1..12 /\ x \in 1..LengthOf(y, m)

\* The year and the month as the two algorithms count them: from March.
MarchYear(y, m) == IF m <= 2 THEN y - 1 ELSE y
MarchMonth(m) == IF m > 2 THEN m - 3 ELSE m + 9

\* Days before the first of March of a year, and of a month from there on.
YearDays(y) ==
  LET E == Quo(y, 400)
      R == y - E * 400
  IN  E * 146097 + (R * 365 + Quo(R, 4) - Quo(R, 100))
DaysBefore(m) == Quo(153 * MarchMonth(m) + 2, 5)

LEMMA LengthIs ==
  ASSUME NEW y \in Int, NEW m \in 1..12
  PROVE  LengthOf(y, m) \in 28..31
BY DEF LengthOf

LEMMA CivilDays ==
  ASSUME NEW y, NEW m, NEW x, IsDate(y, m, x)
  PROVE  DaysFromCivil(<<y, m, x>>) = YearDays(MarchYear(y, m)) + (DaysBefore(m) + x - 1) - 719468
<1>1. y \in Int /\ m \in 1..12 /\ x \in 1..31 /\ MarchYear(y, m) \in Nat /\ MarchMonth(m) \in 0..11
  BY LengthIs DEF IsDate, MarchYear, MarchMonth
<1> DEFINE Y == MarchYear(y, m)
           E == Quo(Y, 400)
           R == Y - E * 400
           D == Quo(153 * MarchMonth(m) + 2, 5)
           F == Quo(R, 4)
           C == Quo(R, 100)
<1> HIDE DEF Y
<1>0. Y \in Nat
  BY <1>1 DEF Y
<1>2. E \in Nat /\ R \in Nat
  <2>1. DivideBy(400)
    BY Divisors
  <2>2. Quo(Y, 400) \in Nat /\ 400 * Quo(Y, 400) <= Y
    BY <1>0, <2>1 DEF DivideBy
  <2>3. QED
    BY <1>0, <2>2
<1> HIDE DEF R
<1>3. D \in Nat /\ F \in Nat /\ C \in Nat
  <2>1. DivideBy(4) /\ DivideBy(5) /\ DivideBy(100)
    BY Divisors
  <2>2. 153 * MarchMonth(m) + 2 \in Nat
    BY <1>1
  <2>3. D \in Nat
    BY <2>1, <2>2, Zenon DEF DivideBy
  <2>4. F \in Nat
    BY <1>2, <2>1, Zenon DEF DivideBy
  <2>5. C \in Nat
    <3>1. \A a \in Nat : Quo(a, 100) \in Nat
      BY <2>1 DEF DivideBy
    <3>2. QED
      BY <1>2, <3>1
  <2>6. QED
    BY <2>3, <2>4, <2>5
<1>4. DaysFromCivil(<<y, m, x>>) = E * 146097 + ((Y - E * 400) * 365 + F - C + (D + x - 1)) - 719468
  BY <1>1 DEF DaysFromCivil, MarchYear, MarchMonth, Y, R
<1>5. YearDays(Y) = E * 146097 + ((Y - E * 400) * 365 + F - C) /\ DaysBefore(m) = D
  BY DEF YearDays, DaysBefore, R
<1> HIDE DEF E, D, F, C
<1>6. QED
  BY <1>1, <1>0, <1>2, <1>3, <1>4, <1>5 DEF Y

\* The twelve months.
LEMMA DaysBeforeIs ==
  /\ DaysBefore(3) = 0 /\ DaysBefore(4) = 31 /\ DaysBefore(5) = 61 /\ DaysBefore(6) = 92
  /\ DaysBefore(7) = 122 /\ DaysBefore(8) = 153 /\ DaysBefore(9) = 184 /\ DaysBefore(10) = 214
  /\ DaysBefore(11) = 245 /\ DaysBefore(12) = 275 /\ DaysBefore(1) = 306 /\ DaysBefore(2) = 337
<1>1. MarchMonth(3) = 0 /\ MarchMonth(4) = 1 /\ MarchMonth(5) = 2 /\ MarchMonth(6) = 3
      /\ MarchMonth(7) = 4 /\ MarchMonth(8) = 5 /\ MarchMonth(9) = 6 /\ MarchMonth(10) = 7
      /\ MarchMonth(11) = 8 /\ MarchMonth(12) = 9 /\ MarchMonth(1) = 10 /\ MarchMonth(2) = 11
  BY DEF MarchMonth
<1>2. QED
  BY <1>1, QuoIs DEF DaysBefore

LEMMA YearDaysIs ==
  ASSUME NEW y, NEW E, NEW R, E = Quo(y, 400), R = y - E * 400
  PROVE  YearDays(y) = E * 146097 + (R * 365 + Quo(R, 4) - Quo(R, 100))
BY SMT DEF YearDays

\* A year within 400 years, its leap days and its centuries.
InEra(y, E, R, F, C) ==
  /\ y = 400 * E + R
  /\ 4 * F <= R /\ R < 4 * F + 4 /\ F = Quo(R, 4)
  /\ 100 * C <= R /\ R < 100 * C + 100 /\ C = Quo(R, 100)
  /\ E = Quo(y, 400) /\ R = y - E * 400
  /\ YearDays(y) = E * 146097 + (R * 365 + F - C)
  /\ YearDays(y) \in Int

LEMMA YearDaysTyped ==
  ASSUME NEW y \in Nat
  PROVE  \E E \in Nat, R \in 0..399, F \in 0..99, C \in 0..3 : InEra(y, E, R, F, C)
<1> DEFINE E == Quo(y, 400)
           R == y - E * 400
           F == Quo(R, 4)
           C == Quo(R, 100)
<1>1. E \in Nat /\ R \in 0..399
  <2>1. DivideBy(400)
    BY Divisors
  <2>2. Quo(y, 400) \in Nat /\ 400 * Quo(y, 400) <= y /\ y < 400 * Quo(y, 400) + 400
    BY <2>1 DEF DivideBy
  <2>3. \A e \in Nat : 400 * e <= y /\ y < 400 * e + 400 => y - e * 400 \in 0..399
    OBVIOUS
  <2>4. QED
    BY <2>2, <2>3
<1>2. YearDays(y) = E * 146097 + (R * 365 + F - C)
  BY YearDaysIs
<1> HIDE DEF R
<1>3. F \in 0..99 /\ 4 * F <= R /\ R < 4 * F + 4 /\ C \in 0..3 /\ 100 * C <= R /\ R < 100 * C + 100
  <2>1. DivideBy(4) /\ DivideBy(100) /\ R \in Nat
    BY <1>1, Divisors
  <2>2. F \in Nat /\ 4 * F <= R /\ R < 4 * F + 4 /\ C \in Nat /\ 100 * C <= R /\ R < 100 * C + 100
    BY <2>1, Zenon DEF DivideBy
  <2>3. QED
    BY <1>1, <2>2
<1>4. E = Quo(y, 400) /\ F = Quo(R, 4) /\ C = Quo(R, 100)
  OBVIOUS
<1>5. y = 400 * E + R /\ R = y - E * 400
  BY <1>1 DEF R
<1> HIDE DEF E, F, C
<1>6. InEra(y, E, R, F, C)
  BY <1>1, <1>2, <1>3, <1>4, <1>5 DEF InEra
<1>7. QED
  BY <1>1, <1>3, <1>6

\* A year of 365 or 366 days, from March to March.
LEMMA YearDaysStep ==
  ASSUME NEW y \in Nat
  PROVE  YearDays(y + 1) = YearDays(y) + (IF IsLeap(y + 1) THEN 366 ELSE 365)
<1>1. PICK E \in Nat, R \in 0..399, F \in 0..99, C \in 0..3 : InEra(y, E, R, F, C)
  BY YearDaysTyped
<1>2. y = 400 * E + R
  BY <1>1 DEF InEra
<1>3. 4 * F <= R /\ R < 4 * F + 4 /\ 100 * C <= R /\ R < 100 * C + 100
  BY <1>1 DEF InEra
<1>4. YearDays(y) = E * 146097 + (R * 365 + F - C)
  BY <1>1 DEF InEra
<1>5. CASE R = 399
  <2>1. Quo(y + 1, 400) = E + 1
    BY <1>2, <1>5, QuoIs
  <2>2. F = 99 /\ C = 3
    BY <1>3, <1>5
  <2>3. Quo(0, 4) = 0 /\ Quo(0, 100) = 0
    BY DEF Quo
  <2>4. y + 1 - (E + 1) * 400 = 0
    BY <1>2, <1>5
  <2>5. YearDays(y + 1) = (E + 1) * 146097 + (0 * 365 + Quo(0, 4) - Quo(0, 100))
    BY <2>1, <2>4, YearDaysIs
  <2>6. IsLeap(y + 1)
    <3>1. y + 1 = 4 * (100 * E + 100) + 0 /\ y + 1 = 400 * (E + 1) + 0
      BY <1>2, <1>5
    <3>2. (y + 1) % 4 = 0 /\ (y + 1) % 400 = 0
      BY <3>1, ModIs
    <3>3. QED
      BY <3>2 DEF IsLeap
  <2>7. QED
    BY <1>4, <1>5, <2>2, <2>3, <2>5, <2>6
<1>6. CASE R # 399
  <2>1. Quo(y + 1, 400) = E
    BY <1>2, <1>6, QuoIs
  <2>2. R + 1 = y + 1 - E * 400
    BY <1>2
  <2>3. YearDays(y + 1) = E * 146097 + ((R + 1) * 365 + Quo(R + 1, 4) - Quo(R + 1, 100))
    BY <2>1, <2>2, YearDaysIs
  <2> DEFINE four == R = 4 * F + 3
             hundred == R = 100 * C + 99
  <2>4. Quo(R + 1, 4) = F + (IF four THEN 1 ELSE 0)
    <3>1. CASE four
      BY <3>1, QuoIs
    <3>2. CASE ~four
      BY <1>3, <3>2, QuoIs
    <3>3. QED
      BY <3>1, <3>2
  <2>5. Quo(R + 1, 100) = C + (IF hundred THEN 1 ELSE 0)
    <3>1. CASE hundred
      BY <3>1, QuoIs
    <3>2. CASE ~hundred
      BY <1>3, <3>2, QuoIs
    <3>3. QED
      BY <3>1, <3>2
  <2>6. (y + 1) % 4 = 0 <=> four
    BY <1>2, <1>3
  <2>7. (y + 1) % 100 = 0 <=> hundred
    BY <1>2, <1>3
  <2>8. (y + 1) % 400 # 0
    BY <1>2, <1>6
  <2>9. hundred => four
    BY <1>3
  <2>10. IsLeap(y + 1) <=> four /\ ~hundred
    BY <2>6, <2>7, <2>8 DEF IsLeap
  <2> HIDE DEF four, hundred
  <2>11. QED
    BY <1>4, <2>3, <2>4, <2>5, <2>9, <2>10
<1>7. QED
  BY <1>5, <1>6

\* The arithmetic on days follows the calendar.
LEMMA NextDay ==
  ASSUME NEW y, NEW m, NEW x, IsDate(y, m, x)
  PROVE  \E Y, M, X :
           /\ Morrow(<<y, m, x>>) = <<Y, M, X>>
           /\ IsDate(Y, M, X)
           /\ DaysFromCivil(<<Y, M, X>>) = DaysFromCivil(<<y, m, x>>) + 1
           /\ Y > y \/ (Y = y /\ M > m) \/ (Y = y /\ M = m /\ X > x)
<1>1. y \in Int /\ y >= 1970 /\ m \in 1..12 /\ x \in 1..31 /\ x <= LengthOf(y, m) /\ LengthOf(y, m) \in 28..31
  BY LengthIs DEF IsDate
<1>2. YearDays(y - 1) \in Int /\ YearDays(y) \in Int
  <2>1. y - 1 \in Nat /\ y \in Nat
    BY <1>1
  <2>2. QED
    BY <2>1, YearDaysTyped DEF InEra
<1>3. DaysBefore(m) \in Int
  BY <1>1, DaysBeforeIs
<1>4. CASE x < LengthOf(y, m)
  <2>1. Morrow(<<y, m, x>>) = <<y, m, x + 1>>
    BY <1>4 DEF Morrow
  <2>2. IsDate(y, m, x + 1)
    BY <1>1, <1>4 DEF IsDate
  <2>3. DaysFromCivil(<<y, m, x + 1>>) = DaysFromCivil(<<y, m, x>>) + 1
    BY <1>1, <1>2, <1>3, <2>2, CivilDays DEF MarchYear
  <2>4. QED
    BY <1>1, <2>1, <2>2, <2>3
<1>5. CASE x = LengthOf(y, m) /\ m < 12
  <2>1. Morrow(<<y, m, x>>) = <<y, m + 1, 1>>
    BY <1>1, <1>5 DEF Morrow
  <2>2. IsDate(y, m + 1, 1)
    BY <1>1, <1>5, LengthIs DEF IsDate
  <2>3. CASE m = 2
    <3>1. y - 1 \in Nat /\ y - 1 + 1 = y
      BY <1>1
    <3>2. YearDays(y) = YearDays(y - 1) + (IF IsLeap(y) THEN 366 ELSE 365)
      BY <3>1, YearDaysStep
    <3>3. x = IF IsLeap(y) THEN 29 ELSE 28
      BY <1>5, <2>3 DEF LengthOf
    <3>4. /\ DaysFromCivil(<<y, m, x>>) = YearDays(y - 1) + (337 + x - 1) - 719468
          /\ DaysFromCivil(<<y, m + 1, 1>>) = YearDays(y) + (0 + 1 - 1) - 719468
      BY <2>2, <2>3, CivilDays, DaysBeforeIs DEF MarchYear
    <3>5. DaysFromCivil(<<y, m + 1, 1>>) = DaysFromCivil(<<y, m, x>>) + 1
      BY <1>1, <1>2, <3>2, <3>3, <3>4
    <3>6. QED
      BY <1>1, <2>1, <2>2, <3>5
  <2>4. CASE m # 2
    <3>1. x = LengthOf(y, m) /\ MarchYear(y, m + 1) = MarchYear(y, m)
      BY <1>1, <1>5, <2>4 DEF MarchYear
    <3>2. DaysBefore(m + 1) = DaysBefore(m) + LengthOf(y, m)
      BY <1>1, <1>5, <2>4, DaysBeforeIs DEF LengthOf
    <3>3. YearDays(MarchYear(y, m)) \in Int
      BY <1>2 DEF MarchYear
    <3>4. DaysFromCivil(<<y, m + 1, 1>>) = DaysFromCivil(<<y, m, x>>) + 1
      BY <1>1, <1>3, <2>2, <3>1, <3>2, <3>3, CivilDays
    <3>5. QED
      BY <1>1, <2>1, <2>2, <3>4
  <2>5. QED
    BY <2>3, <2>4
<1>6. CASE x = LengthOf(y, m) /\ m = 12
  <2>1. Morrow(<<y, m, x>>) = <<y + 1, 1, 1>>
    BY <1>1, <1>6 DEF Morrow
  <2>2. IsDate(y + 1, 1, 1)
    BY <1>1, LengthIs DEF IsDate
  <2>3. MarchYear(y + 1, 1) = y /\ MarchYear(y, 12) = y /\ x = 31
    BY <1>1, <1>6 DEF MarchYear, LengthOf
  <2>4. DaysFromCivil(<<y + 1, 1, 1>>) = DaysFromCivil(<<y, m, x>>) + 1
    BY <1>2, <1>6, <2>2, <2>3, CivilDays, DaysBeforeIs
  <2>5. QED
    BY <1>1, <2>1, <2>2, <2>4
<1>7. x < LengthOf(y, m) \/ (x = LengthOf(y, m) /\ m < 12) \/ (x = LengthOf(y, m) /\ m = 12)
  BY <1>1
<1>8. QED
  BY <1>4, <1>5, <1>6, <1>7, Zenon

-----------------------------------------------------------------------------
(* Back from days to dates.                                                *)

\* What the algorithm computes, one name at a time.
CivilSteps(days, z, E, doe, yoe, doy, mp, m) ==
  /\ z = days + 719468 /\ z >= 0 /\ E = Quo(z, 146097) /\ doe = z - E * 146097
  /\ yoe = Quo(doe - Quo(doe, 1460) + Quo(doe, 36524) - Quo(doe, 146096), 365)
  /\ doy = doe - (365 * yoe + Quo(yoe, 4) - Quo(yoe, 100))
  /\ mp = Quo(5 * doy + 2, 153) /\ m = IF mp < 10 THEN mp + 3 ELSE mp - 9

LEMMA CivilIs ==
  ASSUME NEW days, NEW z, NEW E, NEW doe, NEW yoe, NEW doy, NEW mp, NEW m,
         CivilSteps(days, z, E, doe, yoe, doy, mp, m)
  PROVE  CivilFromDays(days) = <<yoe + E * 400 + (IF m <= 2 THEN 1 ELSE 0), m, doy - Quo(153 * mp + 2, 5) + 1>>
BY SMT DEF CivilFromDays, CivilSteps

\* The year of a day of the 400 years: the four corrections leave a day of it.
\* Only the last day of a leap year has the number 365, and the last of all
\* would begin another century.
DayOfEra(C, A, B, doy, doe) ==
  /\ C \in 0..3 /\ A \in 0..24 /\ B \in 0..3 /\ doy \in 0..365
  /\ doy = 365 => B = 3 /\ (A < 24 \/ C = 3)
  /\ doe = 36524 * C + 1461 * A + 365 * B + doy

LEMMA YearOfEra ==
  ASSUME NEW C, NEW A, NEW B, NEW doy, NEW doe, DayOfEra(C, A, B, doy, doe)
  PROVE  /\ doe \in Nat /\ doe <= 146096
         /\ Quo(doe - Quo(doe, 1460) + Quo(doe, 36524) - Quo(doe, 146096), 365) = 100 * C + 4 * A + B
<1>1. C \in 0..3 /\ A \in 0..24 /\ B \in 0..3 /\ doy \in 0..365
  BY DEF DayOfEra
<1>2. doy = 365 => B = 3 /\ (A < 24 \/ C = 3)
  BY DEF DayOfEra
<1>3. doe = 36524 * C + 1461 * A + 365 * B + doy /\ doe \in Int
  BY <1>1 DEF DayOfEra
<1> USE <1>1, <1>2, <1>3
<1> DEFINE t == IF 24 * C + A + 365 * B + doy >= 1460 THEN 1 ELSE 0
           last == C = 3 /\ A = 24 /\ B = 3 /\ doy = 365
<1>4. doe \in Nat /\ doe <= 146096
  <2>1. 0 <= 36524 * C /\ 36524 * C <= 109572 /\ 0 <= 1461 * A /\ 1461 * A <= 35064
        /\ 0 <= 365 * B /\ 365 * B <= 1095
    OBVIOUS
  <2>2. QED
    BY <2>1
<1>5. Quo(doe, 1460) = 25 * C + A + t
  <2>0. 25 * C + A + t \in Int
    OBVIOUS
  <2>1. t \in 0..1 /\ 1460 * (25 * C + A + t) <= doe /\ doe < 1460 * (25 * C + A + t) + 1460
    OBVIOUS
  <2> HIDE DEF t
  <2>2. QED
    BY <1>4, <2>0, <2>1, QuoIs
<1>6. Quo(doe, 36524) = IF last THEN 4 ELSE C
  <2>1. CASE last
    BY <1>4, <2>1, QuoIs
  <2>2. CASE ~last
    <3>1. 36524 * C <= doe /\ doe < 36524 * C + 36524
      BY <2>2
    <3>2. Quo(doe, 36524) = C
      BY <1>4, <3>1, QuoIs
    <3>3. QED
      BY <2>2, <3>2
  <2>3. QED
    BY <2>1, <2>2
<1>7. Quo(doe, 146096) = IF last THEN 1 ELSE 0
  <2>1. CASE last
    BY <1>4, <2>1, QuoIs
  <2>2. CASE ~last
    <3>1. doe < 146096
      BY <2>2
    <3>2. Quo(doe, 146096) = 0
      BY <1>4, <3>1, QuoIs
    <3>3. QED
      BY <2>2, <3>2
  <2>3. QED
    BY <2>1, <2>2
<1>8. t \in 0..1 /\ 0 <= doy - t /\ doy - t < 365
  OBVIOUS
<1>9. last => C = 3
  OBVIOUS
<1> HIDE DEF t, last
<1>10. doe - Quo(doe, 1460) + Quo(doe, 36524) - Quo(doe, 146096) = 365 * (100 * C + 4 * A + B) + (doy - t)
  BY <1>5, <1>6, <1>7, <1>8, <1>9
<1> DEFINE n == 365 * (100 * C + 4 * A + B) + (doy - t)
           q == 100 * C + 4 * A + B
<1>11. n \in Nat /\ q \in Int /\ 365 * q <= n /\ n < 365 * q + 365
  BY <1>8
<1>12. Quo(n, 365) = q
  <2> HIDE DEF n, q
  <2>1. QED
    BY <1>11, QuoIs
<1>13. doe - Quo(doe, 1460) + Quo(doe, 36524) - Quo(doe, 146096) = n
  BY <1>10
<1> HIDE DEF n
<1>14. QED
  BY <1>4, <1>12, <1>13

\* The day and the month fit the arithmetic on days.
DayFits(m, x) ==
  /\ Quo(5 * (DaysBefore(m) + x - 1) + 2, 153) = MarchMonth(m)
  /\ DaysBefore(m) + x - 1 \in 0..365
  /\ DaysBefore(m) + x - 1 = 365 <=> m = 2 /\ x = 29

\* The month of a day of the year.
LEMMA MonthOfYear ==
  ASSUME NEW m \in 1..12, NEW x \in 1..31, m \in {4, 6, 9, 11} => x <= 30, m = 2 => x <= 29
  PROVE  DayFits(m, x)
<1> DEFINE doy == DaysBefore(m) + x - 1
<1>1. /\ doy \in 0..365
      /\ doy = 365 <=> m = 2 /\ x = 29
      /\ 153 * MarchMonth(m) <= 5 * doy + 2 /\ 5 * doy + 2 < 153 * MarchMonth(m) + 153
  BY DaysBeforeIs DEF MarchMonth
<1>2. MarchMonth(m) \in Int
  BY DEF MarchMonth
<1> HIDE DEF doy
<1>3. Quo(5 * doy + 2, 153) = MarchMonth(m)
  BY <1>1, <1>2, QuoIs
<1>4. QED
  BY <1>1, <1>3 DEF doy, DayFits

\* The arithmetic on days and its inverse agree on every date.
LEMMA CivilBack ==
  ASSUME NEW y, NEW m, NEW x, IsDate(y, m, x)
  PROVE  /\ CivilFromDays(DaysFromCivil(<<y, m, x>>)) = <<y, m, x>>
         /\ DaysFromCivil(<<y, m, x>>) \in Int
         /\ y >= 10000 => DaysFromCivil(<<y, m, x>>) > 2932896
<1> DEFINE Y == MarchYear(y, m)
           doy == DaysBefore(m) + x - 1
<1>1. y \in Int /\ y >= 1970 /\ m \in 1..12 /\ x \in 1..31 /\ x <= LengthOf(y, m)
  BY LengthIs DEF IsDate
<1>2. Y \in Nat /\ Y >= 1969 /\ y = Y + (IF m <= 2 THEN 1 ELSE 0)
  BY <1>1 DEF MarchYear
<1>3. m \in {4, 6, 9, 11} => x <= 30
  BY <1>1 DEF LengthOf
<1>4. m = 2 => x <= 29 /\ (x = 29 => IsLeap(y))
  BY <1>1 DEF LengthOf
<1>5. /\ Quo(5 * doy + 2, 153) = MarchMonth(m)
      /\ doy \in 0..365
      /\ doy = 365 <=> m = 2 /\ x = 29
  <2> HIDE DEF Y
  <2>1. m \in 1..12 /\ x \in 1..31 /\ (m = 2 => x <= 29)
    BY <1>1, <1>4
  <2>2. DayFits(m, x)
    <3> HIDE DEF doy
    <3>1. QED
      BY <1>3, <2>1, MonthOfYear, Zenon
  <2>3. QED
    BY <2>2 DEF DayFits
<1>6. doy - Quo(153 * MarchMonth(m) + 2, 5) + 1 = x
  BY <1>1, DaysBeforeIs DEF DaysBefore
<1>7. DaysFromCivil(<<y, m, x>>) = YearDays(Y) + doy - 719468
  BY CivilDays
<1> HIDE DEF doy, Y
<1>8. PICK E \in Nat, R \in 0..399, F \in 0..99, C \in 0..3 : InEra(Y, E, R, F, C)
  <2>1. Y \in Nat
    BY <1>2
  <2>2. QED
    BY <2>1, YearDaysTyped
<1>9. Y = 400 * E + R
  BY <1>8 DEF InEra
<1>10. 4 * F <= R /\ R < 4 * F + 4 /\ 100 * C <= R /\ R < 100 * C + 100
  BY <1>8 DEF InEra
<1>11. YearDays(Y) = E * 146097 + (R * 365 + F - C)
  BY <1>8 DEF InEra
<1>12. F = Quo(R, 4) /\ C = Quo(R, 100)
  BY <1>8 DEF InEra
<1> DEFINE A == F - 25 * C
           B == R - 4 * F
           doe == 36524 * C + 1461 * A + 365 * B + doy
           days == DaysFromCivil(<<y, m, x>>)
<1>13. A \in 0..24 /\ B \in 0..3 /\ R = 100 * C + 4 * A + B
  BY <1>10
<1>14. doe = R * 365 + F - C + doy
  BY <1>5, <1>13
<1>15. doy = 365 => B = 3 /\ (A < 24 \/ C = 3)
  <2>1. SUFFICES ASSUME doy = 365 PROVE B = 3 /\ (A < 24 \/ C = 3)
    OBVIOUS
  <2>2. m = 2 /\ IsLeap(Y + 1)
    BY <1>2, <1>4, <1>5, <2>1
  <2> HIDE DEF A, B
  <2>3. B = 3
    <3>1. (Y + 1) % 4 = 0
      BY <2>2 DEF IsLeap
    <3>2. Y + 1 = 4 * (100 * E + 25 * C + A) + (B + 1)
      BY <1>9, <1>13
    <3>3. B # 3 => (Y + 1) % 4 = B + 1
      BY <1>2, <1>13, <3>2
    <3>4. QED
      BY <1>13, <3>1, <3>3
  <2>4. ASSUME A = 24, C # 3 PROVE FALSE
    <3>1. Y + 1 = 100 * (4 * E + C + 1) + 0 /\ Y + 1 = 400 * E + 100 * (C + 1)
      BY <1>9, <1>13, <2>3, <2>4
    <3>2. (Y + 1) % 100 = 0
      BY <1>2, <3>1, ModIs
    <3>3. (Y + 1) % 400 = 100 * (C + 1)
      BY <1>2, <2>4, <3>1
    <3>4. QED
      BY <2>2, <3>2, <3>3 DEF IsLeap
  <2>5. QED
    BY <1>13, <2>3, <2>4
<1>16. doe \in Int
  BY <1>5, <1>13
<1>17. /\ doe \in Nat /\ doe <= 146096
       /\ Quo(doe - Quo(doe, 1460) + Quo(doe, 36524) - Quo(doe, 146096), 365) = R
  <2>1. doe = 36524 * C + 1461 * A + 365 * B + doy
    OBVIOUS
  <2> HIDE DEF doe, A, B
  <2>2. doy \in 0..365
    BY <1>5
  <2>3. A \in 0..24 /\ B \in 0..3
    BY <1>13
  <2>4. /\ doe \in Nat /\ doe <= 146096
        /\ Quo(doe - Quo(doe, 1460) + Quo(doe, 36524) - Quo(doe, 146096), 365) = 100 * C + 4 * A + B
    <3>1. DayOfEra(C, A, B, doy, doe)
      BY <1>15, <2>1, <2>2, <2>3 DEF DayOfEra
    <3>2. QED
      BY <3>1, YearOfEra
  <2>5. QED
    BY <1>13, <2>4
<1> HIDE DEF doe, A, B
<1>18. days = E * 146097 + doe - 719468
  BY <1>5, <1>7, <1>11, <1>14, <1>16
<1>19. days \in Int
  BY <1>16, <1>18
<1>20. days + 719468 = 146097 * E + doe /\ days + 719468 \in Nat
  BY <1>16, <1>17, <1>18
<1> HIDE DEF days
<1>21. Quo(days + 719468, 146097) = E
  BY <1>17, <1>20, QuoIs
<1>22. doe - (365 * R + Quo(R, 4) - Quo(R, 100)) = doy
  BY <1>5, <1>12, <1>14, <1>16
<1>23. m = IF MarchMonth(m) < 10 THEN MarchMonth(m) + 3 ELSE MarchMonth(m) - 9
  BY <1>1 DEF MarchMonth
<1>24. R + E * 400 + (IF m <= 2 THEN 1 ELSE 0) = y
  BY <1>1, <1>2, <1>9
<1>25. CivilFromDays(days) = <<R + E * 400 + (IF m <= 2 THEN 1 ELSE 0), m,
                               doy - Quo(153 * MarchMonth(m) + 2, 5) + 1>>
  <2> DEFINE z == days + 719468
  <2>1. z = days + 719468 /\ z >= 0
    BY <1>20
  <2>2. MarchMonth(m) = Quo(5 * doy + 2, 153)
    BY <1>5
  <2>3. R = Quo(doe - Quo(doe, 1460) + Quo(doe, 36524) - Quo(doe, 146096), 365)
    BY <1>17
  <2>4. doy = doe - (365 * R + Quo(R, 4) - Quo(R, 100)) /\ E = Quo(z, 146097)
    BY <1>21, <1>22
  <2> HIDE DEF z
  <2>5. doe = z - E * 146097
    BY <1>16, <1>18, <1>19, <2>1
  <2>6. CivilSteps(days, z, E, doe, R, doy, MarchMonth(m), m)
    BY <1>23, <2>1, <2>2, <2>3, <2>4, <2>5, SMT DEF CivilSteps
  <2>7. QED
    BY <2>6, CivilIs
<1>26. CivilFromDays(days) = <<y, m, x>>
  BY <1>6, <1>24, <1>25
<1>27. y >= 10000 => days > 2932896
  <2>1. SUFFICES ASSUME y >= 10000 PROVE days > 2932896
    OBVIOUS
  <2>2. CASE Y >= 10000
    <3>1. E >= 25
      BY <1>2, <1>9, <2>2
    <3>2. QED
      BY <1>17, <1>18, <3>1
  <2>3. CASE Y < 10000
    <3>1. Y = 9999 /\ m <= 2
      BY <1>1, <1>2, <2>1, <2>3
    <3>2. E = 24 /\ R = 399
      BY <1>9, <3>1
    <3>3. F = 99 /\ C = 3
      BY <1>10, <3>2
    <3>4. doy >= 306
      BY <1>1, <3>1, DaysBeforeIs DEF doy
    <3>5. doe = 145731 + doy
      BY <1>5, <1>14, <3>2, <3>3
    <3>6. QED
      BY <1>5, <1>18, <3>2, <3>4, <3>5
  <2>4. QED
    BY <1>2, <2>2, <2>3
<1>28. QED
  BY <1>19, <1>26, <1>27 DEF days

-----------------------------------------------------------------------------
(* Time.                                                                   *)

\* What is kept: the day and the calendar agree, and a stamp tells its age.
DateKept == \E y, m, x : date = <<y, m, x>> /\ IsDate(y, m, x) /\ DaysFromCivil(date) = day
StampKept ==
  stamp # <<>> =>
    /\ Readable(stamp) /\ DaysFromCivil(SubSeq(stamp, 1, 3)) \in Int
    /\ Elapsed(stamp) = age

CalendarInv ==
  /\ day \in Nat /\ day <= LastDay /\ secs \in Seconds
  /\ age \in Nat /\ age <= MaxAge
  /\ DateKept /\ StampKept

\* The fields of a stamp.
LEMMA TimeOfDay ==
  ASSUME NEW s \in Seconds
  PROVE  /\ Quo(s, 3600) \in 0..23 /\ Quo(s % 3600, 60) \in 0..59 /\ s % 60 \in 0..59
         /\ 3600 * Quo(s, 3600) + 60 * Quo(s % 3600, 60) + (s % 60) = s
<1>1. s \in Nat /\ s < 86400
  BY DEF Seconds
<1>2. Quo(s, 3600) = s \div 3600 /\ s % 3600 \in Nat
  BY <1>1 DEF Quo
<1>3. Quo(s % 3600, 60) = (s % 3600) \div 60
  BY <1>2, SMTT(20) DEF Quo
<1> DEFINE h == s \div 3600
           r == s % 3600
           n == r \div 60
           k == r % 60
<1>4. h \in 0..23 /\ r \in 0..3599 /\ s = 3600 * h + r
  BY <1>1
<1> HIDE DEF h, r
<1>5. n \in 0..59 /\ k \in 0..59 /\ r = 60 * n + k
  BY <1>4
<1> HIDE DEF n, k
<1>6. s = 60 * (60 * h + n) + k
  BY <1>4, <1>5
<1>7. s % 60 = k
  BY <1>1, <1>4, <1>5, <1>6, ModIs
<1>8. Quo(s, 3600) = h /\ Quo(s % 3600, 60) = n
  BY <1>2, <1>3 DEF h, r, n
<1>9. QED
  BY <1>4, <1>5, <1>6, <1>7, <1>8

Six(y, m, x, a, b, c) == y \in Int /\ m \in Int /\ x \in Int /\ a \in Int /\ b \in Int /\ c \in Int

LEMMA Sixfold ==
  ASSUME NEW y, NEW m, NEW x, NEW a, NEW b, NEW c, Six(y, m, x, a, b, c)
  PROVE  /\ <<y, m, x>> \o <<a, b, c>> = <<y, m, x, a, b, c>>
         /\ SubSeq(<<y, m, x, a, b, c>>, 1, 3) = <<y, m, x>>
<1> DEFINE s == <<y, m, x>>  t == <<a, b, c>>  u == <<y, m, x, a, b, c>>
<1>1. s \in Seq(Int) /\ t \in Seq(Int) /\ u \in Seq(Int) /\ Len(s) = 3 /\ Len(t) = 3 /\ Len(u) = 6
  BY DEF Six
<1>2. s \o t \in Seq(Int) /\ Len(s \o t) = 6
  BY <1>1, ConcatProperties
<1>3. \A i \in 1..6 : (s \o t)[i] = u[i]
  <2> SUFFICES ASSUME NEW i \in 1..6 PROVE (s \o t)[i] = u[i]
    OBVIOUS
  <2>1. (s \o t)[i] = IF i <= 3 THEN s[i] ELSE t[i - 3]
    BY <1>1, ConcatProperties
  <2>2. QED
    BY <2>1
<1>4. s \o t = u
  BY <1>1, <1>2, <1>3, SeqEqual
<1>5. SubSeq(u, 1, 3) \in Seq(Int) /\ Len(SubSeq(u, 1, 3)) = 3 /\ \A i \in 1..3 : SubSeq(u, 1, 3)[i] = u[i]
  BY <1>1, SubSeqProperties
<1>6. \A i \in 1..3 : SubSeq(u, 1, 3)[i] = s[i]
  BY <1>5
<1>7. SubSeq(u, 1, 3) = s
  BY <1>1, <1>5, <1>6, SeqEqual
<1>8. QED
  BY <1>4, <1>7

LEMMA StampIs ==
  ASSUME NEW y, NEW m, NEW x, IsDate(y, m, x), NEW d, d = DaysFromCivil(<<y, m, x>>), NEW s \in Seconds
  PROVE  /\ Stamp(d, s) = <<y, m, x, Quo(s, 3600), Quo(s % 3600, 60), s % 60>>
         /\ SubSeq(Stamp(d, s), 1, 3) = <<y, m, x>>
         /\ Readable(Stamp(d, s))
<1>1. y \in Int /\ m \in 1..12 /\ x \in 1..31
  BY LengthIs DEF IsDate
<1> DEFINE a == Quo(s, 3600)  b == Quo(s % 3600, 60)  c == s % 60
<1>2. a \in 0..23 /\ b \in 0..59 /\ c \in 0..59
  BY TimeOfDay
<1>3. CivilFromDays(d) = <<y, m, x>>
  BY CivilBack
<1>4. Stamp(d, s) = CivilFromDays(d) \o <<a, b, c>>
  BY DEF Stamp
<1> HIDE DEF a, b, c
<1>5. Stamp(d, s) = <<y, m, x, a, b, c>> /\ SubSeq(<<y, m, x, a, b, c>>, 1, 3) = <<y, m, x>>
  <2>1. Six(y, m, x, a, b, c)
    BY <1>1, <1>2 DEF Six
  <2>2. Stamp(d, s) = <<y, m, x>> \o <<a, b, c>>
    BY <1>3, <1>4
  <2>3. /\ <<y, m, x>> \o <<a, b, c>> = <<y, m, x, a, b, c>>
        /\ SubSeq(<<y, m, x, a, b, c>>, 1, 3) = <<y, m, x>>
    BY <2>1, Sixfold
  <2>4. QED
    BY <2>2, <2>3, Zenon
<1>6. Readable(<<y, m, x, a, b, c>>)
  BY <1>1, <1>2 DEF Readable
<1>7. QED
  BY <1>5, <1>6 DEF a, b, c

\* Seconds that pass, within a day or over midnight, are seconds of age.
LEMMA ReadableFields ==
  ASSUME NEW t, Readable(t)
  PROVE  t[4] \in 0..23 /\ t[5] \in 0..59 /\ t[6] \in 0..59
BY DEF Readable

ClockTyped == day \in Int /\ day' \in Int /\ secs \in Int /\ secs' \in Int

Elapses(n) ==
  /\ Ages(n) /\ UNCHANGED stamp
  /\ 86400 * day' + secs' = 86400 * day + secs + n

LEMMA StampAges ==
  ASSUME StampKept, ClockTyped, NEW n, n \in Nat, Elapses(n)
  PROVE  StampKept'
<1> SUFFICES ASSUME stamp # <<>>
             PROVE  Readable(stamp) /\ DaysFromCivil(SubSeq(stamp, 1, 3)) \in Int /\ (Elapsed(stamp) = age)'
  BY DEF StampKept, Elapses
<1>1. Readable(stamp)
  BY DEF StampKept
<1>2. DaysFromCivil(SubSeq(stamp, 1, 3)) \in Int /\ Elapsed(stamp) = age
  BY DEF StampKept
<1>3. age' = age + n /\ stamp' = stamp
  BY DEF Ages, Elapses
<1>4. PICK H \in Int, M \in Int, S \in Int : H = stamp[4] /\ M = stamp[5] /\ S = stamp[6]
  <2>1. PICK h, m, s : /\ h = stamp[4] /\ m = stamp[5] /\ s = stamp[6]
                       /\ h \in 0..23 /\ m \in 0..59 /\ s \in 0..59
    BY <1>1, ReadableFields
  <2>2. h \in Int /\ m \in Int /\ s \in Int
    BY <2>1
  <2>3. QED
    BY <2>1, <2>2
<1>5. PICK D \in Int : D = DaysFromCivil(SubSeq(stamp, 1, 3))
  BY <1>2
<1>6. Elapsed(stamp) = secs - ((D - day) * 86400 + H * 3600 + M * 60 + S)
  BY <1>4, <1>5 DEF Elapsed, Parsed3339
<1>7. Elapsed(stamp)' = secs' - ((D - day') * 86400 + H * 3600 + M * 60 + S)
  BY <1>3, <1>4, <1>5 DEF Elapsed, Parsed3339
<1>8. 86400 * day' + secs' = 86400 * day + secs + n
  BY DEF Elapses
<1>9. Elapsed(stamp)' = Elapsed(stamp) + n
  <2>1. PICK d, e, s, r : d = day /\ e = day' /\ s = secs /\ r = secs'
    OBVIOUS
  <2>2. 86400 * e + r = 86400 * d + s + n
    BY <1>8, <2>1
  <2>0. d \in Int /\ e \in Int /\ s \in Int /\ r \in Int /\ n \in Int
    BY <2>1 DEF ClockTyped
  <2>3. r - ((D - e) * 86400 + H * 3600 + M * 60 + S) = (s - ((D - d) * 86400 + H * 3600 + M * 60 + S)) + n
    BY <2>0, <2>2
  <2>4. /\ Elapsed(stamp) = s - ((D - d) * 86400 + H * 3600 + M * 60 + S)
        /\ Elapsed(stamp)' = r - ((D - e) * 86400 + H * 3600 + M * 60 + S)
    BY <1>6, <1>7, <2>1
  <2>5. QED
    BY <2>3, <2>4
<1>10. QED
  BY <1>1, <1>2, <1>3, <1>9

LEMMA CalendarInitInv == CalendarInit => CalendarInv
<1> SUFFICES ASSUME CalendarInit PROVE CalendarInv
  OBVIOUS
<1>1. IsDate(1970, 1, 1)
  BY DEF IsDate, LengthOf
<1>2. DaysFromCivil(<<1970, 1, 1>>) = 0
  <2>1. Quo(1969, 400) = 4 /\ Quo(369, 4) = 92 /\ Quo(369, 100) = 3
    BY QuoIs
  <2>2. 369 = 1969 - 4 * 400
    OBVIOUS
  <2>3. YearDays(1969) = 4 * 146097 + (369 * 365 + Quo(369, 4) - Quo(369, 100))
    BY <2>1, <2>2, YearDaysIs
  <2>4. MarchYear(1970, 1) = 1969
    BY DEF MarchYear
  <2>5. QED
    BY <1>1, <2>1, <2>3, <2>4, CivilDays, DaysBeforeIs
<1>3. day = 0 /\ secs = 0 /\ date = <<1970, 1, 1>> /\ stamp = <<>> /\ age = 0
  BY DEF CalendarInit
<1>4. DateKept
  BY <1>1, <1>2, <1>3 DEF DateKept
<1>5. day \in Nat /\ day <= LastDay /\ age \in Nat /\ age <= MaxAge
  BY <1>3, CalendarAssumption
<1>6. secs \in Seconds
  BY <1>3 DEF Seconds
<1>7. QED
  BY <1>3, <1>4, <1>5, <1>6 DEF CalendarInv, StampKept

LEMMA CalendarNextInv == CalendarInv /\ [CalendarNext]_calendarVars => CalendarInv'
<1> SUFFICES ASSUME CalendarInv, [CalendarNext]_calendarVars PROVE CalendarInv'
  OBVIOUS
<1>1. day \in Nat /\ day <= LastDay /\ secs \in Nat /\ secs < 86400 /\ age \in Nat /\ age <= MaxAge
  BY DEF CalendarInv, Seconds
<1>2. DateKept /\ StampKept
  BY DEF CalendarInv
<1>3. ASSUME Stamps3339 PROVE CalendarInv'
  <2>1. UNCHANGED <<day, secs, date>> /\ age' = 0 /\ stamp' = Stamp(day, secs)
    BY <1>3 DEF Stamps3339
  <2>2. PICK y, m, x : date = <<y, m, x>> /\ IsDate(y, m, x) /\ DaysFromCivil(date) = day
    BY <1>2 DEF DateKept
  <2>3. secs \in Seconds
    BY DEF CalendarInv
  <2> DEFINE a == Quo(secs, 3600)  b == Quo(secs % 3600, 60)  c == secs % 60
             t == Stamp(day, secs)
  <2>4. t = <<y, m, x, a, b, c>> /\ SubSeq(t, 1, 3) = <<y, m, x>> /\ Readable(t)
    BY <2>2, <2>3, StampIs
  <2>5. a \in Int /\ b \in Int /\ c \in Int /\ 3600 * a + 60 * b + c = secs
    BY <2>3, TimeOfDay
  <2> HIDE DEF a, b, c, t
  <2>6. DaysFromCivil(SubSeq(t, 1, 3)) = day /\ t[4] = a /\ t[5] = b /\ t[6] = c
    BY <2>2, <2>4
  <2>7. Elapsed(t) = 0
    BY <1>1, <2>5, <2>6 DEF Elapsed, Parsed3339
  <2>8. Elapsed(t)' = secs' - Parsed3339(t', day')
    BY DEF Elapsed
  <2>9. (Elapsed(stamp) = age)'
    BY <2>1, <2>7 DEF Elapsed, t
  <2>10. StampKept'
    BY <1>1, <2>1, <2>4, <2>6, <2>9 DEF StampKept, t
  <2>11. DateKept'
    BY <1>2, <2>1 DEF DateKept
  <2>12. QED
    BY <1>1, <2>1, <2>3, <2>10, <2>11, CalendarAssumption DEF CalendarInv
<1>4. ASSUME Forgets PROVE CalendarInv'
  <2>1. UNCHANGED <<day, secs, date>> /\ age' = 0 /\ stamp' = <<>>
    BY <1>4 DEF Forgets
  <2>2. StampKept' /\ DateKept'
    BY <1>2, <2>1 DEF StampKept, DateKept
  <2>3. QED
    BY <1>1, <2>1, <2>2, CalendarAssumption DEF CalendarInv
<1>5. ASSUME NEW n \in Nat, Elapses(n), age' <= MaxAge, day' \in Nat, secs' \in Seconds
      PROVE  StampKept' /\ age' \in Nat /\ age' <= MaxAge
  <2>1. age' \in Nat
    BY <1>1, <1>5 DEF Ages, Elapses
  <2>2. ClockTyped
    BY <1>1, <1>5 DEF Seconds, ClockTyped
  <2>3. QED
    BY <1>2, <1>5, <2>1, <2>2, StampAges
<1>6. ASSUME NEW s \in Moments, Passes(s) PROVE CalendarInv'
  <2>1. s > secs /\ Ages(s - secs) /\ age' <= MaxAge /\ secs' = s /\ UNCHANGED <<day, date, stamp>>
    BY <1>6 DEF Passes
  <2>2. s \in Seconds /\ s \in Nat
    BY CalendarAssumption DEF Seconds
  <2>3. s - secs \in Nat /\ Elapses(s - secs)
    BY <1>1, <2>1, <2>2 DEF Elapses
  <2>4. StampKept' /\ age' \in Nat /\ age' <= MaxAge
    BY <1>1, <1>5, <2>1, <2>2, <2>3
  <2>5. DateKept'
    BY <1>2, <2>1 DEF DateKept
  <2>6. QED
    BY <1>1, <2>1, <2>2, <2>4, <2>5 DEF CalendarInv
<1>7. ASSUME Midnight PROVE CalendarInv'
  <2>1. day < LastDay /\ Ages(86400 - secs) /\ age' <= MaxAge
        /\ day' = day + 1 /\ secs' = 0 /\ date' = Morrow(date) /\ UNCHANGED stamp
    BY <1>7 DEF Midnight
  <2>2. secs' \in Seconds /\ day' \in Nat /\ day' <= LastDay
    BY <1>1, <2>1, CalendarAssumption DEF Seconds
  <2>3. 86400 - secs \in Nat /\ Elapses(86400 - secs)
    BY <1>1, <2>1 DEF Elapses
  <2>4. StampKept' /\ age' \in Nat /\ age' <= MaxAge
    BY <1>5, <2>1, <2>2, <2>3
  <2>5. PICK y, m, x : date = <<y, m, x>> /\ IsDate(y, m, x) /\ DaysFromCivil(date) = day
    BY <1>2 DEF DateKept
  <2>6. PICK Y, M, X :
          /\ Morrow(<<y, m, x>>) = <<Y, M, X>> /\ IsDate(Y, M, X)
          /\ DaysFromCivil(<<Y, M, X>>) = DaysFromCivil(<<y, m, x>>) + 1
    BY <2>5, NextDay
  <2>7. date' = <<Y, M, X>> /\ DaysFromCivil(date') = day'
    BY <2>1, <2>5, <2>6
  <2>8. DateKept'
    BY <2>6, <2>7 DEF DateKept
  <2>9. QED
    BY <2>2, <2>4, <2>8 DEF CalendarInv
<1>8. ASSUME UNCHANGED calendarVars PROVE CalendarInv'
  BY <1>8 DEF calendarVars, CalendarInv, DateKept, StampKept, Elapsed, Parsed3339
<1>9. QED
  BY <1>3, <1>4, <1>6, <1>7, <1>8 DEF CalendarNext

\* What the invariant says of the stamp of now.
LEMMA NowIs ==
  ASSUME CalendarInv
  PROVE  \E y, m, x :
           /\ date = <<y, m, x>> /\ IsDate(y, m, x) /\ y \in Int /\ y <= 9999
           /\ CivilFromDays(day) = date /\ DaysFromCivil(date) = day
           /\ Stamp(day, secs) = <<y, m, x, Quo(secs, 3600), Quo(secs % 3600, 60), secs % 60>>
<1>1. PICK y, m, x : date = <<y, m, x>> /\ IsDate(y, m, x) /\ DaysFromCivil(date) = day
  BY DEF CalendarInv, DateKept
<1>2. secs \in Seconds /\ day <= LastDay /\ day \in Nat
  BY DEF CalendarInv
<1>3. CivilFromDays(day) = date /\ (y >= 10000 => day > 2932896)
  BY <1>1, CivilBack
<1>4. y \in Int
  BY <1>1 DEF IsDate
<1>5. y <= 9999
  BY <1>2, <1>3, <1>4, CalendarAssumption
<1>6. Stamp(day, secs) = <<y, m, x, Quo(secs, 3600), Quo(secs % 3600, 60), secs % 60>>
  BY <1>1, <1>2, StampIs
<1>7. QED
  BY <1>1, <1>3, <1>4, <1>5, <1>6

LEMMA InvTypeOK == CalendarInv => CalendarTypeOK /\ DatesAreTrue
<1> SUFFICES ASSUME CalendarInv PROVE CalendarTypeOK /\ DatesAreTrue
  OBVIOUS
<1>1. PICK y, m, x :
        /\ date = <<y, m, x>> /\ IsDate(y, m, x) /\ y \in Int /\ y <= 9999
        /\ CivilFromDays(day) = date /\ DaysFromCivil(date) = day
        /\ Stamp(day, secs) = <<y, m, x, Quo(secs, 3600), Quo(secs % 3600, 60), secs % 60>>
  BY NowIs
<1>2. secs \in Seconds
  BY DEF CalendarInv
<1> DEFINE a == Quo(secs, 3600)  b == Quo(secs % 3600, 60)  c == secs % 60
           t == Stamp(day, secs)
<1>3. a \in 0..23 /\ b \in 0..59 /\ c \in 0..59
  BY <1>2, TimeOfDay
<1>4. t = <<y, m, x, a, b, c>>
  BY <1>1
<1> HIDE DEF a, b, c, t
<1>5. y >= 1970 /\ m \in 1..12 /\ x \in 1..31 /\ y \in Int /\ y <= 9999
  BY <1>1, LengthIs DEF IsDate
<1>6. y \in FourDigits
  BY <1>5 DEF FourDigits
<1>7. t[1] \in FourDigits /\ t[2] \in 1..12 /\ t[3] \in 1..31
  BY <1>4, <1>5, <1>6
<1>8. \A n \in 4..6 : t[n] \in 0..59
  <2>1. a \in 0..59
    BY <1>3
  <2>2. t[4] = a /\ t[5] = b /\ t[6] = c
    BY <1>4
  <2>3. t[4] \in 0..59 /\ t[5] \in 0..59 /\ t[6] \in 0..59
    BY <1>3, <2>1, <2>2
  <2>4. \A n \in 4..6 : n = 4 \/ n = 5 \/ n = 6
    OBVIOUS
  <2>5. QED
    BY <2>3, <2>4, Zenon
<1>9. day \in 0..LastDay /\ age \in 0..MaxAge
  BY CalendarAssumption DEF CalendarInv
<1>10. CalendarTypeOK
  <2>1. t[1] \in FourDigits /\ t[2] \in 1..12 /\ t[3] \in 1..31 /\ \A n \in 4..6 : t[n] \in 0..59
    BY <1>7, <1>8
  <2>2. QED
    BY <1>2, <1>9, <2>1, SMTT(20) DEF CalendarTypeOK, t
<1>11. QED
  BY <1>1, <1>10 DEF DatesAreTrue

LEMMA InvArchived == CalendarInv => ArchivedShowForAnHour
BY DEF CalendarInv, StampKept, ArchivedShowForAnHour, Stale

\* An age in units of which it has at least one.
LEMMA AgoIs ==
  ASSUME NEW t, NEW d \in Nat, Elapsed(t) = d
  PROVE  \E r : /\ Ago(t) = r
                /\ r[1] * r[2] <= d /\ d < (r[1] + 1) * r[2]
                /\ r[2] > 1 => r[1] >= 1
                /\ r[2] < 86400 => d < 86400
<1> DEFINE A == IF d < 60 THEN <<d, 1>> ELSE IF d < 3600 THEN <<Quo(d, 60), 60>>
                ELSE IF d < 86400 THEN <<Quo(d, 3600), 3600>> ELSE <<Quo(d, 86400), 86400>>
<1>1. (IF Elapsed(t) > 0 THEN Elapsed(t) ELSE 0) = d
  OBVIOUS
<1>2. Ago(t) = A
  BY <1>1 DEF Ago
<1>3. DivideBy(60) /\ DivideBy(3600) /\ DivideBy(86400)
  BY Divisors
<1>4. CASE d < 60
  <2>1. A = <<d, 1>>
    BY <1>4
  <2>2. QED
    BY <1>2, <1>4, <2>1
<1>5. CASE 60 <= d /\ d < 3600
  <2>1. A = <<Quo(d, 60), 60>>
    BY <1>5
  <2>2. PICK q \in Nat : q = Quo(d, 60) /\ 60 * q <= d /\ d < 60 * q + 60
    BY <1>3 DEF DivideBy
  <2>3. q * 60 <= d /\ d < (q + 1) * 60 /\ q >= 1
    BY <1>5, <2>2
  <2>4. Ago(t)[1] = q /\ Ago(t)[2] = 60
    BY <1>2, <2>1, <2>2
  <2>5. QED
    BY <1>5, <2>3, <2>4
<1>6. CASE 3600 <= d /\ d < 86400
  <2>1. A = <<Quo(d, 3600), 3600>>
    BY <1>6
  <2>2. PICK q \in Nat : q = Quo(d, 3600) /\ 3600 * q <= d /\ d < 3600 * q + 3600
    BY <1>3 DEF DivideBy
  <2>3. q * 3600 <= d /\ d < (q + 1) * 3600 /\ q >= 1
    BY <1>6, <2>2
  <2>4. Ago(t)[1] = q /\ Ago(t)[2] = 3600
    BY <1>2, <2>1, <2>2
  <2>5. QED
    BY <1>6, <2>3, <2>4
<1>7. CASE 86400 <= d
  <2>1. A = <<Quo(d, 86400), 86400>>
    BY <1>7
  <2>2. PICK q \in Nat : q = Quo(d, 86400) /\ 86400 * q <= d /\ d < 86400 * q + 86400
    BY <1>3 DEF DivideBy
  <2>3. q * 86400 <= d /\ d < (q + 1) * 86400 /\ q >= 1
    BY <1>7, <2>2
  <2>4. Ago(t)[1] = q /\ Ago(t)[2] = 86400
    BY <1>2, <2>1, <2>2
  <2>5. QED
    BY <1>7, <2>3, <2>4
<1>8. QED
  BY <1>4, <1>5, <1>6, <1>7

LEMMA DurationIs ==
  ASSUME NEW d \in Nat
  PROVE  \E h, m, s :
           /\ Duration(d) = <<h, m, s>> /\ h \in Nat /\ m \in Nat /\ s \in Nat
           /\ 3600 * h + 60 * m + s <= d
           /\ d < 3600 * h + 60 * m + s + (IF d < 60 THEN 1 ELSE 60)
           /\ m < 60 /\ s < 60
<1>1. DivideBy(60)
  BY Divisors
<1>2. PICK q \in Nat : q = Quo(d, 60) /\ 60 * q <= d /\ d < 60 * q + 60
  BY <1>1 DEF DivideBy
<1>3. CASE d < 60
  <2>1. Duration(d) = <<0, 0, d>>
    BY <1>3 DEF Duration
  <2>2. QED
    BY <1>3, <2>1
<1>4. CASE 60 <= d /\ d < 3600
  <2>1. Duration(d) = <<0, q, 0>>
    BY <1>2, <1>4 DEF Duration
  <2>2. QED
    BY <1>2, <1>4, <2>1
<1>5. CASE 3600 <= d
  <2>1. Duration(d) = <<Quo(q, 60), q % 60, 0>>
    BY <1>2, <1>5 DEF Duration
  <2>2. Quo(q, 60) = q \div 60 /\ q \div 60 \in Nat /\ q % 60 \in 0..59 /\ q = 60 * (q \div 60) + (q % 60)
    BY DEF Quo
  <2>3. PICK h \in Nat, m \in Nat : h = q \div 60 /\ m = q % 60 /\ q = 60 * h + m /\ m < 60
    BY <2>2
  <2>4. Duration(d) = <<h, m, 0>>
    BY <2>1, <2>2, <2>3
  <2>5. QED
    BY <1>2, <1>5, <2>3, <2>4
<1>6. QED
  BY <1>3, <1>4, <1>5

LEMMA InvAges == CalendarInv => AgesAreHonest
<1> SUFFICES ASSUME CalendarInv, stamp # <<>>
             PROVE  /\ \E r \in {Ago(stamp)} :
                         /\ r[1] * r[2] <= age /\ age < (r[1] + 1) * r[2]
                         /\ r[2] > 1 => r[1] >= 1
                         /\ r[2] < 86400 => age < 86400
                    /\ \E d \in {Duration(age)} :
                         LET told == 3600 * d[1] + 60 * d[2] + d[3] IN
                         told <= age /\ age < told + (IF age < 60 THEN 1 ELSE 60) /\ d[2] < 60 /\ d[3] < 60
  BY SMT DEF AgesAreHonest
<1>1. age \in Nat /\ Elapsed(stamp) = age
  BY DEF CalendarInv, StampKept
<1>2. \E r : /\ Ago(stamp) = r
             /\ r[1] * r[2] <= age /\ age < (r[1] + 1) * r[2]
             /\ r[2] > 1 => r[1] >= 1
             /\ r[2] < 86400 => age < 86400
  BY <1>1, AgoIs
<1>3. PICK h, m, s :
        /\ Duration(age) = <<h, m, s>> /\ h \in Nat /\ m \in Nat /\ s \in Nat
        /\ 3600 * h + 60 * m + s <= age
        /\ age < 3600 * h + 60 * m + s + (IF age < 60 THEN 1 ELSE 60)
        /\ m < 60 /\ s < 60
  BY <1>1, DurationIs
<1>4. QED
  BY <1>2, <1>3

-----------------------------------------------------------------------------
(* The order of the texts.                                                 *)

\* The first of three numbers in which two differ.
Later(p, q, r, P, Q, R) == P > p \/ (P = p /\ Q > q) \/ (P = p /\ Q = q /\ R > r)

LEMMA LaterDate ==
  ASSUME NEW y, NEW m, NEW x, NEW a, NEW b, NEW c, NEW Y, NEW M, NEW X, NEW A, NEW B, NEW C,
         Six(y, m, x, a, b, c), Six(Y, M, X, A, B, C), Later(y, m, x, Y, M, X)
  PROVE  SortsBefore(<<y, m, x, a, b, c>>, <<Y, M, X, A, B, C>>)
<1> DEFINE t == <<y, m, x, a, b, c>>  u == <<Y, M, X, A, B, C>>
<1>1. DOMAIN t = 1..6 /\ t[1] = y /\ t[2] = m /\ t[3] = x /\ u[1] = Y /\ u[2] = M /\ u[3] = X
  OBVIOUS
<1> HIDE DEF t, u
<1>2. CASE Y > y
  BY <1>1, <1>2 DEF SortsBefore, Six
<1>3. CASE Y = y /\ M > m
  BY <1>1, <1>3 DEF SortsBefore, Six
<1>4. CASE Y = y /\ M = m /\ X > x
  BY <1>1, <1>4 DEF SortsBefore, Six
<1>5. QED
  BY <1>2, <1>3, <1>4 DEF Later, t, u

LEMMA LaterTime ==
  ASSUME NEW y, NEW m, NEW x, NEW a, NEW b, NEW c, NEW A, NEW B, NEW C,
         Six(y, m, x, a, b, c), Six(y, m, x, A, B, C), Later(a, b, c, A, B, C)
  PROVE  SortsBefore(<<y, m, x, a, b, c>>, <<y, m, x, A, B, C>>)
<1> DEFINE t == <<y, m, x, a, b, c>>  u == <<y, m, x, A, B, C>>
<1>1. DOMAIN t = 1..6 /\ t[4] = a /\ t[5] = b /\ t[6] = c /\ u[4] = A /\ u[5] = B /\ u[6] = C
  OBVIOUS
<1>2. t[1] = u[1] /\ t[2] = u[2] /\ t[3] = u[3]
  OBVIOUS
<1> HIDE DEF t, u
<1>3. CASE A > a
  BY <1>1, <1>2, <1>3 DEF SortsBefore, Six
<1>4. CASE A = a /\ B > b
  BY <1>1, <1>2, <1>4 DEF SortsBefore, Six
<1>5. CASE A = a /\ B = b /\ C > c
  BY <1>1, <1>2, <1>5 DEF SortsBefore, Six
<1>6. QED
  BY <1>3, <1>4, <1>5 DEF Later, t, u

\* Hours, minutes and seconds of a second of the day.
HoursOf(s, a, b, c) ==
  /\ a \in Int /\ b \in Int /\ c \in Int
  /\ 3600 * a + 60 * b + c = s /\ b >= 0 /\ b < 60 /\ c >= 0 /\ c < 60

LEMMA HoursAre ==
  ASSUME NEW s \in Seconds
  PROVE  HoursOf(s, Quo(s, 3600), Quo(s % 3600, 60), s % 60)
<1> DEFINE a == Quo(s, 3600)  b == Quo(s % 3600, 60)  c == s % 60
<1>1. a \in 0..23 /\ b \in 0..59 /\ c \in 0..59 /\ 3600 * a + 60 * b + c = s
  BY TimeOfDay
<1> HIDE DEF a, b, c
<1>2. HoursOf(s, a, b, c)
  BY <1>1 DEF HoursOf
<1>3. QED
  BY <1>2 DEF a, b, c

LEMMA LaterHours ==
  ASSUME NEW s, NEW a, NEW b, NEW c, NEW r, NEW A, NEW B, NEW C,
         s \in Int, r \in Int, HoursOf(s, a, b, c), HoursOf(r, A, B, C), r > s
  PROVE  Later(a, b, c, A, B, C)
<1>1. A >= a
  BY DEF HoursOf
<1>2. A = a => B >= b
  BY DEF HoursOf
<1>3. A = a /\ B = b => C > c
  BY DEF HoursOf
<1>4. QED
  BY <1>1, <1>2, <1>3 DEF Later, HoursOf

LEMMA LaterSecond ==
  ASSUME NEW s \in Seconds, NEW r \in Seconds, r > s
  PROVE  Later(Quo(s, 3600), Quo(s % 3600, 60), s % 60, Quo(r, 3600), Quo(r % 3600, 60), r % 60)
<1>1. s \in Int /\ r \in Int
  BY DEF Seconds
<1>2. /\ HoursOf(s, Quo(s, 3600), Quo(s % 3600, 60), s % 60)
      /\ HoursOf(r, Quo(r, 3600), Quo(r % 3600, 60), r % 60)
  BY HoursAre
<1>3. QED
  BY <1>1, <1>2, LaterHours

LEMMA LaterDay ==
  ASSUME NEW y, NEW m, NEW x, NEW Y, NEW M, NEW X, IsDate(y, m, x), Morrow(<<y, m, x>>) = <<Y, M, X>>
  PROVE  Later(y, m, x, Y, M, X)
<1>1. y \in Int /\ m \in Int /\ x \in Int
  BY DEF IsDate
<1>2. \/ <<Y, M, X>> = <<y, m, x + 1>>
      \/ <<Y, M, X>> = <<y, m + 1, 1>>
      \/ <<Y, M, X>> = <<y + 1, 1, 1>>
  BY DEF Morrow
<1>3. (Y = y /\ M = m /\ X = x + 1) \/ (Y = y /\ M = m + 1) \/ Y = y + 1
  BY <1>2
<1>4. QED
  BY <1>1, <1>3 DEF Later

LEMMA NextSorts ==
  CalendarInv /\ CalendarInv' /\ [CalendarNext]_calendarVars =>
    [SortsBefore(Stamp(day, secs), Stamp(day', secs'))]_<<day, secs>>
<1> SUFFICES ASSUME CalendarInv, CalendarInv', CalendarNext, ~UNCHANGED <<day, secs>>
             PROVE  SortsBefore(Stamp(day, secs), Stamp(day', secs'))
  BY DEF calendarVars
<1>1. PICK y, m, x : date = <<y, m, x>> /\ IsDate(y, m, x) /\ DaysFromCivil(date) = day
  BY DEF CalendarInv, DateKept
<1>2. PICK Y, M, X : date' = <<Y, M, X>> /\ IsDate(Y, M, X) /\ DaysFromCivil(date') = day'
  BY DEF CalendarInv, DateKept
<1>3. secs \in Seconds /\ secs' \in Seconds
  BY DEF CalendarInv
<1> DEFINE a == Quo(secs, 3600)  b == Quo(secs % 3600, 60)  c == secs % 60
           A == Quo(secs', 3600)  B == Quo(secs' % 3600, 60)  C == secs' % 60
<1>4. Stamp(day, secs) = <<y, m, x, a, b, c>> /\ Stamp(day', secs') = <<Y, M, X, A, B, C>>
  BY <1>1, <1>2, <1>3, StampIs
<1>5. Six(y, m, x, a, b, c) /\ Six(Y, M, X, A, B, C)
  BY <1>1, <1>2, <1>3, TimeOfDay DEF Six, IsDate
<1>6. ASSUME NEW s \in Moments, Passes(s) PROVE Later(a, b, c, A, B, C) /\ Y = y /\ M = m /\ X = x
  <2>1. secs' > secs /\ date' = date
    BY <1>6 DEF Passes
  <2>2. Y = y /\ M = m /\ X = x
    BY <1>1, <1>2, <2>1
  <2>3. QED
    BY <1>3, <2>1, <2>2, LaterSecond
<1>7. ASSUME Midnight PROVE Later(y, m, x, Y, M, X)
  BY <1>1, <1>2, <1>7, LaterDay DEF Midnight
<1> HIDE DEF a, b, c, A, B, C
<1>8. ASSUME NEW s \in Moments, Passes(s) PROVE SortsBefore(Stamp(day, secs), Stamp(day', secs'))
  BY <1>4, <1>5, <1>6, <1>8, LaterTime
<1>9. ASSUME Midnight PROVE SortsBefore(Stamp(day, secs), Stamp(day', secs'))
  BY <1>4, <1>5, <1>7, <1>9, LaterDate
<1>10. ~Stamps3339 /\ ~Forgets
  BY DEF Stamps3339, Forgets
<1>11. QED
  BY <1>8, <1>9, <1>10 DEF CalendarNext

(* A stamp tells the time, on every day until the year 10000 and at every  *)
(* second of it: CivilFromDays and DaysFromCivil (clock.rs, liveness.rs)   *)
(* agree with the calendar, the fields of a stamp are in the ranges the    *)
(* parser accepts, a later stamp's text sorts after an earlier one's, a    *)
(* stamp's age is the time that has passed since, over midnights, months   *)
(* and leap years, a card leaves the listing when that age is more than an *)
(* hour, and the units an age is told in do not round it up.               *)
THEOREM ClockAgrees == CalendarSpec => StampsTellTheTime
<1>1. CalendarInit => CalendarInv
  BY CalendarInitInv
<1>2. CalendarInv /\ [CalendarNext]_calendarVars => CalendarInv'
  BY CalendarNextInv
<1>3. CalendarInv => CalendarTypeOK /\ DatesAreTrue /\ ArchivedShowForAnHour /\ AgesAreHonest
  BY InvTypeOK, InvArchived, InvAges
<1>4. CalendarInv /\ CalendarInv' /\ [CalendarNext]_calendarVars =>
        [SortsBefore(Stamp(day, secs), Stamp(day', secs'))]_<<day, secs>>
  BY NextSorts
<1>5. QED
  BY <1>1, <1>2, <1>3, <1>4, PTL DEF CalendarSpec, StampsTellTheTime, StampsSortLikeTime

-----------------------------------------------------------------------------
(* Least elements.                                                         *)

LEMMA LeastOfNats ==
  ASSUME NEW P, P \subseteq Nat, P # {}
  PROVE  \E i \in P : \A j \in P : i <= j
<1> DEFINE R == OpToRel(<, Nat)
<1>1. IsWellFoundedOn(R, Nat)
  BY NatLessThanWellFounded
<1> HIDE DEF R
<1>2. PICK i \in P : \A j \in P : ~ (<<j, i>> \in R)
  BY <1>1, WFMin
<1>3. \A j \in P : ~ (j < i)
  BY <1>2 DEF R, OpToRel
<1> QED BY <1>3


-----------------------------------------------------------------------------
(* The board as text (BoardText).  A text is read line by line, and a line *)
(* that a command writes is read without looking ahead.                    *)

Step(p, l) ==
  CASE p.at = "trailer" \/ l.k = "settings" -> [p EXCEPT !.at = "trailer", !.trailer = Append(@, l)]
    [] l.k = "lane" /\ p.at # "trailer" -> TakesHeading(p, l)
    [] p.at = "preamble" /\ l.k \notin {"lane", "settings"} -> [p EXCEPT !.preamble = Append(@, l)]
    [] p.at \in {"lane", "archive"} /\ l.k = "item" -> TakesItem(p, l)
    [] p.at \in {"lane", "archive"} /\ l.k = "more" /\ p.open -> TakesMore(p)
    [] OTHER -> [p EXCEPT !.open = FALSE]

Plain(p, l) ==
  p.at = "lane" => (l.k = "more" /\ p.open) \/ l.k \in {"lane", "item", "blank", "rule", "settings"}

\* Where a line can be read without the ones ahead, taking it is a step.
LEMMA TakesPlain ==
  ASSUME NEW p, NEW t, NEW i, Plain(p, t[i])
  PROVE  Takes(p, t, i) = Step(p, t[i])
BY DEF Takes, Step, Plain

Reads(p, l, q) == Plain(p, l) /\ Step(p, l) = q

\* Reading the lines s leads from one state to another.
Leads(p, s, q) ==
  \E f : /\ f[0] = p /\ f[Len(s)] = q
         /\ \A i \in 1..Len(s) : Plain(f[i - 1], s[i]) /\ f[i] = Step(f[i - 1], s[i])

\* To read nothing changes nothing.
LEMMA LeadsNowhere ==
  ASSUME NEW p
  PROVE  Leads(p, <<>>, p)
<1> DEFINE f == [i \in 0..0 |-> p]
<1>1. f[0] = p /\ Len(<<>>) = 0 /\ 1..0 = {}
  OBVIOUS
<1>2. QED
  BY <1>1 DEF Leads

\* One line leads where its step does.
LEMMA LeadsOne ==
  ASSUME NEW p, NEW l, Plain(p, l)
  PROVE  Leads(p, <<l>>, Step(p, l))
<1> DEFINE f == [i \in 0..1 |-> IF i = 0 THEN p ELSE Step(p, l)]
<1>1. f[0] = p /\ f[1] = Step(p, l) /\ Len(<<l>>) = 1 /\ <<l>>[1] = l /\ 1..1 = {1}
  OBVIOUS
<1>2. \A i \in 1..Len(<<l>>) : Plain(f[i - 1], <<l>>[i]) /\ f[i] = Step(f[i - 1], <<l>>[i])
  <2> SUFFICES ASSUME NEW i \in 1..Len(<<l>>)
               PROVE  Plain(f[i - 1], <<l>>[i]) /\ f[i] = Step(f[i - 1], <<l>>[i])
    OBVIOUS
  <2>1. i = 1 /\ i - 1 = 0
    BY <1>1
  <2> HIDE DEF f
  <2>2. QED
    BY <1>1, <2>1
<1> HIDE DEF f
<1>3. QED
  BY <1>1, <1>2 DEF Leads

\* Two runs of lines, one after the other.
LEMMA LeadsOn ==
  ASSUME NEW S, NEW s \in Seq(S), NEW t \in Seq(S), NEW p, NEW q, NEW r, Leads(p, s, q), Leads(q, t, r)
  PROVE  Leads(p, s \o t, r)
<1>1. PICK f : /\ f[0] = p /\ f[Len(s)] = q
               /\ \A i \in 1..Len(s) : Plain(f[i - 1], s[i]) /\ f[i] = Step(f[i - 1], s[i])
  BY DEF Leads
<1>2. PICK g : /\ g[0] = q /\ g[Len(t)] = r
               /\ \A i \in 1..Len(t) : Plain(g[i - 1], t[i]) /\ g[i] = Step(g[i - 1], t[i])
  BY DEF Leads
<1>3. PICK n \in Nat : n = Len(s)
  BY LenProperties
<1>4. PICK m \in Nat : m = Len(t)
  BY LenProperties
<1>5. /\ Len(s \o t) = n + m
      /\ \A i \in 1..n : (s \o t)[i] = s[i]
      /\ \A i \in 1..(n + m) : i > n => (s \o t)[i] = t[i - n]
  BY <1>3, <1>4, ConcatProperties
<1> DEFINE h == [i \in 0..(n + m) |-> IF i <= n THEN f[i] ELSE g[i - n]]
<1>6. h[0] = p /\ h[n] = q
  BY <1>1, <1>3
<1>7. h[n + m] = r
  <2>1. CASE m = 0
    <3>1. n + m = n /\ f[n] = q /\ g[0] = q /\ g[m] = r
      BY <1>1, <1>2, <1>3, <1>4, <2>1
    <3> HIDE DEF h
    <3>2. QED
      BY <1>6, <2>1, <3>1
  <2>2. CASE m > 0
    <3>1. n + m \in 0..(n + m) /\ ~(n + m <= n) /\ (n + m) - n = m
      BY <2>2
    <3>2. h[n + m] = g[m]
      BY <3>1
    <3>3. QED
      BY <1>2, <1>4, <3>2
  <2>3. QED
    BY <2>1, <2>2
<1>8. ASSUME NEW i \in 1..(n + m) PROVE Plain(h[i - 1], (s \o t)[i]) /\ h[i] = Step(h[i - 1], (s \o t)[i])
  <2>1. CASE i <= n
    <3>1. h[i - 1] = f[i - 1] /\ h[i] = f[i] /\ (s \o t)[i] = s[i]
      BY <1>5, <2>1
    <3>2. QED
      BY <1>1, <1>3, <2>1, <3>1
  <2>2. CASE i > n
    <3>1. i - n \in 1..m /\ h[i] = g[i - n] /\ (s \o t)[i] = t[i - n]
      BY <1>5, <2>2
    <3>2. h[i - 1] = g[(i - n) - 1]
      <4>1. CASE i - 1 = n
        <5>1. (i - n) - 1 = 0 /\ g[0] = q
          BY <1>2, <4>1
        <5> HIDE DEF h
        <5>2. QED
          BY <1>6, <4>1, <5>1
      <4>2. CASE i - 1 # n
        <5>1. i - 1 \in 0..(n + m) /\ ~(i - 1 <= n) /\ (i - 1) - n = (i - n) - 1
          BY <2>2, <4>2
        <5>2. QED
          BY <5>1
      <4>3. QED
        BY <4>1, <4>2
    <3>3. Plain(g[(i - n) - 1], t[i - n]) /\ g[i - n] = Step(g[(i - n) - 1], t[i - n])
      BY <1>2, <1>4, <3>1
    <3> HIDE DEF h
    <3>4. QED
      BY <3>1, <3>2, <3>3
  <2>3. i <= n \/ i > n
    BY <1>3
  <2> HIDE DEF h
  <2>4. QED
    BY <2>1, <2>2, <2>3
<1> HIDE DEF h
<1>9. QED
  BY <1>5, <1>6, <1>7, <1>8 DEF Leads

-----------------------------------------------------------------------------
(* Parse, a line at a time.                                                *)

BoardOf(p) == [preamble |-> p.preamble, lanes |-> p.lanes, archive |-> p.archive,
               archived |-> p.archived, trailer |-> p.trailer]

Parses(t, n, f) == f[0] = Unparsed /\ \A i \in 1..n : f[i] = Takes(f[i - 1], t, i)

\* There is a function that takes the lines of a text one after the other.
LEMMA ParseExists ==
  ASSUME NEW t, NEW n \in Nat
  PROVE  \E f : f = [i \in 0..n |-> IF i = 0 THEN Unparsed ELSE Takes(f[i - 1], t, i)]
<1> DEFINE Ok(m, f) == f = [i \in 0..m |-> IF i = 0 THEN Unparsed ELSE Takes(f[i - 1], t, i)]
           P == {m \in Nat : ~\E f : Ok(m, f)}
<1> SUFFICES ASSUME P # {} PROVE FALSE
  OBVIOUS
<1>1. PICK m \in P : \A k \in P : m <= k
  BY LeastOfNats
<1>2. m # 0
  <2>1. Ok(0, [i \in 0..0 |-> Unparsed])
    OBVIOUS
  <2>2. QED
    BY <2>1
<1>3. PICK f : Ok(m - 1, f)
  <2>1. m \in Nat /\ m - 1 \in Nat /\ ~(m <= m - 1)
    BY <1>1, <1>2
  <2>2. m - 1 \notin P
    BY <1>1, <2>1
  <2>3. QED
    BY <2>1, <2>2
<1> DEFINE g == [i \in 0..m |-> IF i = m THEN Takes(f[m - 1], t, m) ELSE f[i]]
<1>4. ASSUME NEW i \in 0..m PROVE g[i] = IF i = 0 THEN Unparsed ELSE Takes(g[i - 1], t, i)
  <2>1. CASE i = m
    BY <1>2, <2>1
  <2>2. CASE i < m
    <3>1. g[i] = f[i] /\ i \in 0..(m - 1) /\ (i # 0 => g[i - 1] = f[i - 1])
      BY <2>2
    <3>2. f[i] = IF i = 0 THEN Unparsed ELSE Takes(f[i - 1], t, i)
      BY <1>3, <3>1
    <3>3. QED
      BY <3>1, <3>2
  <2>3. QED
    BY <2>1, <2>2
<1>5. g = [i \in 0..m |-> IF i = 0 THEN Unparsed ELSE Takes(g[i - 1], t, i)]
  BY <1>4
<1>6. QED
  BY <1>1, <1>5

\* What is chosen among one is that one.
LEMMA TheOne ==
  ASSUME NEW x
  PROVE  (CHOOSE q \in {x} : TRUE) = x
OBVIOUS

\* UpToLine and Parse are that function.
LEMMA ParseIs ==
  ASSUME NEW S, NEW t \in Seq(S)
  PROVE  \E f : Parses(t, Len(t), f) /\ Parse(t) = BoardOf(f[Len(t)])
<1>1. PICK n \in Nat : n = Len(t)
  BY LenProperties
<1> DEFINE Eq(f) == f = [i \in 0..n |-> IF i = 0 THEN Unparsed ELSE CHOOSE q \in {Takes(p, t, i) : p \in {f[i - 1]}} : TRUE]
           F == CHOOSE f : Eq(f)
<1>2. \A f, i : (CHOOSE q \in {Takes(p, t, i) : p \in {f[i - 1]}} : TRUE) = Takes(f[i - 1], t, i)
  <2> TAKE f, i
  <2>1. {Takes(p, t, i) : p \in {f[i - 1]}} = {Takes(f[i - 1], t, i)}
    OBVIOUS
  <2>2. QED
    BY <2>1, TheOne
<1>3. PICK g : g = [i \in 0..n |-> IF i = 0 THEN Unparsed ELSE Takes(g[i - 1], t, i)]
  BY ParseExists
<1>4. Eq(g)
  BY <1>2, <1>3
<1> HIDE DEF Eq
<1>5. Eq(F)
  BY <1>4
<1>6. Parses(t, n, F)
  <2>1. F = [i \in 0..n |-> IF i = 0 THEN Unparsed
                             ELSE CHOOSE q \in {Takes(p, t, i) : p \in {F[i - 1]}} : TRUE]
    BY <1>5 DEF Eq
  <2> HIDE DEF F
  <2>2. F[0] = Unparsed
    BY <2>1
  <2>3. ASSUME NEW i \in 1..n PROVE F[i] = Takes(F[i - 1], t, i)
    <3>1. F[i] = CHOOSE q \in {Takes(p, t, i) : p \in {F[i - 1]}} : TRUE
      BY <2>1
    <3>2. QED
      BY <1>2, <3>1
  <2>4. QED
    BY <2>2, <2>3 DEF Parses
<1>7. Parse(t) = CHOOSE b \in {BoardOf(p) : p \in {F[n]}} : TRUE
  BY <1>1 DEF Parse, Eq, BoardOf
<1>8. {BoardOf(p) : p \in {F[n]}} = {BoardOf(F[n])}
  OBVIOUS
<1>9. QED
  BY <1>1, <1>6, <1>7, <1>8, TheOne

\* A text that leads somewhere is parsed to there.
LEMMA ParseLeads ==
  ASSUME NEW S, NEW t \in Seq(S), NEW q, Leads(Unparsed, t, q)
  PROVE  Parse(t) = BoardOf(q)
<1>1. PICK f : Parses(t, Len(t), f) /\ Parse(t) = BoardOf(f[Len(t)])
  BY ParseIs
<1>2. PICK g : /\ g[0] = Unparsed /\ g[Len(t)] = q
               /\ \A i \in 1..Len(t) : Plain(g[i - 1], t[i]) /\ g[i] = Step(g[i - 1], t[i])
  BY DEF Leads
<1>3. PICK n \in Nat : n = Len(t)
  BY LenProperties
<1> DEFINE P == {i \in 0..n : f[i] # g[i]}
<1>4. P = {}
  <2> SUFFICES ASSUME P # {} PROVE FALSE
    OBVIOUS
  <2>1. PICK i \in P : \A k \in P : i <= k
    <3>1. P \subseteq Nat
      OBVIOUS
    <3>2. QED
      BY <3>1, LeastOfNats
  <2>2. i # 0
    BY <1>1, <1>2 DEF Parses
  <2>3. i \in 1..n /\ i - 1 \in 0..n /\ i - 1 \notin P
    BY <2>1, <2>2
  <2>4. f[i - 1] = g[i - 1]
    BY <2>3
  <2>5. g[i] = Takes(g[i - 1], t, i)
    BY <1>2, <1>3, <2>3, TakesPlain
  <2>6. f[i] = Takes(f[i - 1], t, i)
    BY <1>1, <1>3, <2>3 DEF Parses
  <2>7. QED
    BY <2>1, <2>4, <2>5, <2>6
<1>5. f[n] = g[n]
  BY <1>4
<1>6. QED
  BY <1>1, <1>2, <1>3, <1>5

-----------------------------------------------------------------------------
(* What FlattenSeq computes, a sequence at a time.                         *)

Flattens(f, ss) == f[0] = <<>> /\ \A i \in 1..Len(ss) : f[i] = f[i - 1] \o ss[i]

\* There is a function that joins the first sequences of any number.
LEMMA FlattensExists ==
  ASSUME NEW ss, NEW n \in Nat
  PROVE  \E f : f = [i \in 1..n |-> IF i = 1 THEN ss[i] ELSE f[i - 1] \o ss[i]]
<1> DEFINE Ok(m, f) == f = [i \in 1..m |-> IF i = 1 THEN ss[i] ELSE f[i - 1] \o ss[i]]
           P == {m \in Nat : ~\E f : Ok(m, f)}
<1> SUFFICES ASSUME P # {} PROVE FALSE
  OBVIOUS
<1>1. PICK m \in P : \A k \in P : m <= k
  BY LeastOfNats
<1>2. m # 0
  <2>1. Ok(0, [i \in 1..0 |-> <<>>])
    OBVIOUS
  <2>2. QED
    BY <2>1
<1>3. PICK f : Ok(m - 1, f)
  <2>1. m \in Nat /\ m - 1 \in Nat /\ ~(m <= m - 1)
    BY <1>1, <1>2
  <2>2. m - 1 \notin P
    BY <1>1, <2>1
  <2>3. QED
    BY <2>1, <2>2
<1> DEFINE g == [i \in 1..m |-> IF i < m THEN f[i] ELSE IF m = 1 THEN ss[m] ELSE f[m - 1] \o ss[m]]
<1>4. ASSUME NEW i \in 1..m PROVE g[i] = IF i = 1 THEN ss[i] ELSE g[i - 1] \o ss[i]
  <2>1. CASE i = m
    <3>1. i # 1 => g[i - 1] = f[i - 1]
      BY <2>1
    <3>2. QED
      BY <2>1, <3>1
  <2>2. CASE i < m
    <3>1. g[i] = f[i] /\ i \in 1..(m - 1) /\ (i # 1 => g[i - 1] = f[i - 1])
      BY <2>2
    <3>2. f[i] = IF i = 1 THEN ss[i] ELSE f[i - 1] \o ss[i]
      BY <1>3, <3>1
    <3>3. QED
      BY <3>1, <3>2
  <2>3. QED
    BY <2>1, <2>2
<1>5. g = [i \in 1..m |-> IF i = 1 THEN ss[i] ELSE g[i - 1] \o ss[i]]
  BY <1>4
<1>6. QED
  BY <1>1, <1>5

\* FlattenSeq is that function.
LEMMA FlattenIs ==
  ASSUME NEW S, NEW ss \in Seq(Seq(S))
  PROVE  \E f : /\ Flattens(f, ss) /\ FlattenSeq(ss) = f[Len(ss)]
                /\ \A i \in 0..Len(ss) : f[i] \in Seq(S)
<1>1. PICK n \in Nat : n = Len(ss)
  BY LenProperties
<1>2. \A i \in 1..n : ss[i] \in Seq(S)
  BY <1>1, ElementOfSeq
<1> DEFINE Eq(f) == f = [i \in 1..n |-> IF i = 1 THEN ss[i] ELSE f[i - 1] \o ss[i]]
           F == CHOOSE f : Eq(f)
<1>3. \E f : Eq(f)
  BY FlattensExists
<1> HIDE DEF Eq
<1>4. Eq(F)
  BY <1>3
<1>5. n # 0 => FlattenSeq(ss) = F[n]
  BY <1>1 DEF FlattenSeq, Eq
<1>6. n = 0 => FlattenSeq(ss) = <<>> /\ ss = <<>>
  <2>1. n = 0 => ss = <<>>
    BY <1>1, EmptySeq
  <2>2. QED
    BY <1>1, <2>1 DEF FlattenSeq
<1>7. \A i \in 1..n : F[i] = IF i = 1 THEN ss[i] ELSE F[i - 1] \o ss[i]
  <2>1. F = [i \in 1..n |-> IF i = 1 THEN ss[i] ELSE F[i - 1] \o ss[i]]
    BY <1>4 DEF Eq
  <2> HIDE DEF F
  <2>2. QED
    BY <2>1
<1> HIDE DEF F
<1> DEFINE g == [i \in 0..n |-> IF i = 0 THEN <<>> ELSE F[i]]
<1>8. g[0] = <<>> /\ \A i \in 1..n : g[i] = F[i]
  OBVIOUS
<1> HIDE DEF g
<1>9. \A i \in 1..n : g[i] = g[i - 1] \o ss[i]
  <2> SUFFICES ASSUME NEW i \in 1..n PROVE g[i] = g[i - 1] \o ss[i]
    OBVIOUS
  <2>1. CASE i = 1
    <3>1. g[i] = ss[i] /\ g[i - 1] = <<>> /\ ss[i] \in Seq(S)
      BY <1>2, <1>7, <1>8, <2>1
    <3>2. <<>> \o ss[i] = ss[i]
      BY <3>1, ConcatEmptySeq
    <3>3. QED
      BY <3>1, <3>2
  <2>2. CASE i # 1
    <3>1. i - 1 \in 1..n
      BY <2>2
    <3>2. QED
      BY <1>7, <1>8, <2>2, <3>1
  <2>3. QED
    BY <2>1, <2>2
<1>10. \A i \in 0..n : g[i] \in Seq(S)
  <2> DEFINE P == {i \in 0..n : g[i] \notin Seq(S)}
  <2> SUFFICES ASSUME P # {} PROVE FALSE
    OBVIOUS
  <2>1. PICK i \in P : \A k \in P : i <= k
    <3>1. P \subseteq Nat
      OBVIOUS
    <3>2. QED
      BY <3>1, LeastOfNats
  <2>2. i # 0
    <3>1. g[0] \in Seq(S)
      BY <1>8, EmptySeq
    <3>2. g[i] \notin Seq(S)
      BY <2>1
    <3>3. QED
      BY <3>1, <3>2
  <2>3. i \in 1..n /\ i - 1 \in 0..n /\ ~(i <= i - 1)
    BY <2>2
  <2>4. g[i - 1] \in Seq(S)
    BY <2>1, <2>3
  <2>5. g[i - 1] \o ss[i] \in Seq(S)
    BY <1>2, <2>3, <2>4, ConcatProperties
  <2>6. QED
    BY <1>9, <2>3, <2>5
<1>11. n = 0 => g[n] = <<>>
  BY <1>8
<1>12. n # 0 => g[n] = F[n]
  BY <1>8
<1>13. QED
  BY <1>1, <1>5, <1>6, <1>8, <1>9, <1>10, <1>11, <1>12 DEF Flattens

\* A run of texts, each of which leads from one state to the next.
LEMMA LeadsAll ==
  ASSUME NEW S, NEW ss \in Seq(Seq(S)), NEW P, \A i \in 1..Len(ss) : Leads(P[i - 1], ss[i], P[i])
  PROVE  Leads(P[0], FlattenSeq(ss), P[Len(ss)])
<1>1. PICK f : /\ Flattens(f, ss) /\ FlattenSeq(ss) = f[Len(ss)]
               /\ \A i \in 0..Len(ss) : f[i] \in Seq(S)
  BY FlattenIs
<1>2. PICK n \in Nat : n = Len(ss)
  BY LenProperties
<1>3. \A i \in 1..n : ss[i] \in Seq(S)
  BY <1>2, ElementOfSeq
<1> DEFINE B == {i \in 0..n : ~Leads(P[0], f[i], P[i])}
<1>4. B = {}
  <2> SUFFICES ASSUME B # {} PROVE FALSE
    OBVIOUS
  <2>1. PICK i \in B : \A k \in B : i <= k
    <3>1. B \subseteq Nat
      OBVIOUS
    <3>2. QED
      BY <3>1, LeastOfNats
  <2>2. i # 0
    <3>1. Leads(P[0], <<>>, P[0]) /\ f[0] = <<>>
      BY <1>1, LeadsNowhere DEF Flattens
    <3>2. ~Leads(P[0], f[i], P[i])
      BY <2>1
    <3>3. QED
      BY <3>1, <3>2
  <2>3. i \in 1..n /\ i - 1 \in 0..n /\ ~(i <= i - 1)
    BY <2>2
  <2>4. Leads(P[0], f[i - 1], P[i - 1]) /\ Leads(P[i - 1], ss[i], P[i])
    BY <1>2, <2>1, <2>3
  <2>5. f[i - 1] \in Seq(S) /\ ss[i] \in Seq(S) /\ f[i] = f[i - 1] \o ss[i]
    BY <1>1, <1>2, <1>3, <2>3 DEF Flattens
  <2>6. Leads(P[0], f[i - 1] \o ss[i], P[i])
    BY <2>4, <2>5, LeadsOn
  <2>7. QED
    BY <2>5, <2>6
<1>5. Leads(P[0], f[n], P[n])
  BY <1>4
<1>6. QED
  BY <1>1, <1>2, <1>5

\* A sequence of states, each of which the next text leads to.
LEMMA LeadsBy ==
  ASSUME NEW S, NEW s \in Seq(S), NEW f,
         \A i \in 1..Len(s) : Plain(f[i - 1], s[i]) /\ f[i] = Step(f[i - 1], s[i])
  PROVE  Leads(f[0], s, f[Len(s)])
BY DEF Leads

-----------------------------------------------------------------------------
(* Reading the block of a card, the cards of a lane, and a lane.           *)

BoardCard == [id : Ids \cup {"none"}, ticked : BOOLEAN, more : Nat]
BoardLane == [title : ToSet(Active) \cup {Icebox}, limit : {0, 3}, cards : Seq(BoardCard)]

Reading(pre, lanes, filed, archived, trailer, at, open) ==
  [preamble |-> pre, lanes |-> lanes, archive |-> filed, archived |-> archived,
   trailer |-> trailer, at |-> at, open |-> open]

CardOf(id, ticked, more) == [id |-> id, ticked |-> ticked, more |-> more]
LaneWith(title, limit, cards) == [title |-> title, limit |-> limit, cards |-> cards]

\* The last lane of a reading is changed.
LEMMA LaneChanged ==
  ASSUME NEW title, NEW limit, NEW cards, NEW others
  PROVE  /\ LaneWith(title, limit, cards).cards = cards
         /\ [LaneWith(title, limit, cards) EXCEPT !.cards = others] = LaneWith(title, limit, others)
BY DEF LaneWith

\* The last element of a sequence is changed.
LEMMA AppendChanged ==
  ASSUME NEW S, NEW s \in Seq(S), NEW x, NEW y
  PROVE  /\ Len(Append(s, x)) = Len(s) + 1 /\ Append(s, x)[Len(s) + 1] = x
         /\ [Append(s, x) EXCEPT ![Len(s) + 1] = y] = Append(s, y)
<1> DEFINE T == S \cup {x, y}
<1>1. s \in Seq(T) /\ x \in T /\ y \in T
  BY SeqMonotonic
<1> HIDE DEF T
<1>2. PICK n \in Nat : n = Len(s)
  BY LenProperties
<1>3. \A e \in T : /\ Append(s, e) \in Seq(T) /\ Len(Append(s, e)) = n + 1
                  /\ \A i \in 1..n : Append(s, e)[i] = s[i]
                  /\ Append(s, e)[n + 1] = e
  BY <1>1, <1>2, AppendProperties
<1> DEFINE a == Append(s, x)  b == Append(s, y)  c == [Append(s, x) EXCEPT ![n + 1] = y]
<1>4. /\ a \in Seq(T) /\ Len(a) = n + 1 /\ n + 1 \in 1..n + 1 /\ b \in Seq(T) /\ Len(b) = n + 1
      /\ \A i \in 1..n : a[i] = s[i] /\ b[i] = s[i]
      /\ b[n + 1] = y
  BY <1>1, <1>3
<1>5. c \in Seq(T) /\ Len(c) = n + 1 /\ \A i \in 1..n + 1 : c[i] = IF i = n + 1 THEN y ELSE a[i]
  <2> HIDE DEF a
  <2>1. c = [a EXCEPT ![n + 1] = y]
    BY DEF a
  <2> HIDE DEF c
  <2>2. QED
    BY <1>1, <1>4, <2>1, ExceptSeq
<1>6. c = b
  <2> HIDE DEF a, b, c
  <2>1. \A i \in 1..Len(c) : c[i] = b[i]
    BY <1>4, <1>5
  <2>2. QED
    BY <1>4, <1>5, <2>1, SeqEqual
<1>7. QED
  BY <1>1, <1>2, <1>3, <1>6

\* In a lane.
InLane(pre, ls, title, limit, cards, open) ==
  Reading(pre, Append(ls, LaneWith(title, limit, cards)), <<>>, FALSE, <<>>, "lane", open)

\* An item in a lane is a new card of it.
LEMMA LaneReadsItem ==
  ASSUME NEW pre, NEW ls \in Seq(BoardLane), NEW title, NEW limit, NEW cards \in Seq(BoardCard),
         NEW id, NEW ticked, NEW o
  PROVE  Reads(InLane(pre, ls, title, limit, cards, o), Item(id, ticked),
               InLane(pre, ls, title, limit, Append(cards, CardOf(id, ticked, 0)), TRUE))
<1> DEFINE p == InLane(pre, ls, title, limit, cards, o)
           N == Len(ls) + 1
<1>1. /\ p.at = "lane" /\ p.lanes = Append(ls, LaneWith(title, limit, cards)) /\ Len(p.lanes) = N
      /\ p.lanes[N] = LaneWith(title, limit, cards)
  BY AppendChanged DEF InLane, Reading
<1>2. Step(p, Item(id, ticked)) = InLane(pre, ls, title, limit, Append(cards, CardOf(id, ticked, 0)), TRUE)
  <2>1. Step(p, Item(id, ticked)) = TakesItem(p, Item(id, ticked))
    BY <1>1 DEF Step, Item
  <2>2. TakesItem(p, Item(id, ticked))
          = [p EXCEPT !.lanes = [p.lanes EXCEPT ![N] = [p.lanes[N] EXCEPT !.cards = Append(p.lanes[N].cards, CardOf(id, ticked, 0))]],
                      !.open = TRUE]
    <3> HIDE DEF p, N
    <3>1. QED
      BY <1>1 DEF TakesItem, Item, CardOf
  <2>3. [p.lanes[N] EXCEPT !.cards = Append(p.lanes[N].cards, CardOf(id, ticked, 0))]
          = LaneWith(title, limit, Append(cards, CardOf(id, ticked, 0)))
    <3>0. PICK x : x = Append(cards, CardOf(id, ticked, 0))
      OBVIOUS
    <3>1. [LaneWith(title, limit, cards) EXCEPT !.cards = x] = LaneWith(title, limit, x)
      BY LaneChanged
    <3>2. LaneWith(title, limit, cards).cards = cards
      BY LaneChanged
    <3> HIDE DEF p, N
    <3>3. QED
      BY <1>1, <3>0, <3>1, <3>2
  <2>4. [p.lanes EXCEPT ![N] = LaneWith(title, limit, Append(cards, CardOf(id, ticked, 0)))]
          = Append(ls, LaneWith(title, limit, Append(cards, CardOf(id, ticked, 0))))
    BY <1>1, AppendChanged
  <2>5. Step(p, Item(id, ticked))
          = [p EXCEPT !.lanes = Append(ls, LaneWith(title, limit, Append(cards, CardOf(id, ticked, 0)))),
                      !.open = TRUE]
    <3> HIDE DEF p, N
    <3>1. QED
      BY <2>1, <2>2, <2>3, <2>4
  <2>6. QED
    BY <2>5 DEF InLane, Reading
<1>3. Plain(p, Item(id, ticked))
  BY DEF Plain, Item
<1>4. QED
  BY <1>2, <1>3 DEF Reads

\* An indented line in a lane is one more of its last card.
LEMMA LaneReadsMore ==
  ASSUME NEW pre, NEW ls \in Seq(BoardLane), NEW title, NEW limit, NEW cards \in Seq(BoardCard),
         NEW id, NEW ticked, NEW n \in Nat
  PROVE  Reads(InLane(pre, ls, title, limit, Append(cards, CardOf(id, ticked, n)), TRUE), Line("more"),
               InLane(pre, ls, title, limit, Append(cards, CardOf(id, ticked, n + 1)), TRUE))
<1> DEFINE N == Len(ls) + 1
           c == CardOf(id, ticked, n)  d == CardOf(id, ticked, n + 1)
           q == InLane(pre, ls, title, limit, Append(cards, c), TRUE)
           K == Len(cards) + 1
<1>1. Step(q, Line("more")) = InLane(pre, ls, title, limit, Append(cards, d), TRUE)
  <2>0. /\ Len(Append(cards, c)) = K /\ Append(cards, c)[K] = c
        /\ [Append(cards, c) EXCEPT ![K] = d] = Append(cards, d)
    <3> HIDE DEF c, d
    <3>1. QED
      BY AppendChanged
  <2>1. /\ q.at = "lane" /\ q.open /\ q.lanes = Append(ls, LaneWith(title, limit, Append(cards, c)))
        /\ Len(q.lanes) = N /\ q.lanes[N] = LaneWith(title, limit, Append(cards, c))
    BY AppendChanged DEF InLane, Reading
  <2>2. /\ q.lanes[N].cards = Append(cards, c) /\ Len(q.lanes[N].cards) = K
        /\ q.lanes[N].cards[K] = c
    <3> HIDE DEF q, N, K, c
    <3>1. QED
      BY <2>0, <2>1 DEF LaneWith
  <2>3. Step(q, Line("more")) = TakesMore(q)
    BY <2>1 DEF Step, Line
  <2>4. TakesMore(q)
          = [q EXCEPT !.lanes = [q.lanes EXCEPT ![N] =
               [q.lanes[N] EXCEPT !.cards = [q.lanes[N].cards EXCEPT ![K] =
                 [c EXCEPT !.more = c.more + 1]]]]]
    <3> HIDE DEF q, N, K, c
    <3>1. QED
      BY <2>1, <2>2 DEF TakesMore
  <2>5. [c EXCEPT !.more = c.more + 1] = d
    BY DEF CardOf
  <2>6. [q.lanes[N].cards EXCEPT ![K] = d] = Append(cards, d)
    <3> HIDE DEF q, N, K, c, d
    <3>1. QED
      BY <2>0, <2>2
  <2>7. [q.lanes[N] EXCEPT !.cards = Append(cards, d)] = LaneWith(title, limit, Append(cards, d))
    <3> HIDE DEF q, N, K, c, d
    <3>0. PICK x, y : x = Append(cards, c) /\ y = Append(cards, d)
      OBVIOUS
    <3>1. [LaneWith(title, limit, x) EXCEPT !.cards = y] = LaneWith(title, limit, y)
      BY LaneChanged
    <3>2. QED
      BY <2>1, <3>0, <3>1
  <2>8. [q.lanes EXCEPT ![N] = LaneWith(title, limit, Append(cards, d))]
          = Append(ls, LaneWith(title, limit, Append(cards, d)))
    <3> HIDE DEF q, c, d
    <3>1. QED
      BY <2>1, AppendChanged
  <2>9. Step(q, Line("more"))
          = [q EXCEPT !.lanes = Append(ls, LaneWith(title, limit, Append(cards, d)))]
    <3> HIDE DEF q, N, K, c, d
    <3>1. QED
      BY <2>3, <2>4, <2>5, <2>6, <2>7, <2>8
  <2>10. QED
    BY <2>9 DEF InLane, Reading
<1>2. Plain(q, Line("more"))
  BY DEF Plain, Line, InLane, Reading
<1> HIDE DEF q, d
<1>3. QED
  BY <1>1, <1>2 DEF Reads, q, d

\* R reads cards: what it has read, and whether a card is open, tell its state.
Files(R) ==
  \A cards \in Seq(BoardCard), o \in BOOLEAN :
    /\ \A id \in Ids \cup {"none"}, ticked \in BOOLEAN :
         /\ Reads(R[cards, o], Item(id, ticked), R[Append(cards, CardOf(id, ticked, 0)), TRUE])
         /\ \A n \in Nat :
              Reads(R[Append(cards, CardOf(id, ticked, n)), TRUE], Line("more"),
                    R[Append(cards, CardOf(id, ticked, n + 1)), TRUE])
    /\ Reads(R[cards, o], Line("blank"), R[cards, FALSE])

InLanes(pre, ls, title, limit) ==
  [x \in Seq(BoardCard) \X BOOLEAN |-> InLane(pre, ls, title, limit, x[1], x[2])]
InArchive(pre, ls) ==
  [x \in Seq(BoardCard) \X BOOLEAN |-> Reading(pre, ls, x[1], TRUE, <<>>, "archive", x[2])]

\* A card that is read is a card.
LEMMA CardIsTyped ==
  ASSUME NEW id \in Ids \cup {"none"}, NEW ticked \in BOOLEAN, NEW n \in Nat,
         NEW cards \in Seq(BoardCard)
  PROVE  CardOf(id, ticked, n) \in BoardCard /\ Append(cards, CardOf(id, ticked, n)) \in Seq(BoardCard)
<1>1. CardOf(id, ticked, n) \in BoardCard
  BY DEF CardOf, BoardCard
<1>2. QED
  BY <1>1, AppendProperties

\* A blank line after a card changes nothing but that it is not open.
LEMMA ItemCloses ==
  ASSUME NEW pre, NEW ls, NEW filed, NEW archived, NEW trailer, NEW at, NEW o, NEW f
  PROVE  [Reading(pre, ls, filed, archived, trailer, at, o) EXCEPT !.open = f]
           = Reading(pre, ls, filed, archived, trailer, at, f)
BY DEF Reading

\* In a lane, cards are read one by one.
LEMMA LanesFile ==
  ASSUME NEW pre, NEW ls \in Seq(BoardLane), NEW title, NEW limit
  PROVE  Files(InLanes(pre, ls, title, limit))
<1> DEFINE R == InLanes(pre, ls, title, limit)
           A(cards, o) == InLane(pre, ls, title, limit, cards, o)
<1>1. \A cards \in Seq(BoardCard), o \in BOOLEAN : R[cards, o] = A(cards, o)
  BY DEF InLanes
<1>2. \A cards, o : Reads(A(cards, o), Line("blank"), A(cards, FALSE))
  <2> TAKE cards, o
  <2>1. PICK p : p = A(cards, o)
    OBVIOUS
  <2>2. p.at = "lane"
    BY <2>1 DEF InLane, Reading
  <2>3. Plain(p, Line("blank"))
    BY DEF Plain, Line
  <2>4. Step(p, Line("blank")) = [p EXCEPT !.open = FALSE]
    BY <2>2 DEF Step, Line
  <2>5. [p EXCEPT !.open = FALSE] = A(cards, FALSE)
    <3>1. PICK g : g = Append(ls, LaneWith(title, limit, cards))
      OBVIOUS
    <3>2. PICK no, none : no = FALSE /\ none = <<>>
      OBVIOUS
    <3>3. A(cards, o) = Reading(pre, g, none, no, none, "lane", o)
      BY <3>1, <3>2, Zenon DEF InLane
    <3>4. A(cards, FALSE) = Reading(pre, g, none, no, none, "lane", no)
      BY <3>1, <3>2, Zenon DEF InLane
    <3>5. [Reading(pre, g, none, no, none, "lane", o) EXCEPT !.open = no]
            = Reading(pre, g, none, no, none, "lane", no)
      BY ItemCloses
    <3>6. QED
      BY <2>1, <3>2, <3>3, <3>4, <3>5, Zenon
  <2>6. QED
    BY <2>1, <2>3, <2>4, <2>5 DEF Reads
<1> HIDE DEF R, A
<1> SUFFICES ASSUME NEW cards \in Seq(BoardCard), NEW o \in BOOLEAN
             PROVE  /\ \A id \in Ids \cup {"none"}, ticked \in BOOLEAN :
                         /\ Reads(R[cards, o], Item(id, ticked), R[Append(cards, CardOf(id, ticked, 0)), TRUE])
                         /\ \A n \in Nat :
                              Reads(R[Append(cards, CardOf(id, ticked, n)), TRUE], Line("more"),
                                    R[Append(cards, CardOf(id, ticked, n + 1)), TRUE])
                    /\ Reads(R[cards, o], Line("blank"), R[cards, FALSE])
  BY DEF Files, R
<1>4. ASSUME NEW id \in Ids \cup {"none"}, NEW ticked \in BOOLEAN
      PROVE  Reads(R[cards, o], Item(id, ticked), R[Append(cards, CardOf(id, ticked, 0)), TRUE])
  <2>1. Append(cards, CardOf(id, ticked, 0)) \in Seq(BoardCard)
    BY CardIsTyped
  <2>2. R[cards, o] = A(cards, o)
        /\ R[Append(cards, CardOf(id, ticked, 0)), TRUE] = A(Append(cards, CardOf(id, ticked, 0)), TRUE)
    BY <1>1, <2>1
  <2>3. Reads(A(cards, o), Item(id, ticked), A(Append(cards, CardOf(id, ticked, 0)), TRUE))
    BY LaneReadsItem DEF A
  <2>4. QED
    BY <2>2, <2>3
<1>5. ASSUME NEW id \in Ids \cup {"none"}, NEW ticked \in BOOLEAN, NEW n \in Nat
      PROVE  Reads(R[Append(cards, CardOf(id, ticked, n)), TRUE], Line("more"),
                   R[Append(cards, CardOf(id, ticked, n + 1)), TRUE])
  <2>1. /\ Append(cards, CardOf(id, ticked, n)) \in Seq(BoardCard)
        /\ Append(cards, CardOf(id, ticked, n + 1)) \in Seq(BoardCard)
    BY CardIsTyped
  <2>2. /\ R[Append(cards, CardOf(id, ticked, n)), TRUE] = A(Append(cards, CardOf(id, ticked, n)), TRUE)
        /\ R[Append(cards, CardOf(id, ticked, n + 1)), TRUE] = A(Append(cards, CardOf(id, ticked, n + 1)), TRUE)
    BY <1>1, <2>1
  <2>3. Reads(A(Append(cards, CardOf(id, ticked, n)), TRUE), Line("more"),
              A(Append(cards, CardOf(id, ticked, n + 1)), TRUE))
    BY LaneReadsMore DEF A
  <2>4. QED
    BY <2>2, <2>3
<1>6. Reads(R[cards, o], Line("blank"), R[cards, FALSE])
  <2>1. R[cards, o] = A(cards, o) /\ R[cards, FALSE] = A(cards, FALSE)
    BY <1>1
  <2>2. QED
    BY <1>2, <2>1
<1>7. QED
  BY <1>4, <1>5, <1>6

\* An item in the archive is a new card of it.
LEMMA ArchiveReadsItem ==
  ASSUME NEW pre, NEW ls, NEW cards \in Seq(BoardCard), NEW id, NEW ticked, NEW o
  PROVE  Reads(Reading(pre, ls, cards, TRUE, <<>>, "archive", o), Item(id, ticked),
               Reading(pre, ls, Append(cards, CardOf(id, ticked, 0)), TRUE, <<>>, "archive", TRUE))
BY DEF Reads, Plain, Step, Item, TakesItem, Reading, CardOf

\* An indented line in the archive is one more of its last card.
LEMMA ArchiveReadsMore ==
  ASSUME NEW pre, NEW ls, NEW cards \in Seq(BoardCard), NEW id, NEW ticked, NEW n \in Nat
  PROVE  Reads(Reading(pre, ls, Append(cards, CardOf(id, ticked, n)), TRUE, <<>>, "archive", TRUE), Line("more"),
               Reading(pre, ls, Append(cards, CardOf(id, ticked, n + 1)), TRUE, <<>>, "archive", TRUE))
<1> DEFINE c == CardOf(id, ticked, n)  d == CardOf(id, ticked, n + 1)
           K == Len(cards) + 1
           q == Reading(pre, ls, Append(cards, c), TRUE, <<>>, "archive", TRUE)
<1>1. Step(q, Line("more")) = Reading(pre, ls, Append(cards, d), TRUE, <<>>, "archive", TRUE)
  <2>1. /\ Len(Append(cards, c)) = K /\ Append(cards, c)[K] = c
        /\ [Append(cards, c) EXCEPT ![K] = d] = Append(cards, d)
    <3> HIDE DEF c, d
    <3>1. QED
      BY AppendChanged
  <2>2. q.at = "archive" /\ q.open /\ q.archive = Append(cards, c)
    BY DEF Reading
  <2>3. [c EXCEPT !.more = c.more + 1] = d
    BY DEF CardOf
  <2>4. Step(q, Line("more")) = TakesMore(q)
    BY <2>2 DEF Step, Line
  <2>5. TakesMore(q) = [q EXCEPT !.archive = [q.archive EXCEPT ![K] = [c EXCEPT !.more = c.more + 1]]]
    <3> HIDE DEF q, K, c
    <3>1. QED
      BY <2>1, <2>2 DEF TakesMore
  <2>6. Step(q, Line("more")) = [q EXCEPT !.archive = Append(cards, d)]
    <3> HIDE DEF q, K, c, d
    <3>1. QED
      BY <2>1, <2>2, <2>3, <2>4, <2>5
  <2>7. QED
    BY <2>6 DEF Reading
<1>2. Plain(q, Line("more"))
  BY DEF Plain, Reading
<1> HIDE DEF q, d
<1>3. QED
  BY <1>1, <1>2 DEF Reads, q, d

\* In the archive, cards are read one by one.
LEMMA ArchiveFiles ==
  ASSUME NEW pre, NEW ls
  PROVE  Files(InArchive(pre, ls))
<1> DEFINE R == InArchive(pre, ls)
           A(cards, o) == Reading(pre, ls, cards, TRUE, <<>>, "archive", o)
<1>1. \A cards \in Seq(BoardCard), o \in BOOLEAN : R[cards, o] = A(cards, o)
  BY DEF InArchive
<1>2. \A cards, o : Reads(A(cards, o), Line("blank"), A(cards, FALSE))
  BY DEF Reads, Plain, Step, Line, Reading
<1> HIDE DEF R, A
<1> SUFFICES ASSUME NEW cards \in Seq(BoardCard), NEW o \in BOOLEAN
             PROVE  /\ \A id \in Ids \cup {"none"}, ticked \in BOOLEAN :
                         /\ Reads(R[cards, o], Item(id, ticked), R[Append(cards, CardOf(id, ticked, 0)), TRUE])
                         /\ \A n \in Nat :
                              Reads(R[Append(cards, CardOf(id, ticked, n)), TRUE], Line("more"),
                                    R[Append(cards, CardOf(id, ticked, n + 1)), TRUE])
                    /\ Reads(R[cards, o], Line("blank"), R[cards, FALSE])
  BY DEF Files, R
<1>4. ASSUME NEW id \in Ids \cup {"none"}, NEW ticked \in BOOLEAN
      PROVE  Reads(R[cards, o], Item(id, ticked), R[Append(cards, CardOf(id, ticked, 0)), TRUE])
  <2>1. Append(cards, CardOf(id, ticked, 0)) \in Seq(BoardCard)
    BY CardIsTyped
  <2>2. R[cards, o] = A(cards, o)
        /\ R[Append(cards, CardOf(id, ticked, 0)), TRUE] = A(Append(cards, CardOf(id, ticked, 0)), TRUE)
    BY <1>1, <2>1
  <2>3. Reads(A(cards, o), Item(id, ticked), A(Append(cards, CardOf(id, ticked, 0)), TRUE))
    BY ArchiveReadsItem DEF A
  <2>4. QED
    BY <2>2, <2>3
<1>5. ASSUME NEW id \in Ids \cup {"none"}, NEW ticked \in BOOLEAN, NEW n \in Nat
      PROVE  Reads(R[Append(cards, CardOf(id, ticked, n)), TRUE], Line("more"),
                   R[Append(cards, CardOf(id, ticked, n + 1)), TRUE])
  <2>1. /\ Append(cards, CardOf(id, ticked, n)) \in Seq(BoardCard)
        /\ Append(cards, CardOf(id, ticked, n + 1)) \in Seq(BoardCard)
    BY CardIsTyped
  <2>2. /\ R[Append(cards, CardOf(id, ticked, n)), TRUE] = A(Append(cards, CardOf(id, ticked, n)), TRUE)
        /\ R[Append(cards, CardOf(id, ticked, n + 1)), TRUE] = A(Append(cards, CardOf(id, ticked, n + 1)), TRUE)
    BY <1>1, <2>1
  <2>3. Reads(A(Append(cards, CardOf(id, ticked, n)), TRUE), Line("more"),
              A(Append(cards, CardOf(id, ticked, n + 1)), TRUE))
    BY ArchiveReadsMore DEF A
  <2>4. QED
    BY <2>2, <2>3
<1>6. Reads(R[cards, o], Line("blank"), R[cards, FALSE])
  <2>1. R[cards, o] = A(cards, o) /\ R[cards, FALSE] = A(cards, FALSE)
    BY <1>1
  <2>2. QED
    BY <1>2, <2>1
<1>7. QED
  BY <1>4, <1>5, <1>6

-----------------------------------------------------------------------------
(* The lines of cards, and of a lane.                                      *)

\* D has the lines that are written for lanes and cards.
Writable(D) ==
  /\ Line("blank") \in D /\ Line("rule") \in D /\ Line("more") \in D
  /\ \A title \in ToSet(Active) \cup {Icebox, "Archive"}, limit \in {0, 3} : Heading(title, limit) \in D
  /\ \A id \in Ids \cup {"none"}, ticked \in BOOLEAN : Item(id, ticked) \in D

\* The lines of a card: its item, and those that are indented.
LEMMA BlockIs ==
  ASSUME NEW D, Writable(D), NEW card \in BoardCard
  PROVE  /\ Block(card) \in Seq(D) /\ Len(Block(card)) = card.more + 1
         /\ Block(card)[1] = Item(card.id, card.ticked)
         /\ \A i \in 2..card.more + 1 : Block(card)[i] = Line("more")
<1> DEFINE a == <<Item(card.id, card.ticked)>>
           b == [n \in 1..card.more |-> Line("more")]
<1>1. card.more \in Nat /\ card.id \in Ids \cup {"none"} /\ card.ticked \in BOOLEAN
  BY DEF BoardCard
<1>2. a \in Seq(D) /\ Len(a) = 1 /\ a[1] = Item(card.id, card.ticked)
  <2>1. Item(card.id, card.ticked) \in D
    BY <1>1 DEF Writable
  <2>2. QED
    BY <2>1
<1>3. b \in Seq(D) /\ Len(b) = card.more /\ \A i \in 1..card.more : b[i] = Line("more")
  <2>1. Line("more") \in D
    BY DEF Writable
  <2>2. QED
    BY <1>1, <2>1
<1>4. Block(card) = a \o b
  BY DEF Block
<1> HIDE DEF a, b
<1>5. /\ a \o b \in Seq(D) /\ Len(a \o b) = Len(a) + Len(b)
      /\ \A i \in 1..Len(a) + Len(b) : (a \o b)[i] = IF i <= Len(a) THEN a[i] ELSE b[i - Len(a)]
  BY <1>2, <1>3, ConcatProperties
<1>6. Len(a \o b) = card.more + 1
  BY <1>1, <1>2, <1>3, <1>5
<1>7. (a \o b)[1] = Item(card.id, card.ticked)
  BY <1>1, <1>2, <1>3, <1>5
<1>8. ASSUME NEW i \in 2..card.more + 1 PROVE (a \o b)[i] = Line("more")
  <2>1. i \in 1..Len(a) + Len(b) /\ ~(i <= Len(a)) /\ i - Len(a) \in 1..card.more
    BY <1>1, <1>2, <1>3
  <2>2. QED
    BY <1>3, <1>5, <2>1
<1>9. QED
  BY <1>4, <1>5, <1>6, <1>7, <1>8

\* The lines of a card are read as that card.
LEMMA BlockReads ==
  ASSUME NEW R, Files(R), NEW D, Writable(D), NEW card \in BoardCard, NEW cards \in Seq(BoardCard),
         NEW o \in BOOLEAN
  PROVE  Leads(R[cards, o], Block(card), R[Append(cards, card), TRUE])
<1>1. PICK id, ticked, n : /\ id \in Ids \cup {"none"} /\ ticked \in BOOLEAN /\ n \in Nat
                           /\ id = card.id /\ ticked = card.ticked /\ n = card.more
                           /\ card = CardOf(id, ticked, n)
  BY DEF BoardCard, CardOf
<1>2. /\ Block(card) \in Seq(D) /\ Len(Block(card)) = n + 1
      /\ Block(card)[1] = Item(id, ticked)
      /\ \A i \in 2..n + 1 : Block(card)[i] = Line("more")
  BY <1>1, BlockIs
<1>3. PICK s \in Seq(D) : s = Block(card)
  BY <1>2
<1> DEFINE f == [i \in 0..n + 1 |-> IF i = 0 THEN R[cards, o] ELSE R[Append(cards, CardOf(id, ticked, i - 1)), TRUE]]
<1>0. 0 \in 0..n + 1 /\ \A i \in 1..n + 1 : i \in 0..n + 1 /\ i # 0
  BY <1>1
<1>4. f[0] = R[cards, o]
  BY <1>0, Zenon
<1>5. \A i \in 1..n + 1 : f[i] = R[Append(cards, CardOf(id, ticked, i - 1)), TRUE]
  BY <1>0, Zenon
<1> HIDE DEF f
<1>6. ASSUME NEW i \in 1..n + 1 PROVE Reads(f[i - 1], s[i], f[i])
  <2>1. CASE i = 1
    <3>1. s[i] = Item(id, ticked) /\ f[i - 1] = R[cards, o]
          /\ f[i] = R[Append(cards, CardOf(id, ticked, 0)), TRUE]
      <4>1. i - 1 = 0 /\ i \in 1..n + 1
        BY <2>1
      <4>2. s[i] = Item(id, ticked)
        BY <1>2, <1>3, <2>1
      <4>3. f[i] = R[Append(cards, CardOf(id, ticked, i - 1)), TRUE]
        BY <1>5
      <4>4. QED
        BY <1>4, <4>1, <4>2, <4>3
    <3>2. Reads(R[cards, o], Item(id, ticked), R[Append(cards, CardOf(id, ticked, 0)), TRUE])
      BY <1>1 DEF Files
    <3>3. QED
      BY <3>1, <3>2
  <2>2. CASE i # 1
    <3>1. PICK m \in Nat : m = i - 2
      BY <1>1, <2>2
    <3>2. i - 1 \in 1..n + 1 /\ i - 1 - 1 = m /\ i - 1 = m + 1 /\ i \in 2..n + 1
      BY <1>1, <2>2, <3>1
    <3>3. /\ s[i] = Line("more")
          /\ f[i - 1] = R[Append(cards, CardOf(id, ticked, m)), TRUE]
          /\ f[i] = R[Append(cards, CardOf(id, ticked, m + 1)), TRUE]
      BY <1>2, <1>3, <1>5, <3>2
    <3>4. Reads(R[Append(cards, CardOf(id, ticked, m)), TRUE], Line("more"),
                R[Append(cards, CardOf(id, ticked, m + 1)), TRUE])
      BY <1>1 DEF Files
    <3>5. QED
      BY <3>3, <3>4
  <2>3. QED
    BY <2>1, <2>2
<1>7. \A i \in 1..Len(s) : Plain(f[i - 1], s[i]) /\ f[i] = Step(f[i - 1], s[i])
  BY <1>2, <1>3, <1>6 DEF Reads
<1>8. Leads(f[0], s, f[Len(s)])
  BY <1>7, LeadsBy
<1>9. Len(s) = n + 1 /\ n + 1 \in 1..n + 1 /\ (n + 1) - 1 = n
  BY <1>1, <1>2, <1>3
<1>10. f[Len(s)] = R[Append(cards, card), TRUE]
  BY <1>1, <1>5, <1>9
<1>11. QED
  BY <1>3, <1>4, <1>8, <1>10

BlocksOf(cards) == [i \in DOMAIN cards |-> Block(cards[i])]

\* The blocks of cards are sequences of lines.
LEMMA BlocksAre ==
  ASSUME NEW D, Writable(D), NEW cards \in Seq(BoardCard)
  PROVE  /\ BlocksOf(cards) \in Seq(Seq(D)) /\ Len(BlocksOf(cards)) = Len(cards)
         /\ \A i \in 1..Len(cards) : BlocksOf(cards)[i] = Block(cards[i])
<1>1. PICK n \in Nat : n = Len(cards) /\ DOMAIN cards = 1..n
  BY LenProperties
<1>2. \A i \in 1..n : cards[i] \in BoardCard
  BY <1>1, ElementOfSeq
<1>3. \A i \in 1..n : Block(cards[i]) \in Seq(D)
  BY <1>2, BlockIs
<1>4. BlocksOf(cards) = [i \in 1..n |-> Block(cards[i])]
  BY <1>1 DEF BlocksOf
<1>5. QED
  BY <1>1, <1>3, <1>4

\* The blocks of cards lead from no card to them.
LEMMA BlocksRead ==
  ASSUME NEW R, Files(R), NEW D, Writable(D), NEW cards \in Seq(BoardCard), cards # <<>>
  PROVE  /\ Leads(R[<<>>, FALSE], FlattenSeq(BlocksOf(cards)), R[cards, TRUE])
         /\ FlattenSeq(BlocksOf(cards)) \in Seq(D)
<1>1. PICK n \in Nat : n = Len(cards)
  BY LenProperties
<1>2. n # 0
  BY <1>1, EmptySeq
<1> DEFINE P == [i \in 0..n |-> IF i = 0 THEN R[<<>>, FALSE] ELSE R[SubSeq(cards, 1, i), TRUE]]
<1>0. 0 \in 0..n /\ \A i \in 1..n : i \in 0..n /\ i # 0
  BY <1>1
<1>3. P[0] = R[<<>>, FALSE] /\ \A i \in 1..n : P[i] = R[SubSeq(cards, 1, i), TRUE]
  BY <1>0, Zenon
<1> HIDE DEF P
<1>4. \A i \in 1..n : cards[i] \in BoardCard
  BY <1>1, ElementOfSeq
<1>5. /\ BlocksOf(cards) \in Seq(Seq(D)) /\ Len(BlocksOf(cards)) = n
      /\ \A i \in 1..n : BlocksOf(cards)[i] = Block(cards[i])
  BY <1>1, BlocksAre
<1>6. ASSUME NEW i \in 1..n PROVE Leads(P[i - 1], BlocksOf(cards)[i], P[i])
  <2>1. PICK s \in Seq(BoardCard) : s = SubSeq(cards, 1, i - 1)
    <3>1. 1 \in Int /\ i - 1 \in Int /\ \A j \in 1..i - 1 : cards[j] \in BoardCard
      BY <1>1, <1>4
    <3>2. SubSeq(cards, 1, i - 1) \in Seq(BoardCard)
      BY <3>1, SubSeqProperties
    <3>3. QED
      BY <3>2
  <2>2. SubSeq(cards, 1, i) = Append(s, cards[i])
    <3>1. SubSeq(cards, 1, i) = SubSeq(cards, 1, i - 1) \o <<cards[i]>>
      <4>1. 1 \in 1..Len(cards) /\ i \in 1..Len(cards)
        BY <1>1
      <4>2. QED
        BY <4>1, SubSeqRecursiveSecond
    <3>2. Append(s, cards[i]) = s \o <<cards[i]>>
      BY <1>4, AppendIsConcat
    <3>3. QED
      BY <2>1, <3>1, <3>2
  <2>3. PICK o \in BOOLEAN : P[i - 1] = R[s, o]
    <3>1. CASE i = 1
      <4>1. s = <<>>
        BY <2>1, <3>1, SubSeqEmpty
      <4>2. P[i - 1] = R[s, FALSE]
        <5>1. i - 1 = 0
          BY <3>1
        <5>2. QED
          BY <1>3, <4>1, <5>1
      <4>3. QED
        BY <4>2
    <3>2. CASE i # 1
      <4>1. i - 1 \in 1..n
        BY <3>2
      <4>2. P[i - 1] = R[s, TRUE]
        BY <1>3, <2>1, <4>1
      <4>3. QED
        BY <4>2
    <3>3. QED
      BY <3>1, <3>2
  <2>4. P[i] = R[Append(s, cards[i]), TRUE]
    BY <1>3, <2>2
  <2>5. Leads(R[s, o], Block(cards[i]), R[Append(s, cards[i]), TRUE])
    <3>1. cards[i] \in BoardCard
      BY <1>4
    <3>2. QED
      BY <3>1, BlockReads
  <2>6. QED
    BY <1>5, <2>3, <2>4, <2>5
<1>7. Leads(P[0], FlattenSeq(BlocksOf(cards)), P[n])
  BY <1>5, <1>6, LeadsAll
<1>9. P[n] = R[cards, TRUE]
  <2>1. SubSeq(cards, 1, n) = cards
    BY <1>1, SubSeqFull
  <2>2. n \in 1..n
    BY <1>1, <1>2
  <2>3. QED
    BY <1>3, <2>1, <2>2
<1>10. FlattenSeq(BlocksOf(cards)) \in Seq(D)
  <2>1. PICK f : FlattenSeq(BlocksOf(cards)) = f[n] /\ \A i \in 0..n : f[i] \in Seq(D)
    BY <1>5, FlattenIs
  <2>2. QED
    BY <2>1
<1>11. QED
  BY <1>3, <1>7, <1>9, <1>10

\* A line is a text.
LEMMA OneLine ==
  ASSUME NEW D, NEW x \in D
  PROVE  <<x>> \in Seq(D)
OBVIOUS

\* A line that is read leads where it does.
LEMMA LeadsReads ==
  ASSUME NEW p, NEW l, NEW q, Reads(p, l, q)
  PROVE  Leads(p, <<l>>, q)
BY LeadsOne DEF Reads

\* The cards of a lane, and the blank line after them.
LEMMA CardLinesRead ==
  ASSUME NEW R, Files(R), NEW D, Writable(D), NEW cards \in Seq(BoardCard)
  PROVE  /\ CardLines(cards) \in Seq(D)
         /\ Leads(R[<<>>, FALSE], CardLines(cards) \o <<Line("blank")>>, R[cards, FALSE])
<1> DEFINE blank == <<Line("blank")>>
<1>1. blank \in Seq(D)
  BY DEF Writable
<1>2. ASSUME NEW some \in Seq(BoardCard), NEW o \in BOOLEAN
      PROVE  Leads(R[some, o], blank, R[some, FALSE])
  <2>1. Reads(R[some, o], Line("blank"), R[some, FALSE])
    BY DEF Files
  <2>2. QED
    BY <2>1, LeadsReads
<1> HIDE DEF blank
<1>3. CASE cards = <<>>
  <2>1. CardLines(cards) = <<>> /\ <<>> \in Seq(D)
    BY <1>3, EmptySeq DEF CardLines
  <2>2. <<>> \o blank = blank
    BY <1>1, ConcatEmptySeq
  <2>3. Leads(R[cards, FALSE], blank, R[cards, FALSE])
    BY <1>2
  <2>4. QED
    BY <1>3, <2>1, <2>2, <2>3 DEF blank
<1>4. CASE cards # <<>>
  <2>1. PICK s \in Seq(D) : s = FlattenSeq(BlocksOf(cards)) /\ Leads(R[<<>>, FALSE], s, R[cards, TRUE])
    BY <1>4, BlocksRead
  <2>2. CardLines(cards) = blank \o s
    BY <1>4, <2>1 DEF CardLines, BlocksOf, blank
  <2>3. <<>> \in Seq(BoardCard)
    BY EmptySeq
  <2>4. Leads(R[<<>>, FALSE], blank, R[<<>>, FALSE])
    BY <1>2, <2>3
  <2>5. Leads(R[<<>>, FALSE], blank \o s, R[cards, TRUE]) /\ blank \o s \in Seq(D)
    BY <1>1, <2>1, <2>4, LeadsOn, ConcatProperties
  <2>6. Leads(R[cards, TRUE], blank, R[cards, FALSE])
    BY <1>2
  <2>7. Leads(R[<<>>, FALSE], (blank \o s) \o blank, R[cards, FALSE])
    BY <1>1, <2>5, <2>6, LeadsOn
  <2>8. QED
    BY <2>2, <2>5, <2>7 DEF blank
<1>5. QED
  BY <1>3, <1>4

\* The lines of a lane: its heading, a blank line, its cards.
LEMMA LaneLinesAre ==
  ASSUME NEW D, Writable(D), NEW title \in ToSet(Active) \cup {Icebox, "Archive"},
         NEW limit \in {0, 3}, NEW cards, CardLines(cards) \in Seq(D)
  PROVE  /\ LaneLines(LaneWith(title, limit, cards))
               = <<Heading(title, limit)>> \o (CardLines(cards) \o <<Line("blank")>>)
         /\ <<Heading(title, limit)>> \in Seq(D) /\ CardLines(cards) \o <<Line("blank")>> \in Seq(D)
         /\ LaneLines(LaneWith(title, limit, cards)) \in Seq(D)
<1>1. PICK x \in D, y \in D : x = Heading(title, limit) /\ y = Line("blank")
  BY DEF Writable
<1>2. LaneLines(LaneWith(title, limit, cards)) = (<<x>> \o CardLines(cards)) \o <<y>>
  BY <1>1 DEF LaneLines, LaneWith
<1>3. PICK h, b : h = <<x>> /\ b = <<y>>
  OBVIOUS
<1>4. h \in Seq(D) /\ b \in Seq(D)
  BY <1>3, OneLine
<1>5. PICK c \in Seq(D) : c = CardLines(cards)
  OBVIOUS
<1>6. (h \o c) \o b = h \o (c \o b)
  BY <1>4, <1>5, ConcatAssociative
<1>7. c \o b \in Seq(D)
  BY <1>4, <1>5, ConcatProperties
<1>8. h \o (c \o b) \in Seq(D)
  BY <1>4, <1>7, ConcatProperties
<1>9. QED
  BY <1>1, <1>2, <1>3, <1>4, <1>5, <1>6, <1>7, <1>8

\* The lines of a lane are read as that lane.
LEMMA LaneLinesRead ==
  ASSUME NEW R, Files(R), NEW D, Writable(D), NEW title \in ToSet(Active) \cup {Icebox, "Archive"},
         NEW limit \in {0, 3}, NEW cards \in Seq(BoardCard),
         NEW p, Reads(p, Heading(title, limit), R[<<>>, FALSE])
  PROVE  /\ LaneLines(LaneWith(title, limit, cards)) \in Seq(D)
         /\ Leads(p, LaneLines(LaneWith(title, limit, cards)), R[cards, FALSE])
<1>1. Leads(p, <<Heading(title, limit)>>, R[<<>>, FALSE])
  BY LeadsReads
<1>2. /\ CardLines(cards) \in Seq(D)
      /\ Leads(R[<<>>, FALSE], CardLines(cards) \o <<Line("blank")>>, R[cards, FALSE])
  BY CardLinesRead
<1>3. /\ LaneLines(LaneWith(title, limit, cards))
            = <<Heading(title, limit)>> \o (CardLines(cards) \o <<Line("blank")>>)
      /\ <<Heading(title, limit)>> \in Seq(D) /\ CardLines(cards) \o <<Line("blank")>> \in Seq(D)
      /\ LaneLines(LaneWith(title, limit, cards)) \in Seq(D)
  BY <1>2, LaneLinesAre
<1>4. Leads(p, <<Heading(title, limit)>> \o (CardLines(cards) \o <<Line("blank")>>), R[cards, FALSE])
  BY <1>1, <1>2, <1>3, LeadsOn
<1>5. QED
  BY <1>3, <1>4

\* Reading the heading of a lane, and of the archive.
LEMMA HeadingReads ==
  ASSUME NEW pre, NEW ls, NEW at \in {"preamble", "lane"},
         NEW title \in ToSet(Active) \cup {Icebox}, NEW limit
  PROVE  Reads(Reading(pre, ls, <<>>, FALSE, <<>>, at, FALSE), Heading(title, limit),
               InLane(pre, ls, title, limit, <<>>, FALSE))
<1>1. title # "Archive"
  BY BoardTextAssumption
<1> DEFINE p == Reading(pre, ls, <<>>, FALSE, <<>>, at, FALSE)  l == Heading(title, limit)
<1>2. l.k = "lane" /\ l.title = title /\ l.limit = limit
  BY DEF Heading
<1>3. /\ p.at = at /\ at # "trailer" /\ at # "archive" /\ p.lanes = ls
  BY DEF Reading
<1>4. Step(p, l) = TakesHeading(p, l)
  BY <1>2, <1>3 DEF Step
<1>5. TakesHeading(p, l)
        = [p EXCEPT !.at = "lane", !.open = FALSE, !.lanes = Append(ls, LaneWith(title, limit, <<>>))]
  <2> HIDE DEF p, l
  <2>1. QED
    BY <1>1, <1>2, <1>3 DEF TakesHeading, LaneWith
<1>6. Step(p, l) = InLane(pre, ls, title, limit, <<>>, FALSE)
  <2> HIDE DEF l
  <2>1. QED
    BY <1>4, <1>5 DEF InLane, Reading
<1>7. Plain(p, l)
  BY <1>2 DEF Plain
<1>8. QED
  BY <1>6, <1>7 DEF Reads

\* The heading of the archive opens it, whatever was read before.
LEMMA ArchiveHeadingReads ==
  ASSUME NEW pre, NEW ls, NEW at \in {"preamble", "lane"}, NEW limit
  PROVE  Reads(Reading(pre, ls, <<>>, FALSE, <<>>, at, FALSE), Heading("Archive", limit),
               Reading(pre, ls, <<>>, TRUE, <<>>, "archive", FALSE))
BY DEF Reads, Plain, Step, Heading, TakesHeading, Reading

LanesLines(lanes) == [n \in DOMAIN lanes |-> LaneLines(lanes[n])]

\* A lane is told by its title, its limit and its cards.
LEMMA LaneIs ==
  ASSUME NEW lane \in BoardLane
  PROVE  /\ lane = LaneWith(lane.title, lane.limit, lane.cards)
         /\ lane.title \in ToSet(Active) \cup {Icebox} /\ lane.limit \in {0, 3}
         /\ lane.cards \in Seq(BoardCard)
BY DEF BoardLane, LaneWith

\* A lane is read after any others.
LEMMA LaneReadsIn ==
  ASSUME NEW D, Writable(D), NEW pre, NEW ls \in Seq(BoardLane), NEW at \in {"preamble", "lane"},
         NEW lane \in BoardLane
  PROVE  /\ LaneLines(lane) \in Seq(D)
         /\ Leads(Reading(pre, ls, <<>>, FALSE, <<>>, at, FALSE), LaneLines(lane),
                  Reading(pre, Append(ls, lane), <<>>, FALSE, <<>>, "lane", FALSE))
<1>1. PICK title, limit, cards :
         /\ lane = LaneWith(title, limit, cards)
         /\ title \in ToSet(Active) \cup {Icebox} /\ limit \in {0, 3} /\ cards \in Seq(BoardCard)
  BY LaneIs
<1>2. PICK R : R = InLanes(pre, ls, title, limit)
  OBVIOUS
<1>3. Files(R)
  BY <1>2, LanesFile
<1>4. /\ R[<<>>, FALSE] = InLane(pre, ls, title, limit, <<>>, FALSE)
      /\ R[cards, FALSE] = InLane(pre, ls, title, limit, cards, FALSE)
  <2>1. <<>> \in Seq(BoardCard)
    BY EmptySeq
  <2>2. \A some \in Seq(BoardCard), o \in BOOLEAN : R[some, o] = InLane(pre, ls, title, limit, some, o)
    BY <1>2 DEF InLanes
  <2>3. QED
    BY <1>1, <2>1, <2>2
<1>5. PICK p : p = Reading(pre, ls, <<>>, FALSE, <<>>, at, FALSE)
  OBVIOUS
<1>6. Reads(p, Heading(title, limit), R[<<>>, FALSE])
  BY <1>1, <1>4, <1>5, HeadingReads
<1>7. title \in ToSet(Active) \cup {Icebox, "Archive"}
  BY <1>1
<1>8. /\ LaneLines(LaneWith(title, limit, cards)) \in Seq(D)
      /\ Leads(p, LaneLines(LaneWith(title, limit, cards)), R[cards, FALSE])
  BY <1>1, <1>3, <1>6, <1>7, LaneLinesRead
<1>9. R[cards, FALSE] = Reading(pre, Append(ls, lane), <<>>, FALSE, <<>>, "lane", FALSE)
  BY <1>1, <1>4 DEF InLane
<1>10. QED
  BY <1>1, <1>5, <1>8, <1>9

\* The lines of lanes are sequences of lines.
LEMMA LanesLinesAre ==
  ASSUME NEW D, Writable(D), NEW lanes \in Seq(BoardLane)
  PROVE  /\ LanesLines(lanes) \in Seq(Seq(D)) /\ Len(LanesLines(lanes)) = Len(lanes)
         /\ \A i \in 1..Len(lanes) : LanesLines(lanes)[i] = LaneLines(lanes[i])
<1>1. PICK n \in Nat : n = Len(lanes) /\ DOMAIN lanes = 1..n
  BY LenProperties
<1>2. \A i \in 1..n : lanes[i] \in BoardLane
  BY <1>1, ElementOfSeq
<1>3. \A i \in 1..n : LaneLines(lanes[i]) \in Seq(D)
  <2> TAKE i \in 1..n
  <2>1. lanes[i] \in BoardLane /\ <<>> \in Seq(BoardLane) /\ "lane" \in {"preamble", "lane"}
    BY <1>2, EmptySeq
  <2>2. \A pre : LaneLines(lanes[i]) \in Seq(D)
    BY <2>1, LaneReadsIn
  <2>3. QED
    BY <2>2
<1>4. LanesLines(lanes) = [i \in 1..n |-> LaneLines(lanes[i])]
  BY <1>1 DEF LanesLines
<1>5. QED
  BY <1>1, <1>3, <1>4

\* The lanes lead from the preamble to the end of the last one.
AfterLanes(pre, lanes) ==
  Reading(pre, lanes, <<>>, FALSE, <<>>, IF lanes = <<>> THEN "preamble" ELSE "lane", FALSE)

\* Lanes are read one after the other.
LEMMA LanesRead ==
  ASSUME NEW D, Writable(D), NEW pre, NEW lanes \in Seq(BoardLane)
  PROVE  /\ Leads(AfterLanes(pre, <<>>), FlattenSeq(LanesLines(lanes)), AfterLanes(pre, lanes))
         /\ FlattenSeq(LanesLines(lanes)) \in Seq(D)
<1>1. PICK n \in Nat : n = Len(lanes)
  BY LenProperties
<1> DEFINE P == [i \in 0..n |-> AfterLanes(pre, SubSeq(lanes, 1, i))]
<1>3. \A i \in 0..n : P[i] = AfterLanes(pre, SubSeq(lanes, 1, i))
  BY Zenon
<1> HIDE DEF P
<1>4. \A i \in 1..n : lanes[i] \in BoardLane
  BY <1>1, ElementOfSeq
<1>5. /\ LanesLines(lanes) \in Seq(Seq(D)) /\ Len(LanesLines(lanes)) = n
      /\ \A i \in 1..n : LanesLines(lanes)[i] = LaneLines(lanes[i])
  BY <1>1, LanesLinesAre
<1>6. ASSUME NEW i \in 1..n PROVE Leads(P[i - 1], LanesLines(lanes)[i], P[i])
  <2>1. PICK s \in Seq(BoardLane) : s = SubSeq(lanes, 1, i - 1)
    <3>1. 1 \in Int /\ i - 1 \in Int /\ \A j \in 1..i - 1 : lanes[j] \in BoardLane
      BY <1>1, <1>4
    <3>2. SubSeq(lanes, 1, i - 1) \in Seq(BoardLane)
      BY <3>1, SubSeqProperties
    <3>3. QED
      BY <3>2
  <2>2. SubSeq(lanes, 1, i) = Append(s, lanes[i]) /\ Append(s, lanes[i]) # <<>>
    <3>1. SubSeq(lanes, 1, i) = SubSeq(lanes, 1, i - 1) \o <<lanes[i]>>
      <4>1. 1 \in 1..Len(lanes) /\ i \in 1..Len(lanes)
        BY <1>1
      <4>2. QED
        BY <4>1, SubSeqRecursiveSecond
    <3>2. Append(s, lanes[i]) = s \o <<lanes[i]>> /\ Append(s, lanes[i]) # <<>>
      BY <1>4, AppendIsConcat, AppendProperties
    <3>3. QED
      BY <2>1, <3>1, <3>2
  <2>3. PICK at \in {"preamble", "lane"} : P[i - 1] = Reading(pre, s, <<>>, FALSE, <<>>, at, FALSE)
    <3>1. i - 1 \in 0..n
      OBVIOUS
    <3>2. P[i - 1] = AfterLanes(pre, s)
      BY <1>3, <2>1, <3>1
    <3>3. QED
      BY <3>2 DEF AfterLanes
  <2>4. P[i] = Reading(pre, Append(s, lanes[i]), <<>>, FALSE, <<>>, "lane", FALSE)
    <3>1. i \in 0..n
      OBVIOUS
    <3>2. P[i] = AfterLanes(pre, Append(s, lanes[i]))
      BY <1>3, <2>2, <3>1
    <3>3. QED
      BY <2>2, <3>2 DEF AfterLanes
  <2>5. Leads(Reading(pre, s, <<>>, FALSE, <<>>, at, FALSE), LaneLines(lanes[i]),
              Reading(pre, Append(s, lanes[i]), <<>>, FALSE, <<>>, "lane", FALSE))
    <3>1. lanes[i] \in BoardLane
      BY <1>4
    <3>2. QED
      BY <3>1, LaneReadsIn
  <2>6. QED
    BY <1>5, <2>3, <2>4, <2>5
<1>7. Leads(P[0], FlattenSeq(LanesLines(lanes)), P[n])
  BY <1>5, <1>6, LeadsAll
<1>8. P[0] = AfterLanes(pre, <<>>)
  <2>1. SubSeq(lanes, 1, 0) = <<>> /\ 0 \in 0..n
    BY SubSeqEmpty
  <2>2. QED
    BY <1>3, <2>1
<1>9. P[n] = AfterLanes(pre, lanes)
  <2>1. SubSeq(lanes, 1, n) = lanes /\ n \in 0..n
    BY <1>1, SubSeqFull
  <2>2. QED
    BY <1>3, <2>1
<1>10. FlattenSeq(LanesLines(lanes)) \in Seq(D)
  <2>1. PICK f : FlattenSeq(LanesLines(lanes)) = f[n] /\ \A i \in 0..n : f[i] \in Seq(D)
    BY <1>5, FlattenIs
  <2>2. QED
    BY <2>1
<1>11. QED
  BY <1>7, <1>8, <1>9, <1>10

-----------------------------------------------------------------------------
(* What surrounds the lanes: the preamble, the archive, and the trailer.   *)

\* No line of s is a heading or the settings.
Ahead(s) == \A i \in 1..Len(s) : s[i].k \notin {"lane", "settings"}

\* Lines ahead of any heading are the preamble.
LEMMA PreambleReads ==
  ASSUME NEW D, NEW s \in Seq(D), Ahead(s)
  PROVE  Leads(Unparsed, s, AfterLanes(s, <<>>))
<1>1. PICK n \in Nat : n = Len(s)
  BY LenProperties
<1>2. \A i \in 1..n : s[i] \in D
  BY <1>1, ElementOfSeq
<1> DEFINE f == [i \in 0..n |-> AfterLanes(SubSeq(s, 1, i), <<>>)]
<1>3. \A i \in 0..n : f[i] = AfterLanes(SubSeq(s, 1, i), <<>>)
  BY Zenon
<1> HIDE DEF f
<1>4. ASSUME NEW i \in 1..n PROVE Plain(f[i - 1], s[i]) /\ f[i] = Step(f[i - 1], s[i])
  <2>1. PICK a \in Seq(D) : a = SubSeq(s, 1, i - 1)
    <3>1. 1 \in Int /\ i - 1 \in Int /\ \A j \in 1..i - 1 : s[j] \in D
      BY <1>1, <1>2
    <3>2. SubSeq(s, 1, i - 1) \in Seq(D)
      BY <3>1, SubSeqProperties
    <3>3. QED
      BY <3>2
  <2>2. SubSeq(s, 1, i) = Append(a, s[i])
    <3>1. SubSeq(s, 1, i) = SubSeq(s, 1, i - 1) \o <<s[i]>>
      <4>1. 1 \in 1..Len(s) /\ i \in 1..Len(s)
        BY <1>1
      <4>2. QED
        BY <4>1, SubSeqRecursiveSecond
    <3>2. Append(a, s[i]) = a \o <<s[i]>>
      BY <1>2, AppendIsConcat
    <3>3. QED
      BY <2>1, <3>1, <3>2
  <2>3. f[i - 1] = AfterLanes(a, <<>>) /\ f[i] = AfterLanes(Append(a, s[i]), <<>>)
    <3>1. i - 1 \in 0..n /\ i \in 0..n
      OBVIOUS
    <3>2. QED
      BY <1>3, <2>1, <2>2, <3>1
  <2>4. PICK l : l = s[i] /\ l.k \notin {"lane", "settings"}
    BY <1>1 DEF Ahead
  <2>5. Plain(AfterLanes(a, <<>>), l)
    BY DEF Plain, AfterLanes, Reading
  <2>6. Step(AfterLanes(a, <<>>), l) = AfterLanes(Append(a, l), <<>>)
    BY <2>4 DEF Step, AfterLanes, Reading
  <2>7. QED
    BY <2>3, <2>4, <2>5, <2>6
<1>5. Leads(f[0], s, f[Len(s)])
  BY <1>1, <1>4, LeadsBy
<1>6. f[0] = Unparsed
  <2>1. SubSeq(s, 1, 0) = <<>> /\ 0 \in 0..n
    BY SubSeqEmpty
  <2>2. f[0] = AfterLanes(<<>>, <<>>)
    BY <1>3, <2>1
  <2>3. QED
    BY <2>2 DEF AfterLanes, Reading, Unparsed
<1>7. f[n] = AfterLanes(s, <<>>)
  <2>1. SubSeq(s, 1, n) = s /\ n \in 0..n
    BY <1>1, SubSeqFull
  <2>2. QED
    BY <1>3, <2>1
<1>8. QED
  BY <1>1, <1>5, <1>6, <1>7

\* The settings, and what follows them.
LEMMA TrailerReads ==
  ASSUME NEW D, NEW s \in Seq(D), s = <<>> \/ s[1].k = "settings",
         NEW pre, NEW lanes, NEW filed, NEW archived, NEW at \in {"preamble", "lane", "archive"},
         NEW open
  PROVE  \E q : /\ Leads(Reading(pre, lanes, filed, archived, <<>>, at, open), s, q)
                /\ BoardOf(q) = [preamble |-> pre, lanes |-> lanes, archive |-> filed,
                                 archived |-> archived, trailer |-> s]
<1> DEFINE Q(t) == Reading(pre, lanes, filed, archived, t, IF t = <<>> THEN at ELSE "trailer", open)
<1>1. PICK n \in Nat : n = Len(s)
  BY LenProperties
<1>2. \A i \in 1..n : s[i] \in D
  BY <1>1, ElementOfSeq
<1> DEFINE f == [i \in 0..n |-> Q(SubSeq(s, 1, i))]
<1> HIDE DEF Q
<1>3. \A i \in 0..n : f[i] = Q(SubSeq(s, 1, i))
  BY Zenon
<1> HIDE DEF f
<1>4. ASSUME NEW i \in 1..n PROVE Plain(f[i - 1], s[i]) /\ f[i] = Step(f[i - 1], s[i])
  <2>1. PICK a \in Seq(D) : a = SubSeq(s, 1, i - 1)
    <3>1. 1 \in Int /\ i - 1 \in Int /\ \A j \in 1..i - 1 : s[j] \in D
      BY <1>1, <1>2
    <3>2. SubSeq(s, 1, i - 1) \in Seq(D)
      BY <3>1, SubSeqProperties
    <3>3. QED
      BY <3>2
  <2>2. SubSeq(s, 1, i) = Append(a, s[i]) /\ Append(a, s[i]) # <<>>
    <3>1. SubSeq(s, 1, i) = SubSeq(s, 1, i - 1) \o <<s[i]>>
      <4>1. 1 \in 1..Len(s) /\ i \in 1..Len(s)
        BY <1>1
      <4>2. QED
        BY <4>1, SubSeqRecursiveSecond
    <3>2. Append(a, s[i]) = a \o <<s[i]>> /\ Append(a, s[i]) # <<>>
      BY <1>2, AppendIsConcat, AppendProperties
    <3>3. QED
      BY <2>1, <3>1, <3>2
  <2>3. f[i - 1] = Q(a) /\ f[i] = Q(Append(a, s[i]))
    <3>1. i - 1 \in 0..n /\ i \in 0..n
      OBVIOUS
    <3>2. QED
      BY <1>3, <2>1, <2>2, <3>1
  <2>4. a = <<>> => s[i].k = "settings"
    <3>1. Len(a) = i - 1
      <4>1. 1 \in Int /\ i - 1 \in Int /\ \A j \in 1..i - 1 : s[j] \in D
        BY <1>1, <1>2
      <4>2. Len(a) = IF 1 <= i - 1 THEN (i - 1) - 1 + 1 ELSE 0
        BY <2>1, <4>1, SubSeqProperties
      <4>3. QED
        BY <4>2
    <3>2. s # <<>>
      BY <1>1
    <3>3. a = <<>> => i = 1
      BY <3>1
    <3>4. QED
      BY <3>2, <3>3
  <2>5. PICK l : l = s[i] /\ (a = <<>> => l.k = "settings")
    BY <2>4
  <2>6. Plain(Q(a), l)
    BY <2>5 DEF Plain, Q, Reading
  <2>7. Step(Q(a), l) = Q(Append(a, l))
    <3>1. Append(a, l) # <<>>
      BY <2>2, <2>5
    <3>2. Step(Q(a), l) = [Q(a) EXCEPT !.at = "trailer", !.trailer = Append(a, l)]
      BY <2>5 DEF Step, Q, Reading
    <3>3. QED
      BY <3>1, <3>2 DEF Q, Reading
  <2>8. QED
    BY <2>3, <2>5, <2>6, <2>7
<1>5. Leads(f[0], s, f[Len(s)])
  BY <1>1, <1>4, LeadsBy
<1>6. f[0] = Reading(pre, lanes, filed, archived, <<>>, at, open)
  <2>1. SubSeq(s, 1, 0) = <<>> /\ 0 \in 0..n
    BY SubSeqEmpty
  <2>2. f[0] = Q(<<>>)
    BY <1>3, <2>1
  <2>3. QED
    BY <2>2 DEF Q
<1>7. f[n] = Q(s)
  <2>1. SubSeq(s, 1, n) = s /\ n \in 0..n
    BY <1>1, SubSeqFull
  <2>2. QED
    BY <1>3, <2>1
<1>8. BoardOf(Q(s)) = [preamble |-> pre, lanes |-> lanes, archive |-> filed,
                       archived |-> archived, trailer |-> s]
  BY DEF BoardOf, Q, Reading
<1>9. QED
  BY <1>1, <1>5, <1>6, <1>7, <1>8

-----------------------------------------------------------------------------
\* What precedes the archive: a reader without a lane takes it for a part of
\* the preamble.
RuleLines == <<Line("rule")>> \o <<Line("blank")>>
BeforeArchive(pre, lanes) == IF lanes = <<>> THEN (pre \o <<Line("rule")>>) \o <<Line("blank")>> ELSE pre

\* A rule or a blank line after the last lane is read over.
LEMMA StrayReads ==
  ASSUME NEW D, NEW pre \in Seq(D), NEW lanes, NEW l \in D, l.k \in {"rule", "blank"}
  PROVE  Reads(AfterLanes(pre, lanes), l, AfterLanes(IF lanes = <<>> THEN pre \o <<l>> ELSE pre, lanes))
<1>1. Append(pre, l) = pre \o <<l>>
  BY AppendIsConcat
<1>2. CASE lanes = <<>>
  <2>1. AfterLanes(pre, lanes) = Reading(pre, lanes, <<>>, FALSE, <<>>, "preamble", FALSE)
    BY <1>2 DEF AfterLanes
  <2>2. AfterLanes(pre \o <<l>>, lanes) = Reading(Append(pre, l), lanes, <<>>, FALSE, <<>>, "preamble", FALSE)
    BY <1>1, <1>2 DEF AfterLanes
  <2>3. Step(Reading(pre, lanes, <<>>, FALSE, <<>>, "preamble", FALSE), l)
          = Reading(Append(pre, l), lanes, <<>>, FALSE, <<>>, "preamble", FALSE)
    BY DEF Step, Reading
  <2>4. Plain(Reading(pre, lanes, <<>>, FALSE, <<>>, "preamble", FALSE), l)
    BY DEF Plain, Reading
  <2>5. QED
    BY <1>2, <2>1, <2>2, <2>3, <2>4 DEF Reads
<1>3. CASE lanes # <<>>
  <2>1. AfterLanes(pre, lanes) = Reading(pre, lanes, <<>>, FALSE, <<>>, "lane", FALSE)
    BY <1>3 DEF AfterLanes
  <2>2. Step(Reading(pre, lanes, <<>>, FALSE, <<>>, "lane", FALSE), l)
          = Reading(pre, lanes, <<>>, FALSE, <<>>, "lane", FALSE)
    BY DEF Step, Reading
  <2>3. Plain(Reading(pre, lanes, <<>>, FALSE, <<>>, "lane", FALSE), l)
    BY DEF Plain, Reading
  <2>4. QED
    BY <1>3, <2>1, <2>2, <2>3 DEF Reads
<1>4. QED
  BY <1>2, <1>3

\* So is what is written ahead of the archive.
LEMMA RuleReads ==
  ASSUME NEW D, Writable(D), NEW pre \in Seq(D), NEW lanes
  PROVE  /\ Leads(AfterLanes(pre, lanes), RuleLines, AfterLanes(BeforeArchive(pre, lanes), lanes))
         /\ RuleLines \in Seq(D) /\ BeforeArchive(pre, lanes) \in Seq(D)
<1>1. PICK r, b : r = Line("rule") /\ b = Line("blank") /\ r.k = "rule" /\ b.k = "blank" /\ r \in D /\ b \in D
  BY DEF Writable, Line
<1>2. <<r>> \in Seq(D) /\ <<b>> \in Seq(D)
  BY <1>1, OneLine
<1>3. PICK u : u = IF lanes = <<>> THEN pre \o <<r>> ELSE pre
  OBVIOUS
<1>4. u \in Seq(D)
  BY <1>2, <1>3, ConcatProperties
<1>5. PICK v : v = IF lanes = <<>> THEN u \o <<b>> ELSE u
  OBVIOUS
<1>6. v \in Seq(D)
  BY <1>2, <1>4, <1>5, ConcatProperties
<1>7. v = BeforeArchive(pre, lanes)
  BY <1>1, <1>3, <1>5 DEF BeforeArchive
<1>8. Leads(AfterLanes(pre, lanes), <<r>>, AfterLanes(u, lanes))
  BY <1>1, <1>3, StrayReads, LeadsReads
<1>9. Leads(AfterLanes(u, lanes), <<b>>, AfterLanes(v, lanes))
  BY <1>1, <1>4, <1>5, StrayReads, LeadsReads
<1>10. Leads(AfterLanes(pre, lanes), <<r>> \o <<b>>, AfterLanes(v, lanes))
  BY <1>2, <1>8, <1>9, LeadsOn
<1>11. RuleLines = <<r>> \o <<b>> /\ <<r>> \o <<b>> \in Seq(D)
  BY <1>1, <1>2, ConcatProperties DEF RuleLines
<1>12. QED
  BY <1>6, <1>7, <1>10, <1>11

ArchiveLines(cards) == RuleLines \o LaneLines(LaneWith("Archive", 0, cards))

\* The archive is read as it was.
LEMMA ArchiveReads ==
  ASSUME NEW D, Writable(D), NEW pre \in Seq(D), NEW lanes, NEW cards \in Seq(BoardCard)
  PROVE  /\ Leads(AfterLanes(pre, lanes), ArchiveLines(cards),
                  Reading(BeforeArchive(pre, lanes), lanes, cards, TRUE, <<>>, "archive", FALSE))
         /\ ArchiveLines(cards) \in Seq(D)
<1>1. PICK v \in Seq(D) : v = BeforeArchive(pre, lanes)
  BY RuleReads
<1>2. Leads(AfterLanes(pre, lanes), RuleLines, AfterLanes(v, lanes)) /\ RuleLines \in Seq(D)
  BY <1>1, RuleReads
<1>3. PICK at \in {"preamble", "lane"} : AfterLanes(v, lanes) = Reading(v, lanes, <<>>, FALSE, <<>>, at, FALSE)
  BY DEF AfterLanes
<1>4. PICK R : R = InArchive(v, lanes)
  OBVIOUS
<1>5. Files(R)
  BY <1>4, ArchiveFiles
<1>6. /\ R[<<>>, FALSE] = Reading(v, lanes, <<>>, TRUE, <<>>, "archive", FALSE)
      /\ R[cards, FALSE] = Reading(v, lanes, cards, TRUE, <<>>, "archive", FALSE)
  <2>1. <<>> \in Seq(BoardCard)
    BY EmptySeq
  <2>2. \A some \in Seq(BoardCard), o \in BOOLEAN : R[some, o] = Reading(v, lanes, some, TRUE, <<>>, "archive", o)
    BY <1>4 DEF InArchive
  <2>3. QED
    BY <2>1, <2>2
<1>7. PICK p : p = Reading(v, lanes, <<>>, FALSE, <<>>, at, FALSE)
  OBVIOUS
<1>8. PICK title, limit : title = "Archive" /\ limit = 0
  OBVIOUS
<1>9. Reads(p, Heading(title, limit), R[<<>>, FALSE])
  BY <1>6, <1>7, <1>8, ArchiveHeadingReads
<1>10. title \in ToSet(Active) \cup {Icebox, "Archive"} /\ limit \in {0, 3}
  BY <1>8
<1>11. /\ LaneLines(LaneWith(title, limit, cards)) \in Seq(D)
       /\ Leads(p, LaneLines(LaneWith(title, limit, cards)), R[cards, FALSE])
  BY <1>5, <1>9, <1>10, LaneLinesRead
<1>12. PICK s \in Seq(D), t \in Seq(D) : s = RuleLines /\ t = LaneLines(LaneWith(title, limit, cards))
  BY <1>2, <1>11
<1>13. Leads(AfterLanes(pre, lanes), s \o t, R[cards, FALSE]) /\ s \o t \in Seq(D)
  BY <1>2, <1>3, <1>7, <1>11, <1>12, LeadsOn, ConcatProperties
<1>14. s \o t = ArchiveLines(cards)
  BY <1>8, <1>12 DEF ArchiveLines
<1>15. QED
  BY <1>1, <1>6, <1>13, <1>14

-----------------------------------------------------------------------------
(* The greatest and the least of some places.                              *)

\* Among some places up to n, if there are any, there is a last one.
LEMMA GreatestUpTo ==
  ASSUME NEW n \in Nat, NEW P, P \subseteq 0..n, P # {}
  PROVE  \E i \in P : \A j \in P : j <= i
<1> DEFINE Q == {k \in Nat : \E i \in P : k = n - i}
<1>1. Q \subseteq Nat /\ Q # {}
  <2>1. PICK i \in P : TRUE
    OBVIOUS
  <2>2. n - i \in Q
    BY <2>1
  <2> QED BY <2>2
<1>2. PICK k \in Q : \A j \in Q : k <= j
  BY <1>1, LeastOfNats
<1>3. PICK i \in P : k = n - i
  OBVIOUS
<1>4. ASSUME NEW j \in P PROVE j <= i
  <2>1. n - j \in Q
    OBVIOUS
  <2> QED BY <1>2, <1>3, <2>1
<1> QED BY <1>4

\* Max finds the last of some places.
LEMMA MaxIs ==
  ASSUME NEW n \in Nat, NEW d, d \subseteq 1..n, d # {}
  PROVE  Max(d) \in d /\ \A y \in d : y <= Max(d)
<1>1. PICK i \in d : \A y \in d : y <= i
  <2>1. d \subseteq 0..n
    OBVIOUS
  <2>2. QED
    BY <2>1, GreatestUpTo
<1>2. \E x \in d : \A y \in d : x >= y
  BY <1>1
<1>3. QED
  BY <1>2 DEF Max

\* A place that no other is after is the last.
LEMMA MaxIsTheOne ==
  ASSUME NEW n \in Nat, NEW d, d \subseteq 1..n, NEW x \in d, \A y \in d : y <= x
  PROVE  Max(d) = x
<1>1. Max(d) \in d /\ \A y \in d : y <= Max(d)
  <2>1. d # {}
    OBVIOUS
  <2>2. QED
    BY <2>1, MaxIs
<1>2. \A y \in d : y \in Int
  OBVIOUS
<1>3. Max(d) <= x /\ x <= Max(d) /\ Max(d) \in Int /\ x \in Int
  BY <1>1, <1>2
<1>4. QED
  BY <1>3

\* Min finds the first.
LEMMA MinIs ==
  ASSUME NEW n \in Nat, NEW d, d \subseteq 1..n, d # {}
  PROVE  Min(d) \in d /\ \A y \in d : Min(d) <= y
<1>1. PICK i \in d : \A y \in d : i <= y
  <2>1. d \subseteq Nat
    OBVIOUS
  <2>2. QED
    BY <2>1, LeastOfNats
<1>2. \E x \in d : \A y \in d : x <= y
  BY <1>1
<1>3. QED
  BY <1>2 DEF Min

-----------------------------------------------------------------------------
(* What is trimmed.                                                        *)

\* A trimmed text ends with its last line that is not blank.
LEMMA TrimmedIs ==
  ASSUME NEW D, NEW t \in Seq(D)
  PROVE  \E n \in 0..Len(t) :
           /\ Trimmed(t) = SubSeq(t, 1, n)
           /\ n # 0 => t[n].k # "blank"
           /\ \A i \in n + 1..Len(t) : t[i].k = "blank"
<1>1. Len(t) \in Nat
  BY LenProperties
<1> DEFINE I == {i \in 1..Len(t) : t[i].k # "blank"}
<1>2. Trimmed(t) = SubSeq(t, 1, IF I # {} THEN Max(I) ELSE 0)
  BY DEF Trimmed, SelectLastInSubSeq
<1>3. CASE I = {}
  <2>1. Trimmed(t) = SubSeq(t, 1, 0) /\ 0 \in 0..Len(t)
    BY <1>1, <1>2, <1>3
  <2>2. \A i \in 0 + 1..Len(t) : t[i].k = "blank"
    BY <1>3
  <2>3. QED
    BY <2>1, <2>2
<1>4. CASE I # {}
  <2>1. Max(I) \in I /\ \A y \in I : y <= Max(I)
    BY <1>1, <1>4, MaxIs
  <2>2. PICK n \in 0..Len(t) : n = Max(I)
    <3>1. \A n \in I : n \in 0..Len(t)
      BY <1>1
    <3>2. QED
      BY <2>1, <3>1, Zenon
  <2>3. t[n].k # "blank" /\ n # 0
    BY <2>1, <2>2
  <2>4. \A i \in n + 1..Len(t) : t[i].k = "blank"
    BY <1>1, <2>1, <2>2
  <2>5. QED
    BY <1>2, <1>4, <2>2, <2>3, <2>4
<1>5. QED
  BY <1>3, <1>4

\* s is what comes before the n-th element of t and its successors.
LEMMA FirstOnes ==
  ASSUME NEW D, NEW t \in Seq(D), NEW n \in 0..Len(t)
  PROVE  /\ SubSeq(t, 1, n) \in Seq(D) /\ Len(SubSeq(t, 1, n)) = n
         /\ \A i \in 1..n : SubSeq(t, 1, n)[i] = t[i]
<1>1. PICK m \in Nat : m = Len(t) /\ n \in 0..m /\ \A i \in 1..m : t[i] \in D
  BY LenProperties, ElementOfSeq
<1>2. 1 \in Int /\ n \in Int /\ \A j \in 1..n : t[j] \in D
  BY <1>1
<1>3. /\ SubSeq(t, 1, n) \in Seq(D)
      /\ Len(SubSeq(t, 1, n)) = IF 1 <= n THEN n - 1 + 1 ELSE 0
      /\ \A i \in 1..n - 1 + 1 : SubSeq(t, 1, n)[i] = t[1 + i - 1]
  BY <1>2, SubSeqProperties
<1>4. QED
  BY <1>1, <1>3

\* What is trimmed is a text.
LEMMA TrimmedTyped ==
  ASSUME NEW D, NEW t \in Seq(D)
  PROVE  Trimmed(t) \in Seq(D) /\ (Ahead(t) => Ahead(Trimmed(t)))
<1>1. PICK n \in 0..Len(t) : Trimmed(t) = SubSeq(t, 1, n)
  BY TrimmedIs
<1>2. /\ SubSeq(t, 1, n) \in Seq(D) /\ Len(SubSeq(t, 1, n)) = n
      /\ \A i \in 1..n : SubSeq(t, 1, n)[i] = t[i]
  BY FirstOnes
<1>3. Len(t) \in Nat
  BY LenProperties
<1>4. QED
  BY <1>1, <1>2, <1>3 DEF Ahead

\* A trailer that ends with a blank line is a text, and begins as it did.
LEMMA EndedIs ==
  ASSUME NEW D, NEW t \in Seq(D)
  PROVE  /\ Ended(t) \in Seq(D)
         /\ (t = <<>> \/ t[1].k = "settings") => (Ended(t) = <<>> \/ Ended(t)[1].k = "settings")
<1>1. CASE t = <<>> \/ Last(t) # Line("blank")
  BY <1>1 DEF Ended
<1>2. CASE t # <<>> /\ Last(t) = Line("blank")
  <2>1. Len(t) \in Nat /\ Len(t) >= 1
    BY <1>2, EmptySeq, LenProperties
  <2>2. PICK n \in 0..Len(t) : n = Len(t) - 1 /\ Ended(t) = SubSeq(t, 1, n)
    <3>1. Len(t) - 1 \in 0..Len(t)
      BY <2>1
    <3>2. Ended(t) = SubSeq(t, 1, Len(t) - 1)
      BY <1>2, Zenon DEF Ended, Front
    <3>3. QED
      BY <3>1, <3>2
  <2>3. /\ SubSeq(t, 1, n) \in Seq(D) /\ Len(SubSeq(t, 1, n)) = n
        /\ \A i \in 1..n : SubSeq(t, 1, n)[i] = t[i]
    BY FirstOnes
  <2>4. PICK s \in Seq(D) : s = Ended(t) /\ Len(s) = n /\ \A i \in 1..n : s[i] = t[i]
    BY <2>2, <2>3
  <2>5. s = <<>> \/ s[1] = t[1]
    BY <2>1, <2>2, <2>4, EmptySeq
  <2>6. QED
    BY <1>2, <2>4, <2>5
<1>3. QED
  BY <1>1, <1>2

-----------------------------------------------------------------------------
(* A board that was written is read back.                                  *)

HeadLines(b) == IF Trimmed(b.preamble) = <<>> THEN <<>> ELSE Trimmed(b.preamble) \o <<Line("blank")>>
TailLines(b) == IF b.archived THEN ArchiveLines(b.archive) ELSE <<>>

\* A board as a parse gives it and commands change it.
Sound(b, D) ==
  /\ b \in [preamble : Seq(D), lanes : Seq(BoardLane), archive : Seq(BoardCard), archived : BOOLEAN,
            trailer : Seq(D)]
  /\ Ahead(b.preamble) /\ (b.archive # <<>> => b.archived)

\* The head of a board is read as its preamble.
LEMMA HeadReads ==
  ASSUME NEW D, Writable(D), NEW b, Sound(b, D)
  PROVE  /\ HeadLines(b) \in Seq(D) /\ Ahead(HeadLines(b))
         /\ Leads(Unparsed, HeadLines(b), AfterLanes(HeadLines(b), <<>>))
<1>1. PICK s \in Seq(D) : s = Trimmed(b.preamble) /\ Ahead(s)
  BY TrimmedTyped DEF Sound
<1>2. PICK l \in D : l = Line("blank") /\ l.k = "blank"
  BY DEF Writable, Line
<1>3. PICK h : h = IF s = <<>> THEN <<>> ELSE s \o <<l>>
  OBVIOUS
<1>4. h = HeadLines(b)
  BY <1>1, <1>2, <1>3 DEF HeadLines
<1>5. h \in Seq(D) /\ Ahead(h)
  <2>1. CASE s = <<>>
    <3>1. h = <<>> /\ Len(<<>>) = 0 /\ <<>> \in Seq(D) /\ 1..0 = {}
      BY <1>3, <2>1
    <3>2. QED
      BY <3>1 DEF Ahead
  <2>2. CASE s # <<>>
    <3>1. h = Append(s, l)
      BY <1>3, <2>2, AppendIsConcat
    <3>2. h \in Seq(D) /\ Len(h) = Len(s) + 1 /\ h[Len(s) + 1] = l /\ \A i \in 1..Len(s) : h[i] = s[i]
      BY <3>1, AppendProperties
    <3>3. Len(s) \in Nat
      BY LenProperties
    <3>4. \A i \in 1..Len(h) : i \in 1..Len(s) \/ i = Len(s) + 1
      BY <3>2, <3>3
    <3>5. QED
      BY <1>1, <1>2, <3>2, <3>4 DEF Ahead
  <2>3. QED
    BY <2>1, <2>2
<1>6. Leads(Unparsed, h, AfterLanes(h, <<>>))
  BY <1>5, PreambleReads
<1>7. QED
  BY <1>4, <1>5, <1>6

\* What is written of a board: its head, its lanes, its archive and its trailer.
LEMMA WrittenIs ==
  ASSUME NEW D, NEW b, Sound(b, D)
  PROVE  ToText(b) = ((HeadLines(b) \o FlattenSeq(LanesLines(b.lanes))) \o TailLines(b)) \o Ended(b.trailer)
<1>1. (b.archived \/ b.archive # <<>>) <=> b.archived
  BY DEF Sound
<1>2. <<Line("rule"), Line("blank")>> = RuleLines
  BY DEF RuleLines
<1>3. (IF b.archived \/ b.archive # <<>>
         THEN <<Line("rule"), Line("blank")>> \o LaneLines([title |-> "Archive", limit |-> 0, cards |-> b.archive])
         ELSE <<>>) = TailLines(b)
  BY <1>1, <1>2, Zenon DEF TailLines, ArchiveLines, LaneWith
<1>4. QED
  BY <1>3, Zenon DEF ToText, HeadLines, LanesLines

\* What a reader takes for the preamble.
PreambleRead(b) == IF b.archived THEN BeforeArchive(HeadLines(b), b.lanes) ELSE HeadLines(b)

\* The archive is read after the lanes.
LEMMA TailReads ==
  ASSUME NEW D, Writable(D), NEW b, Sound(b, D)
  PROVE  /\ TailLines(b) \in Seq(D) /\ PreambleRead(b) \in Seq(D)
         /\ \E at \in {"preamble", "lane", "archive"} :
              Leads(AfterLanes(HeadLines(b), b.lanes), TailLines(b),
                    Reading(PreambleRead(b), b.lanes, b.archive, b.archived, <<>>, at, FALSE))
<1>1. PICK h \in Seq(D) : h = HeadLines(b)
  BY HeadReads
<1>2. PICK lanes, cards : lanes = b.lanes /\ cards = b.archive /\ cards \in Seq(BoardCard)
  BY DEF Sound
<1>3. CASE b.archived
  <2>1. /\ Leads(AfterLanes(h, lanes), ArchiveLines(cards),
                 Reading(BeforeArchive(h, lanes), lanes, cards, TRUE, <<>>, "archive", FALSE))
        /\ ArchiveLines(cards) \in Seq(D) /\ BeforeArchive(h, lanes) \in Seq(D)
    BY <1>2, ArchiveReads, RuleReads
  <2>2. b.archived = TRUE
    BY <1>3 DEF Sound
  <2>3. TailLines(b) = ArchiveLines(cards) /\ PreambleRead(b) = BeforeArchive(h, lanes)
    BY <1>1, <1>2, <1>3 DEF TailLines, PreambleRead
  <2>4. "archive" \in {"preamble", "lane", "archive"}
    OBVIOUS
  <2>5. QED
    BY <1>1, <1>2, <2>1, <2>2, <2>3, <2>4, Zenon
<1>4. CASE ~b.archived
  <2>1. b.archived = FALSE /\ b.archive = <<>>
    BY <1>4 DEF Sound
  <2>2. TailLines(b) = <<>> /\ PreambleRead(b) = h
    BY <1>1, <1>4 DEF TailLines, PreambleRead
  <2>3. PICK p : p = AfterLanes(h, lanes)
    OBVIOUS
  <2>4. Leads(p, <<>>, p) /\ <<>> \in Seq(D)
    BY LeadsNowhere, EmptySeq
  <2>5. CASE lanes = <<>>
    <3>1. p = Reading(h, lanes, <<>>, FALSE, <<>>, "preamble", FALSE)
      BY <2>3, <2>5 DEF AfterLanes
    <3>2. "preamble" \in {"preamble", "lane", "archive"}
      OBVIOUS
    <3>3. QED
      BY <1>1, <1>2, <2>1, <2>2, <2>3, <2>4, <3>1, <3>2, Zenon
  <2>6. CASE lanes # <<>>
    <3>1. p = Reading(h, lanes, <<>>, FALSE, <<>>, "lane", FALSE)
      BY <2>3, <2>6 DEF AfterLanes
    <3>2. "lane" \in {"preamble", "lane", "archive"}
      OBVIOUS
    <3>3. QED
      BY <1>1, <1>2, <2>1, <2>2, <2>3, <2>4, <3>1, <3>2, Zenon
  <2>7. QED
    BY <2>5, <2>6
<1>5. QED
  BY <1>3, <1>4

\* A board that was written is read as it was.
LEMMA WrittenIsRead ==
  ASSUME NEW D, Writable(D), NEW b, Sound(b, D), OnlySettingsFollow(b)
  PROVE  /\ Parse(ToText(b)) = [preamble |-> PreambleRead(b), lanes |-> b.lanes, archive |-> b.archive,
                                archived |-> b.archived, trailer |-> Ended(b.trailer)]
         /\ ToText(b) \in Seq(D)
<1>1. PICK h \in Seq(D) : h = HeadLines(b)
  BY HeadReads
<1>2. PICK l \in Seq(D) : l = FlattenSeq(LanesLines(b.lanes))
  BY LanesRead DEF Sound
<1>3. PICK a \in Seq(D) : a = TailLines(b)
  BY TailReads
<1>4. PICK e \in Seq(D) : e = Ended(b.trailer) /\ (e = <<>> \/ e[1].k = "settings")
  BY EndedIs DEF Sound, OnlySettingsFollow
<1>5. ToText(b) = ((h \o l) \o a) \o e
  BY <1>1, <1>2, <1>3, <1>4, WrittenIs
<1>6. h \o l \in Seq(D) /\ (h \o l) \o a \in Seq(D) /\ ((h \o l) \o a) \o e \in Seq(D)
  BY ConcatProperties
<1>7. Leads(Unparsed, h, AfterLanes(h, <<>>))
  BY <1>1, HeadReads
<1>8. Leads(AfterLanes(h, <<>>), l, AfterLanes(h, b.lanes))
  BY <1>2, LanesRead DEF Sound
<1>9. PICK at \in {"preamble", "lane", "archive"} :
        Leads(AfterLanes(h, b.lanes), a, Reading(PreambleRead(b), b.lanes, b.archive, b.archived, <<>>, at, FALSE))
  BY <1>1, <1>3, TailReads
<1>10. PICK p, open : open = FALSE /\ p = Reading(PreambleRead(b), b.lanes, b.archive, b.archived, <<>>, at, open)
  OBVIOUS
<1>11. PICK q : /\ Leads(p, e, q)
                /\ BoardOf(q) = [preamble |-> PreambleRead(b), lanes |-> b.lanes, archive |-> b.archive,
                                 archived |-> b.archived, trailer |-> e]
  BY <1>4, <1>9, <1>10, TrailerReads
<1>12. Leads(Unparsed, h \o l, AfterLanes(h, b.lanes))
  BY <1>7, <1>8, LeadsOn
<1>13. Leads(Unparsed, (h \o l) \o a, p)
  BY <1>6, <1>9, <1>10, <1>12, LeadsOn
<1>14. Leads(Unparsed, ((h \o l) \o a) \o e, q)
  BY <1>6, <1>11, <1>13, LeadsOn
<1>15. QED
  BY <1>4, <1>5, <1>6, <1>11, <1>14, ParseLeads

-----------------------------------------------------------------------------
(* A parse gives a sound board.                                            *)

\* A parse in progress.
Progress(p, D) ==
  /\ p \in [preamble : Seq(D), lanes : Seq(BoardLane), archive : Seq(BoardCard), archived : BOOLEAN,
            trailer : Seq(D), at : {"preamble", "lane", "archive", "trailer"}, open : BOOLEAN]
  /\ Ahead(p.preamble) /\ (p.archive # <<>> => p.archived)
  /\ p.at = "lane" => p.lanes # <<>>
  /\ p.at = "lane" /\ p.open => p.lanes[Len(p.lanes)].cards # <<>>
  /\ p.at = "archive" => p.archived
  /\ p.at = "archive" /\ p.open => p.archive # <<>>

\* What Append gives.
LEMMA AppendTyped ==
  ASSUME NEW S, NEW s \in Seq(S), NEW x \in S
  PROVE  /\ Append(s, x) \in Seq(S) /\ Append(s, x) # <<>> /\ Len(Append(s, x)) = Len(s) + 1
         /\ Append(s, x)[Len(s) + 1] = x /\ \A i \in 1..Len(s) : Append(s, x)[i] = s[i]
BY AppendProperties

\* A sequence that is not empty has a last element.
LEMMA LastOf ==
  ASSUME NEW S, NEW s \in Seq(S), s # <<>>
  PROVE  Len(s) \in Nat /\ Len(s) \in 1..Len(s) /\ s[Len(s)] \in S
<1>1. Len(s) \in Nat /\ Len(s) # 0
  BY EmptySeq, LenProperties
<1>2. QED
  BY <1>1, ElementOfSeq

\* One element of a sequence is changed.
LEMMA OneChanged ==
  ASSUME NEW S, NEW s \in Seq(S), NEW n \in 1..Len(s), NEW x \in S
  PROVE  /\ [s EXCEPT ![n] = x] \in Seq(S) /\ [s EXCEPT ![n] = x] # <<>>
         /\ Len([s EXCEPT ![n] = x]) = Len(s) /\ [s EXCEPT ![n] = x][n] = x
         /\ \A i \in 1..Len(s) : i # n => [s EXCEPT ![n] = x][i] = s[i]
<1>1. PICK m \in Nat : m = Len(s) /\ DOMAIN s = 1..m /\ \A i \in 1..m : s[i] \in S
  BY LenProperties, ElementOfSeq
<1>2. PICK t : t = [s EXCEPT ![n] = x]
  OBVIOUS
<1>3. t = [i \in 1..m |-> IF i = n THEN x ELSE s[i]]
  BY <1>1, <1>2
<1>4. t \in Seq(S) /\ Len(t) = m
  BY <1>1, <1>3
<1>5. n \in 1..m /\ m # 0
  BY <1>1
<1>6. t # <<>>
  BY <1>4, <1>5, EmptySeq
<1>7. t[n] = x /\ \A i \in 1..m : i # n => t[i] = s[i]
  BY <1>3, <1>5
<1>8. QED
  BY <1>1, <1>2, <1>4, <1>6, <1>7

\* The cards of one lane are changed.
LEMMA CardsChanged ==
  ASSUME NEW lanes \in Seq(BoardLane), NEW n \in 1..Len(lanes), NEW cards \in Seq(BoardCard)
  PROVE  /\ [lanes EXCEPT ![n].cards = cards] \in Seq(BoardLane) /\ [lanes EXCEPT ![n].cards = cards] # <<>>
         /\ Len([lanes EXCEPT ![n].cards = cards]) = Len(lanes)
         /\ [lanes EXCEPT ![n].cards = cards][n].cards = cards
         /\ [lanes EXCEPT ![n].cards = cards][n].title = lanes[n].title
         /\ \A i \in 1..Len(lanes) : i # n => [lanes EXCEPT ![n].cards = cards][i] = lanes[i]
<1>1. lanes[n] \in BoardLane
  BY ElementOfSeq
<1>2. PICK x : x = [lanes[n] EXCEPT !.cards = cards]
  OBVIOUS
<1>3. x \in BoardLane /\ x.cards = cards /\ x.title = lanes[n].title
  BY <1>1, <1>2 DEF BoardLane
<1>4. PICK t : t = [lanes EXCEPT ![n] = x]
  OBVIOUS
<1>5. [lanes EXCEPT ![n].cards = cards] = t
  BY <1>2, <1>4
<1>6. /\ t \in Seq(BoardLane) /\ t # <<>> /\ Len(t) = Len(lanes) /\ t[n] = x
      /\ \A i \in 1..Len(lanes) : i # n => t[i] = lanes[i]
  BY <1>3, <1>4, OneChanged
<1>7. QED
  BY <1>3, <1>5, <1>6

\* A preamble takes any line but a heading or the settings.
LEMMA AheadGrows ==
  ASSUME NEW D, NEW s \in Seq(D), Ahead(s), NEW l \in D, l.k \notin {"lane", "settings"}
  PROVE  Ahead(Append(s, l))
<1>1. Len(s) \in Nat
  BY LenProperties
<1>2. /\ Len(Append(s, l)) = Len(s) + 1 /\ Append(s, l)[Len(s) + 1] = l
      /\ \A i \in 1..Len(s) : Append(s, l)[i] = s[i]
  BY AppendTyped
<1>3. \A i \in 1..Len(s) + 1 : i \in 1..Len(s) \/ i = Len(s) + 1
  BY <1>1
<1>4. QED
  BY <1>2, <1>3 DEF Ahead

\* What the lines of a kind tell.
LEMMA LineKinds ==
  ASSUME NEW l \in Lines
  PROVE  /\ l.k = "lane" => l.title \in ToSet(Active) \cup {Icebox, "Archive"} /\ l.limit \in {0, 3}
         /\ l.k = "item" => l.id \in Ids \cup {"none"} /\ l.ticked \in BOOLEAN
BY DEF Lines

\* A heading leaves a parse in progress sound,
LEMMA HeadingKeeps ==
  ASSUME NEW D, D \subseteq Lines, NEW p, Progress(p, D), p.at # "trailer", NEW l \in D, l.k = "lane"
  PROVE  Progress(TakesHeading(p, l), D)
<1>1. l.title \in ToSet(Active) \cup {Icebox, "Archive"} /\ l.limit \in {0, 3}
  BY LineKinds
<1>2. CASE l.title = "Archive"
  <2>1. TakesHeading(p, l) = [p EXCEPT !.at = "archive", !.archived = TRUE, !.open = FALSE]
    BY <1>2 DEF TakesHeading
  <2>2. QED
    BY <2>1 DEF Progress
<1>3. CASE l.title # "Archive" /\ p.at = "archive" /\ ~IsStatusLane(l)
  <2>1. TakesHeading(p, l) = [p EXCEPT !.open = FALSE]
    BY <1>3 DEF TakesHeading
  <2>2. QED
    BY <1>3, <2>1 DEF Progress
<1>4. CASE l.title # "Archive" /\ ~(p.at = "archive" /\ ~IsStatusLane(l))
  <2>1. PICK lane : lane = [title |-> l.title, limit |-> l.limit, cards |-> <<>>]
    OBVIOUS
  <2>2. lane \in BoardLane
    <3>1. <<>> \in Seq(BoardCard) /\ l.title \in ToSet(Active) \cup {Icebox}
      BY <1>1, <1>4, EmptySeq
    <3>2. QED
      BY <1>1, <2>1, <3>1 DEF BoardLane
  <2>3. PICK ls : ls = Append(p.lanes, lane)
    OBVIOUS
  <2>4. ls \in Seq(BoardLane) /\ ls # <<>>
    BY <2>2, <2>3, AppendTyped DEF Progress
  <2>5. TakesHeading(p, l) = [p EXCEPT !.at = "lane", !.open = FALSE, !.lanes = ls]
    BY <1>4, <2>1, <2>3 DEF TakesHeading
  <2>6. QED
    BY <2>4, <2>5 DEF Progress
<1>5. QED
  BY <1>2, <1>3, <1>4

\* so does an item,
LEMMA ItemKeeps ==
  ASSUME NEW D, D \subseteq Lines, NEW p, Progress(p, D), p.at \in {"lane", "archive"}, NEW l \in D, l.k = "item"
  PROVE  Progress(TakesItem(p, l), D)
<1>1. PICK card : card = [id |-> l.id, ticked |-> l.ticked, more |-> 0]
  OBVIOUS
<1>2. card \in BoardCard
  BY <1>1, LineKinds DEF BoardCard
<1>3. CASE p.at = "archive"
  <2>1. PICK cards : cards = Append(p.archive, card)
    OBVIOUS
  <2>2. cards \in Seq(BoardCard) /\ cards # <<>>
    BY <1>2, <2>1, AppendTyped DEF Progress
  <2>3. TakesItem(p, l) = [p EXCEPT !.archive = cards, !.open = TRUE]
    BY <1>1, <1>3, <2>1 DEF TakesItem
  <2>4. QED
    BY <1>3, <2>2, <2>3 DEF Progress
<1>4. CASE p.at = "lane"
  <2>1. PICK n : n = Len(p.lanes)
    OBVIOUS
  <2>2. p.lanes \in Seq(BoardLane) /\ n \in 1..Len(p.lanes) /\ p.lanes[n] \in BoardLane
    BY <1>4, <2>1, LastOf DEF Progress
  <2>3. PICK cards : cards = Append(p.lanes[n].cards, card)
    OBVIOUS
  <2>4. cards \in Seq(BoardCard) /\ cards # <<>>
    BY <1>2, <2>2, <2>3, AppendTyped DEF BoardLane
  <2>5. PICK ls : ls = [p.lanes EXCEPT ![n].cards = cards]
    OBVIOUS
  <2>6. ls \in Seq(BoardLane) /\ ls # <<>> /\ Len(ls) = n /\ ls[n].cards = cards
    BY <2>1, <2>2, <2>4, <2>5, CardsChanged
  <2>7. TakesItem(p, l) = [p EXCEPT !.lanes = ls, !.open = TRUE]
    BY <1>1, <1>4, <2>1, <2>3, <2>5 DEF TakesItem
  <2>8. QED
    BY <1>4, <2>4, <2>6, <2>7 DEF Progress
<1>5. QED
  BY <1>3, <1>4

\* One more line of the last card.
LEMMA MoreKeepsCards ==
  ASSUME NEW cards \in Seq(BoardCard), cards # <<>>
  PROVE  /\ [cards EXCEPT ![Len(cards)].more = @ + 1] \in Seq(BoardCard)
         /\ [cards EXCEPT ![Len(cards)].more = @ + 1] # <<>>
<1>1. Len(cards) \in 1..Len(cards) /\ cards[Len(cards)] \in BoardCard
  BY LastOf
<1>2. PICK card : card = [cards[Len(cards)] EXCEPT !.more = @ + 1]
  OBVIOUS
<1>3. card \in BoardCard
  <2>1. PICK c \in BoardCard : c = cards[Len(cards)]
    BY <1>1
  <2>2. c = [id |-> c.id, ticked |-> c.ticked, more |-> c.more] /\ c.more + 1 \in Nat
    BY DEF BoardCard
  <2>3. card = [id |-> c.id, ticked |-> c.ticked, more |-> c.more + 1]
    BY <1>2, <2>1, <2>2
  <2>4. QED
    BY <2>2, <2>3 DEF BoardCard
<1>4. [cards EXCEPT ![Len(cards)].more = @ + 1] = [cards EXCEPT ![Len(cards)] = card]
  BY <1>2
<1>5. QED
  BY <1>1, <1>3, <1>4, OneChanged

\* an indented line of a card,
LEMMA MoreKeeps ==
  ASSUME NEW D, NEW p, Progress(p, D), p.at \in {"lane", "archive"}, p.open
  PROVE  Progress(TakesMore(p), D)
<1>1. CASE p.at = "archive"
  <2>1. PICK cards : cards = [p.archive EXCEPT ![Len(p.archive)].more = @ + 1]
    OBVIOUS
  <2>2. cards \in Seq(BoardCard) /\ cards # <<>>
    BY <1>1, <2>1, MoreKeepsCards DEF Progress
  <2>3. TakesMore(p) = [p EXCEPT !.archive = cards]
    BY <1>1, <2>1 DEF TakesMore
  <2>4. QED
    BY <1>1, <2>2, <2>3 DEF Progress
<1>2. CASE p.at = "lane"
  <2>1. PICK n : n = Len(p.lanes)
    OBVIOUS
  <2>2. p.lanes \in Seq(BoardLane) /\ n \in 1..Len(p.lanes) /\ p.lanes[n] \in BoardLane
    BY <1>2, <2>1, LastOf DEF Progress
  <2>3. PICK old : old = p.lanes[n].cards /\ old \in Seq(BoardCard) /\ old # <<>>
    BY <1>2, <2>1, <2>2 DEF Progress, BoardLane
  <2>4. PICK cards : cards = [old EXCEPT ![Len(old)].more = @ + 1]
    OBVIOUS
  <2>5. cards \in Seq(BoardCard) /\ cards # <<>>
    BY <2>3, <2>4, MoreKeepsCards
  <2>6. PICK ls : ls = [p.lanes EXCEPT ![n].cards = cards]
    OBVIOUS
  <2>7. ls \in Seq(BoardLane) /\ ls # <<>> /\ Len(ls) = n /\ ls[n].cards = cards
    BY <2>1, <2>2, <2>5, <2>6, CardsChanged
  <2>8. TakesMore(p) = [p EXCEPT !.lanes = ls]
    BY <1>2, <2>1, <2>3, <2>4, <2>6 DEF TakesMore
  <2>9. QED
    BY <1>2, <2>5, <2>7, <2>8 DEF Progress
<1>3. QED
  BY <1>1, <1>2

\* and any line.
LEMMA TakesKeeps ==
  ASSUME NEW D, D \subseteq Lines, NEW p, Progress(p, D), NEW t \in Seq(D), NEW i \in 1..Len(t)
  PROVE  Progress(Takes(p, t, i), D)
<1>1. PICK l \in D : l = t[i]
  BY ElementOfSeq
<1>2. p.at \in {"preamble", "lane", "archive", "trailer"}
  BY DEF Progress
<1>3. CASE p.at = "trailer" \/ l.k = "settings"
  <2>1. PICK s : s = Append(p.trailer, l)
    OBVIOUS
  <2>2. s \in Seq(D)
    BY <2>1, AppendTyped DEF Progress
  <2>3. Takes(p, t, i) = [p EXCEPT !.at = "trailer", !.trailer = s]
    BY <1>1, <1>3, <2>1 DEF Takes
  <2>4. QED
    BY <2>2, <2>3 DEF Progress
<1>4. CASE p.at # "trailer" /\ l.k = "lane"
  <2>1. Takes(p, t, i) = TakesHeading(p, l)
    BY <1>1, <1>4 DEF Takes
  <2>2. QED
    BY <1>4, <2>1, HeadingKeeps
<1>5. CASE p.at = "preamble" /\ l.k \notin {"lane", "settings"}
  <2>1. PICK s : s = Append(p.preamble, l)
    OBVIOUS
  <2>2. s \in Seq(D) /\ Ahead(s)
    BY <1>5, <2>1, AppendTyped, AheadGrows DEF Progress
  <2>3. Takes(p, t, i) = [p EXCEPT !.preamble = s]
    BY <1>1, <1>5, <2>1 DEF Takes
  <2>4. QED
    BY <1>5, <2>2, <2>3 DEF Progress
<1>6. CASE p.at \in {"lane", "archive"} /\ l.k = "item"
  <2>1. Takes(p, t, i) = TakesItem(p, l)
    BY <1>1, <1>6 DEF Takes
  <2>2. QED
    BY <1>6, <2>1, ItemKeeps
<1>7. CASE p.at \in {"lane", "archive"} /\ l.k = "more" /\ p.open
  <2>1. Takes(p, t, i) = TakesMore(p)
    BY <1>1, <1>7 DEF Takes
  <2>2. QED
    BY <1>7, <2>1, MoreKeeps
<1>8. CASE p.at \in {"lane", "archive"} /\ l.k \notin {"lane", "settings", "item"} /\ ~(l.k = "more" /\ p.open)
  <2>1. Takes(p, t, i) \in {[p EXCEPT !.at = "trailer", !.trailer = <<l>>], [p EXCEPT !.open = FALSE]}
    BY <1>1, <1>8 DEF Takes
  <2>2. CASE Takes(p, t, i) = [p EXCEPT !.at = "trailer", !.trailer = <<l>>]
    <3>1. PICK s : s = <<l>> /\ s \in Seq(D)
      BY OneLine
    <3>2. QED
      BY <2>2, <3>1 DEF Progress
  <2>3. CASE Takes(p, t, i) = [p EXCEPT !.open = FALSE]
    BY <1>8, <2>3 DEF Progress
  <2>4. QED
    BY <2>1, <2>2, <2>3
<1>9. QED
  BY <1>2, <1>3, <1>4, <1>5, <1>6, <1>7, <1>8

\* A parse begins so.
LEMMA UnparsedIsProgress ==
  ASSUME NEW D
  PROVE  Progress(Unparsed, D)
<1>1. <<>> \in Seq(D) /\ <<>> \in Seq(BoardLane) /\ <<>> \in Seq(BoardCard) /\ Len(<<>>) = 0 /\ 1..0 = {}
  BY EmptySeq
<1>2. Ahead(<<>>)
  BY <1>1 DEF Ahead
<1>3. QED
  BY <1>1, <1>2 DEF Progress, Unparsed

\* What holds at first, and after a line if it did before it, holds of all
\* that a parse goes through.
LEMMA ProgressHolds ==
  ASSUME NEW D, D \subseteq Lines, NEW t \in Seq(D), NEW f, Parses(t, Len(t), f), NEW n \in 0..Len(t)
  PROVE  Progress(f[n], D)
<1>1. PICK m \in Nat : m = Len(t)
  BY LenProperties
<1> DEFINE P == {i \in 0..m : ~Progress(f[i], D)}
<1>2. ASSUME NEW i \in P, \A j \in P : i <= j PROVE FALSE
  <2>1. i # 0
    <3>1. f[0] = Unparsed
      BY DEF Parses
    <3>2. QED
      BY <3>1, UnparsedIsProgress
  <2>2. i \in 1..m /\ i - 1 \in 0..m
    BY <2>1
  <2>3. Progress(f[i - 1], D)
    <3>1. i - 1 \notin P
      BY <1>2, <2>2
    <3>2. QED
      BY <2>2, <3>1
  <2>4. f[i] = Takes(f[i - 1], t, i)
    BY <1>1, <2>2 DEF Parses
  <2>5. PICK p : p = f[i - 1]
    OBVIOUS
  <2>6. Progress(Takes(p, t, i), D)
    BY <1>1, <2>2, <2>3, <2>5, TakesKeeps
  <2>7. QED
    BY <2>4, <2>5, <2>6
<1>3. P = {}
  <2>1. P \subseteq Nat
    OBVIOUS
  <2> HIDE DEF P
  <2>2. QED
    BY <1>2, <2>1, LeastOfNats
<1>4. QED
  BY <1>1, <1>3

\* What is parsed is a sound board.
LEMMA ParseIsSound ==
  ASSUME NEW D, D \subseteq Lines, NEW t \in Seq(D)
  PROVE  Sound(Parse(t), D)
<1>1. PICK f : Parses(t, Len(t), f) /\ Parse(t) = BoardOf(f[Len(t)])
  BY ParseIs
<1>2. Len(t) \in 0..Len(t)
  <2>1. Len(t) \in Nat
    BY LenProperties
  <2>2. QED
    BY <2>1
<1>3. PICK p : p = f[Len(t)] /\ Progress(p, D)
  BY <1>1, <1>2, ProgressHolds
<1>4. QED
  BY <1>1, <1>3 DEF Progress, Sound, BoardOf

-----------------------------------------------------------------------------
(* What commands do to a board leaves it sound.                            *)

\* A part of a sequence of cards is one.
LEMMA PartTyped ==
  ASSUME NEW S, NEW s \in Seq(S), NEW i \in Nat, i >= 1, NEW j \in Int, j <= Len(s)
  PROVE  SubSeq(s, i, j) \in Seq(S)
<1>1. PICK m \in Nat : m = Len(s) /\ \A k \in 1..m : s[k] \in S
  BY LenProperties, ElementOfSeq
<1>2. i \in Int /\ j \in Int /\ \A k \in i..j : s[k] \in S
  BY <1>1
<1>3. QED
  BY <1>2, SubSeqProperties

\* So are all of them but one,
LEMMA RemovedTyped ==
  ASSUME NEW S, NEW s \in Seq(S), NEW i \in 1..Len(s)
  PROVE  RemoveAt(s, i) \in Seq(S)
<1>1. PICK m \in Nat : m = Len(s)
  BY LenProperties
<1>2. /\ 1 \in Nat /\ 1 >= 1 /\ i - 1 \in Int /\ i - 1 <= Len(s)
      /\ i + 1 \in Nat /\ i + 1 >= 1 /\ m \in Int /\ m <= Len(s)
  BY <1>1
<1>3. SubSeq(s, 1, i - 1) \in Seq(S)
  BY <1>2, PartTyped
<1>4. SubSeq(s, i + 1, m) \in Seq(S)
  BY <1>2, PartTyped
<1>5. QED
  BY <1>1, <1>3, <1>4, ConcatProperties DEF RemoveAt

\* and those with one more.
LEMMA InsertedTyped ==
  ASSUME NEW S, NEW s \in Seq(S), NEW i \in 1..Len(s) + 1, NEW x \in S
  PROVE  InsertAt(s, i, x) \in Seq(S)
<1>1. PICK m \in Nat : m = Len(s)
  BY LenProperties
<1>2. /\ 1 \in Nat /\ 1 >= 1 /\ i - 1 \in Int /\ i - 1 <= Len(s)
      /\ i \in Nat /\ i >= 1 /\ m \in Int /\ m <= Len(s)
  BY <1>1
<1>3. PICK u \in Seq(S) : u = SubSeq(s, 1, i - 1)
  BY <1>2, PartTyped
<1>4. PICK v \in Seq(S) : v = SubSeq(s, i, m)
  BY <1>2, PartTyped
<1>5. PICK w \in Seq(S) : w = <<x>>
  BY OneLine
<1>6. u \o w \in Seq(S) /\ (u \o w) \o v \in Seq(S)
  BY ConcatProperties
<1>7. InsertAt(s, i, x) = (u \o w) \o v
  BY <1>1, <1>3, <1>4, <1>5 DEF InsertAt
<1>8. QED
  BY <1>6, <1>7

\* LaneOf finds a lane with the card, if there is one.
LEMMA LaneOfIs ==
  ASSUME NEW b, NEW c, b.lanes \in Seq(BoardLane)
  PROVE  /\ LaneOf(b, c) \in Nat
         /\ LaneOf(b, c) # 0 => LaneOf(b, c) \in 1..Len(b.lanes) /\ Has(b.lanes[LaneOf(b, c)].cards, c)
         /\ LaneOf(b, c) = 0 => \A i \in 1..Len(b.lanes) : ~Has(b.lanes[i].cards, c)
<1>1. PICK ls \in Seq(BoardLane), n \in Nat : ls = b.lanes /\ n = Len(ls)
  BY LenProperties
<1> DEFINE I == {i \in 1..n : Has(ls[i].cards, c)}
<1>2. LaneOf(b, c) = IF I # {} THEN Min(I) ELSE 0
  BY <1>1, Zenon DEF LaneOf, SelectInSeq
<1>3. CASE I = {}
  BY <1>1, <1>2, <1>3
<1>4. CASE I # {}
  <2>1. Min(I) \in I
    BY <1>4, MinIs
  <2>2. PICK m : m = Min(I)
    OBVIOUS
  <2>3. m \in 1..n /\ Has(ls[m].cards, c)
    BY <2>1, <2>2
  <2>4. m \in Nat /\ m # 0
    BY <2>3
  <2>5. QED
    BY <1>1, <1>2, <1>4, <2>2, <2>3, <2>4
<1>5. QED
  BY <1>3, <1>4

\* LaneTitled finds the first lane with the title, if there is one.
LEMMA LaneTitledIs ==
  ASSUME NEW b, NEW title, b.lanes \in Seq(BoardLane)
  PROVE  /\ LaneTitled(b, title) \in Nat
         /\ LaneTitled(b, title) # 0 =>
              LaneTitled(b, title) \in 1..Len(b.lanes) /\ b.lanes[LaneTitled(b, title)].title = title
         /\ LaneTitled(b, title) = 0 => \A i \in 1..Len(b.lanes) : b.lanes[i].title # title
<1>1. PICK ls \in Seq(BoardLane), n \in Nat : ls = b.lanes /\ n = Len(ls)
  BY LenProperties
<1> DEFINE I == {i \in 1..n : ls[i].title = title}
<1>2. LaneTitled(b, title) = IF I # {} THEN Min(I) ELSE 0
  BY <1>1, Zenon DEF LaneTitled, SelectInSeq
<1>3. CASE I = {}
  BY <1>1, <1>2, <1>3
<1>4. CASE I # {}
  <2>1. Min(I) \in I
    BY <1>4, MinIs
  <2>2. PICK m : m = Min(I)
    OBVIOUS
  <2>3. m \in 1..n /\ ls[m].title = title
    BY <2>1, <2>2
  <2>4. m \in Nat /\ m # 0
    BY <2>3
  <2>5. QED
    BY <1>1, <1>2, <1>4, <2>2, <2>3, <2>4
<1>5. QED
  BY <1>3, <1>4

\* FirstOf finds the place of a card, if there is one.
LEMMA FirstOfIs ==
  ASSUME NEW cards \in Seq(BoardCard), NEW c
  PROVE  /\ FirstOf(cards, c) \in 0..Len(cards)
         /\ FirstOf(cards, c) # 0 => FirstOf(cards, c) \in 1..Len(cards) /\ cards[FirstOf(cards, c)].id = c
         /\ Has(cards, c) => FirstOf(cards, c) # 0 /\ cards # <<>>
<1>1. PICK n \in Nat : n = Len(cards) /\ DOMAIN cards = 1..n
  BY LenProperties
<1> DEFINE I == {i \in 1..n : cards[i].id = c}
<1>2. FirstOf(cards, c) = IF I # {} THEN Min(I) ELSE 0
  BY <1>1, Zenon DEF FirstOf, SelectInSeq
<1>3. Has(cards, c) => I # {}
  BY <1>1 DEF Has
<1>4. CASE I = {}
  BY <1>1, <1>2, <1>3, <1>4
<1>5. CASE I # {}
  <2>1. Min(I) \in I
    BY <1>5, MinIs
  <2>2. PICK m : m = Min(I)
    OBVIOUS
  <2>3. m \in 1..n /\ cards[m].id = c
    BY <2>1, <2>2
  <2>4. m \in 0..n /\ m # 0 /\ n # 0
    BY <2>3
  <2>5. cards # <<>>
    BY <1>1, <2>4, EmptySeq
  <2>6. QED
    BY <1>1, <1>2, <1>5, <2>2, <2>3, <2>4, <2>5
<1>6. QED
  BY <1>4, <1>5

\* There is a lane, or an archive.
Filled(b) == b.lanes # <<>> \/ b.archived
OnBoard(b, c) == LaneOf(b, c) # 0 \/ Has(b.archive, c)
Remains(b, D) == Sound(b, D) /\ Filled(b)

\* A board with other lanes is sound,
LEMMA LanesSet ==
  ASSUME NEW D, NEW b, Sound(b, D), NEW n \in 1..Len(b.lanes), NEW cards \in Seq(BoardCard)
  PROVE  /\ Remains([b EXCEPT !.lanes[n].cards = cards], D)
         /\ Len([b EXCEPT !.lanes[n].cards = cards].lanes) = Len(b.lanes)
<1>1. PICK ls \in Seq(BoardLane) : ls = b.lanes
  BY DEF Sound
<1>2. PICK ms : ms = [ls EXCEPT ![n].cards = cards]
  OBVIOUS
<1>3. ms \in Seq(BoardLane) /\ ms # <<>> /\ Len(ms) = Len(ls)
  BY <1>1, <1>2, CardsChanged
<1>4. [b EXCEPT !.lanes[n].cards = cards] = [b EXCEPT !.lanes = ms]
  BY <1>1, <1>2
<1>5. Sound([b EXCEPT !.lanes = ms], D) /\ [b EXCEPT !.lanes = ms].lanes = ms
  BY <1>3 DEF Sound
<1>6. QED
  BY <1>1, <1>3, <1>4, <1>5 DEF Remains, Filled

\* and so is one with another archive.
LEMMA ArchiveSet ==
  ASSUME NEW D, NEW b, Sound(b, D), b.archived, NEW cards \in Seq(BoardCard)
  PROVE  /\ Remains([b EXCEPT !.archive = cards], D)
         /\ [b EXCEPT !.archive = cards].lanes = b.lanes
BY DEF Remains, Sound, Filled

\* A card is taken off the board.
LEMMA WithoutKeeps ==
  ASSUME NEW D, NEW b, Sound(b, D), NEW c, OnBoard(b, c)
  PROVE  /\ Remains(Without(b, c), D) /\ Len(Without(b, c).lanes) = Len(b.lanes)
         /\ Taken(b, c) \in BoardCard
<1>1. b.lanes \in Seq(BoardLane) /\ b.archive \in Seq(BoardCard)
  BY DEF Sound
<1>2. CASE LaneOf(b, c) # 0
  <2>1. PICK n : n = LaneOf(b, c) /\ n \in 1..Len(b.lanes) /\ Has(b.lanes[n].cards, c)
    BY <1>1, <1>2, LaneOfIs
  <2>2. PICK cards \in Seq(BoardCard) : cards = b.lanes[n].cards
    <3>1. b.lanes[n] \in BoardLane
      BY <1>1, <2>1, ElementOfSeq
    <3>2. QED
      BY <3>1 DEF BoardLane
  <2>3. FirstOf(cards, c) \in 1..Len(cards)
    BY <2>1, <2>2, FirstOfIs
  <2>4. PICK rest \in Seq(BoardCard) : rest = RemoveAt(cards, FirstOf(cards, c))
    BY <2>3, RemovedTyped
  <2>5. Without(b, c) = [b EXCEPT !.lanes[n].cards = rest]
    BY <1>2, <2>1, <2>2, <2>4 DEF Without
  <2>6. Taken(b, c) = cards[FirstOf(cards, c)]
    BY <1>2, <2>1, <2>2 DEF Taken
  <2>7. Taken(b, c) \in BoardCard
    BY <2>3, <2>6, ElementOfSeq
  <2>8. QED
    BY <2>1, <2>5, <2>7, LanesSet
<1>3. CASE LaneOf(b, c) = 0
  <2>1. PICK cards \in Seq(BoardCard) : cards = b.archive
    BY <1>1
  <2>2. Has(cards, c)
    BY <1>3, <2>1 DEF OnBoard
  <2>3. FirstOf(cards, c) \in 1..Len(cards) /\ cards # <<>>
    BY <2>2, FirstOfIs
  <2>4. PICK rest \in Seq(BoardCard) : rest = RemoveAt(cards, FirstOf(cards, c))
    BY <2>3, RemovedTyped
  <2>5. Without(b, c) = [b EXCEPT !.archive = rest]
    BY <1>3, <2>1, <2>4 DEF Without
  <2>6. Taken(b, c) = cards[FirstOf(cards, c)]
    BY <1>3, <2>1 DEF Taken
  <2>7. Taken(b, c) \in BoardCard
    BY <2>3, <2>6, ElementOfSeq
  <2>8. b.archived
    BY <2>1, <2>3 DEF Sound
  <2>9. QED
    BY <2>5, <2>7, <2>8, ArchiveSet
<1>4. QED
  BY <1>2, <1>3

\* A card is put in a lane.
LEMMA WithKeeps ==
  ASSUME NEW D, NEW b, Sound(b, D), NEW n \in 1..Len(b.lanes), NEW card \in BoardCard, NEW top
  PROVE  Remains(With(b, n, card, top), D)
<1>1. PICK cards \in Seq(BoardCard) : cards = b.lanes[n].cards
  <2>1. b.lanes[n] \in BoardLane
    BY ElementOfSeq DEF Sound
  <2>2. QED
    BY <2>1 DEF BoardLane
<1>2. PICK new : new = IF top THEN <<card>> \o cards ELSE Append(cards, card)
  OBVIOUS
<1>3. new \in Seq(BoardCard)
  <2>1. PICK one \in Seq(BoardCard) : one = <<card>>
    BY OneLine
  <2>2. one \o cards \in Seq(BoardCard) /\ Append(cards, card) \in Seq(BoardCard)
    BY ConcatProperties, AppendTyped
  <2>3. QED
    BY <1>2, <2>1, <2>2
<1>4. With(b, n, card, top) = [b EXCEPT !.lanes[n].cards = new]
  BY <1>1, <1>2 DEF With
<1>5. Remains([b EXCEPT !.lanes[n].cards = new], D)
  BY <1>3, LanesSet
<1>6. QED
  BY <1>4, <1>5, Zenon

\* A ticked card is a card.
LEMMA Ticks ==
  ASSUME NEW card \in BoardCard, NEW x \in BOOLEAN
  PROVE  [card EXCEPT !.ticked = x] \in BoardCard
BY DEF BoardCard

\* A card is moved to another lane.
LEMMA MovedKeeps ==
  ASSUME NEW D, NEW b, Sound(b, D), NEW c, OnBoard(b, c), NEW to, to = "Archive" \/ LaneTitled(b, to) # 0
  PROVE  Remains(Moved(b, c, to), D)
<1>1. PICK w : w = Without(b, c) /\ Sound(w, D) /\ Len(w.lanes) = Len(b.lanes)
  BY WithoutKeeps DEF Remains
<1>2. Taken(b, c) \in BoardCard
  BY WithoutKeeps
<1>3. CASE to = "Archive"
  <2>1. PICK card \in BoardCard : card = [Taken(b, c) EXCEPT !.ticked = TRUE]
    BY <1>2, Ticks
  <2>2. PICK cards : cards = Append(w.archive, card)
    OBVIOUS
  <2>3. cards \in Seq(BoardCard)
    BY <1>1, <2>2, AppendTyped DEF Sound
  <2>4. Moved(b, c, to) = [w EXCEPT !.archive = cards, !.archived = TRUE]
    BY <1>1, <1>3, <2>1, <2>2 DEF Moved
  <2>5. QED
    BY <1>1, <2>3, <2>4 DEF Remains, Sound, Filled
<1>4. CASE to # "Archive"
  <2>1. PICK card \in BoardCard : card = [Taken(b, c) EXCEPT !.ticked = FALSE]
    BY <1>2, Ticks
  <2>2. PICK n : n = LaneTitled(b, to) /\ n \in 1..Len(b.lanes)
    BY <1>4, LaneTitledIs DEF Sound
  <2>3. Moved(b, c, to) = With(w, n, card, FALSE)
    BY <1>1, <1>4, <2>1, <2>2 DEF Moved
  <2>4. QED
    BY <1>1, <2>2, <2>3, WithKeeps
<1>5. QED
  BY <1>3, <1>4

\* A lane that is not there cannot be changed.
LEMMA NoLaneSet ==
  ASSUME NEW D, NEW b, Sound(b, D), NEW cards
  PROVE  [b EXCEPT !.lanes[0].cards = cards] = b
<1>1. PICK ls \in Seq(BoardLane), n \in Nat : ls = b.lanes /\ n = Len(ls) /\ DOMAIN ls = 1..n
  BY LenProperties DEF Sound
<1>2. ls = [i \in 1..n |-> ls[i]]
  BY <1>1
<1>3. [ls EXCEPT ![0].cards = cards] = [i \in 1..n |-> ls[i]]
  <2>1. PICK y : y = [ls[0] EXCEPT !.cards = cards]
    OBVIOUS
  <2>2. [ls EXCEPT ![0].cards = cards] = [ls EXCEPT ![0] = y]
    BY <2>1
  <2>3. [ls EXCEPT ![0] = y] = [i \in 1..n |-> IF i = 0 THEN y ELSE ls[i]]
    BY <1>1, <1>2
  <2>4. \A i \in 1..n : i # 0
    OBVIOUS
  <2>5. QED
    BY <2>2, <2>3, <2>4
<1>4. [b EXCEPT !.lanes[0].cards = cards] = [b EXCEPT !.lanes = ls]
  BY <1>1, <1>2, <1>3
<1>5. [b EXCEPT !.lanes = ls] = b
  BY <1>1 DEF Sound
<1>6. QED
  BY <1>4, <1>5

\* What remains of the lane that a card was taken from.
LEMMA RestOfLane ==
  ASSUME NEW D, NEW b, Sound(b, D), NEW c, LaneOf(b, c) # 0
  PROVE  /\ LaneOf(b, c) \in 1..Len(b.lanes)
         /\ Without(b, c).lanes[LaneOf(b, c)].cards \in Seq(BoardCard)
<1>1. PICK w : w = Without(b, c) /\ Sound(w, D) /\ Len(w.lanes) = Len(b.lanes)
  BY WithoutKeeps DEF Remains, OnBoard
<1>2. PICK n : n = LaneOf(b, c) /\ n \in 1..Len(b.lanes)
  BY LaneOfIs DEF Sound
<1>3. w.lanes[n] \in BoardLane
  BY <1>1, <1>2, ElementOfSeq DEF Sound
<1>4. QED
  BY <1>1, <1>2, <1>3 DEF BoardLane

\* A card is moved in its lane.
LEMMA SlottedKeeps ==
  ASSUME NEW D, NEW b, Remains(b, D), NEW c, NEW others, NEW n
  PROVE  Remains(Slotted(b, c, others, n), D)
<1>1. Sound(b, D)
  BY DEF Remains
<1>2. PICK m : m = LaneOf(b, c)
  OBVIOUS
<1>3. PICK cards : cards = Without(b, c).lanes[m].cards
  OBVIOUS
<1>4. PICK at : at = IF n > Len(others) THEN 0 ELSE FirstOf(cards, others[n])
  OBVIOUS
<1>5. PICK i : i = IF at = 0 THEN Len(cards) + 1 ELSE at
  OBVIOUS
<1>6. Slotted(b, c, others, n) = [b EXCEPT !.lanes[m].cards = InsertAt(cards, i, Taken(b, c))]
  BY <1>2, <1>3, <1>4, <1>5 DEF Slotted
<1>7. CASE m = 0
  <2>1. [b EXCEPT !.lanes[0].cards = InsertAt(cards, i, Taken(b, c))] = b
    BY <1>1, NoLaneSet
  <2>2. QED
    BY <1>6, <1>7, <2>1
<1>8. CASE m # 0
  <2>1. m \in 1..Len(b.lanes) /\ cards \in Seq(BoardCard) /\ Taken(b, c) \in BoardCard
    BY <1>1, <1>2, <1>3, <1>8, RestOfLane, WithoutKeeps DEF OnBoard
  <2>2. Len(cards) \in Nat
    BY <2>1, LenProperties
  <2>3. at \in 0..Len(cards)
    <3>1. \A x : FirstOf(cards, x) \in 0..Len(cards)
      BY <2>1, FirstOfIs
    <3>2. 0 \in 0..Len(cards)
      BY <2>2
    <3>3. QED
      BY <1>4, <3>1, <3>2, Zenon
  <2>4. i \in 1..Len(cards) + 1
    BY <1>5, <2>2, <2>3
  <2>5. PICK more \in Seq(BoardCard) : more = InsertAt(cards, i, Taken(b, c))
    BY <2>1, <2>4, InsertedTyped
  <2>6. Remains([b EXCEPT !.lanes[m].cards = more], D)
    BY <1>1, <2>1, LanesSet
  <2>7. QED
    BY <1>6, <2>5, <2>6
<1>9. QED
  BY <1>7, <1>8

\* A lane is inserted.
LEMMA InsertedKeeps ==
  ASSUME NEW D, NEW b, Sound(b, D), NEW c, LaneOf(b, c) # 0,
         NEW p \in Places(Without(b, c).lanes[LaneOf(b, c)].cards)
  PROVE  Remains([Without(b, c) EXCEPT !.lanes[LaneOf(b, c)].cards = InsertAt(@, p, Taken(b, c))], D)
<1>1. PICK w : w = Without(b, c) /\ Sound(w, D) /\ Len(w.lanes) = Len(b.lanes)
  BY WithoutKeeps DEF Remains, OnBoard
<1>2. PICK n : n = LaneOf(b, c) /\ n \in 1..Len(b.lanes)
  BY RestOfLane
<1>3. PICK cards \in Seq(BoardCard) : cards = w.lanes[n].cards
  BY <1>1, <1>2, RestOfLane
<1>4. PICK m \in Nat : m = Len(cards) /\ DOMAIN cards = 1..m
  BY LenProperties
<1>5. p \in 1..Len(cards) + 1
  <2>1. p \in Places(cards)
    BY <1>1, <1>2, <1>3
  <2>2. p = 1 \/ p = m + 1 \/ \E j \in 1..m, d \in {0, 1} : p = j + d
    BY <1>4, <2>1 DEF Places
  <2>3. QED
    BY <1>4, <2>2
<1>6. Taken(b, c) \in BoardCard
  BY WithoutKeeps DEF OnBoard
<1>7. PICK more \in Seq(BoardCard) : more = InsertAt(cards, p, Taken(b, c))
  BY <1>5, <1>6, InsertedTyped
<1>8. Remains([w EXCEPT !.lanes[n].cards = more], D)
  BY <1>1, <1>2, LanesSet
<1>9. [w EXCEPT !.lanes[n].cards = more] = [w EXCEPT !.lanes[n].cards = InsertAt(@, p, Taken(b, c))]
  BY <1>3, <1>7
<1>10. QED
  BY <1>1, <1>2, <1>8, <1>9

\* Cards but those that are gone.
LEMMA RetainedTyped ==
  ASSUME NEW cards \in Seq(BoardCard), NEW gone
  PROVE  /\ Retained(cards, gone) \in Seq(BoardCard)
         /\ cards = <<>> => Retained(cards, gone) = <<>>
<1>1. PICK n \in Nat : n = Len(cards) /\ DOMAIN cards = 1..n /\ \A i \in 1..n : cards[i] \in BoardCard
  BY LenProperties, ElementOfSeq
<1>2. PICK ss : ss = [i \in 1..n |-> IF cards[i].id \in gone THEN <<>> ELSE <<cards[i]>>]
  OBVIOUS
<1>3. \A i \in 1..n : ss[i] \in Seq(BoardCard)
  <2> TAKE i \in 1..n
  <2>1. <<cards[i]>> \in Seq(BoardCard) /\ <<>> \in Seq(BoardCard)
    BY <1>1, OneLine, EmptySeq
  <2>2. ss[i] = IF cards[i].id \in gone THEN <<>> ELSE <<cards[i]>>
    BY <1>2, Zenon
  <2>3. QED
    BY <2>1, <2>2
<1>4. ss \in Seq(Seq(BoardCard)) /\ Len(ss) = n
  BY <1>2, <1>3
<1>5. Retained(cards, gone) = FlattenSeq(ss)
  BY <1>1, <1>2 DEF Retained
<1>6. PICK f : /\ Flattens(f, ss) /\ FlattenSeq(ss) = f[Len(ss)]
               /\ \A i \in 0..Len(ss) : f[i] \in Seq(BoardCard)
  BY <1>4, FlattenIs
<1>7. f[0] = <<>>
  BY <1>6 DEF Flattens
<1>8. cards = <<>> => n = 0
  BY <1>1
<1>9. QED
  BY <1>1, <1>4, <1>5, <1>6, <1>7, <1>8

\* The cards without a note are taken off.
LEMMA PrunedKeeps ==
  ASSUME NEW D, NEW b, Remains(b, D)
  PROVE  Remains(Pruned(b), D)
<1>1. PICK gone : gone = Orphans(b, noted)
  OBVIOUS
<1>2. PICK ls \in Seq(BoardLane), n \in Nat : ls = b.lanes /\ n = Len(ls) /\ DOMAIN ls = 1..n
  BY LenProperties DEF Remains, Sound
<1>3. PICK ms : ms = [i \in 1..n |-> [ls[i] EXCEPT !.cards = Retained(@, gone)]]
  OBVIOUS
<1>4. \A i \in 1..n : ms[i] \in BoardLane
  <2> TAKE i \in 1..n
  <2>1. PICK lane \in BoardLane : lane = ls[i]
    BY <1>2, ElementOfSeq
  <2>2. PICK cards \in Seq(BoardCard) : cards = Retained(lane.cards, gone)
    BY RetainedTyped DEF BoardLane
  <2>3. ms[i] = [lane EXCEPT !.cards = cards]
    BY <1>3, <2>1, <2>2
  <2>4. QED
    BY <2>3 DEF BoardLane
<1>5. ms \in Seq(BoardLane) /\ Len(ms) = n
  BY <1>3, <1>4
<1>6. ls # <<>> => ms # <<>>
  BY <1>2, <1>5, EmptySeq
<1>7. PICK cards : cards = Retained(b.archive, gone)
  OBVIOUS
<1>8. cards \in Seq(BoardCard) /\ (b.archive = <<>> => cards = <<>>)
  BY <1>7, RetainedTyped DEF Remains, Sound
<1>9. Pruned(b) = [b EXCEPT !.lanes = ms, !.archive = cards]
  BY <1>1, <1>2, <1>3, <1>7 DEF Pruned
<1>10. QED
  BY <1>2, <1>5, <1>6, <1>8, <1>9 DEF Remains, Sound, Filled

-----------------------------------------------------------------------------
(* Texts.                                                                  *)

\* Any line may be written, and so may any but the keys of a design.
LEMMA LinesAreWritable == Writable(Lines) /\ Writable(Lines \ {Line("design keys")})
<1>1. Writable(Lines)
  BY DEF Writable, Lines, Line, Heading, Item
<1>2. \A l : l.k # "design keys" => l # Line("design keys")
  <2>1. Line("design keys").k = "design keys"
    BY DEF Line
  <2>2. QED
    BY <2>1, Zenon
<1>3. /\ Line("blank") # Line("design keys") /\ Line("rule") # Line("design keys")
      /\ Line("more") # Line("design keys")
  BY <1>2 DEF Line
<1>4. \A title, limit : Heading(title, limit) # Line("design keys")
  BY <1>2 DEF Heading
<1>5. \A id, ticked : Item(id, ticked) # Line("design keys")
  BY <1>2 DEF Item
<1>6. QED
  BY <1>1, <1>3, <1>4, <1>5, Zenon DEF Writable

\* What is written of a sound board is a text.
LEMMA WrittenTyped ==
  ASSUME NEW D, Writable(D), NEW b, Sound(b, D)
  PROVE  ToText(b) \in Seq(D)
<1>1. PICK h \in Seq(D) : h = HeadLines(b)
  BY HeadReads
<1>2. PICK l \in Seq(D) : l = FlattenSeq(LanesLines(b.lanes))
  BY LanesRead DEF Sound
<1>3. PICK a \in Seq(D) : a = TailLines(b)
  BY TailReads
<1>4. PICK e \in Seq(D) : e = Ended(b.trailer)
  BY EndedIs DEF Sound
<1>5. ToText(b) = ((h \o l) \o a) \o e
  BY <1>1, <1>2, <1>3, <1>4, WrittenIs
<1>6. h \o l \in Seq(D) /\ (h \o l) \o a \in Seq(D) /\ ((h \o l) \o a) \o e \in Seq(D)
  BY ConcatProperties
<1>7. QED
  BY <1>5, <1>6

\* Nothing joined with something is that.
LEMMA ConcatEmpty ==
  ASSUME NEW S, NEW s \in Seq(S), NEW t \in Seq(S), s \o t = <<>>
  PROVE  s = <<>> /\ t = <<>>
BY ConcatEmptySeq

\* What leads from one state to another is not empty.
LEMMA LeadsSomewhere ==
  ASSUME NEW p, NEW q, p # q
  PROVE  ~Leads(p, <<>>, q)
<1>1. Len(<<>>) = 0
  OBVIOUS
<1>2. QED
  BY <1>1 DEF Leads

\* A board with a lane, or an archive, has a text.
LEMMA WrittenIsText ==
  ASSUME NEW D, Writable(D), NEW b, Remains(b, D)
  PROVE  ToText(b) # <<>>
<1>1. PICK h \in Seq(D) : h = HeadLines(b)
  BY HeadReads DEF Remains
<1>2. PICK l \in Seq(D) : l = FlattenSeq(LanesLines(b.lanes))
  BY LanesRead DEF Remains, Sound
<1>3. PICK a \in Seq(D) : a = TailLines(b)
  BY TailReads DEF Remains
<1>4. PICK e \in Seq(D) : e = Ended(b.trailer)
  BY EndedIs DEF Remains, Sound
<1>5. ToText(b) = ((h \o l) \o a) \o e
  BY <1>1, <1>2, <1>3, <1>4, WrittenIs DEF Remains
<1>6. h \o l \in Seq(D) /\ (h \o l) \o a \in Seq(D) /\ ((h \o l) \o a) \o e \in Seq(D)
  BY ConcatProperties
<1>7. CASE b.lanes # <<>>
  <2>1. PICK lanes : lanes = b.lanes /\ lanes # <<>>
    BY <1>7
  <2>2. AfterLanes(<<>>, <<>>) # AfterLanes(<<>>, lanes)
    BY <2>1 DEF AfterLanes, Reading
  <2>3. Leads(AfterLanes(<<>>, <<>>), l, AfterLanes(<<>>, lanes))
    BY <1>2, <2>1, LanesRead DEF Remains, Sound
  <2>4. l # <<>>
    BY <2>2, <2>3, LeadsSomewhere
  <2>5. QED
    BY <1>5, <1>6, <2>4, ConcatEmpty
<1>8. CASE b.lanes = <<>>
  <2>1. b.archived
    BY <1>8 DEF Remains, Filled
  <2>2. PICK cards \in Seq(BoardCard) : cards = b.archive
    BY DEF Remains, Sound
  <2>3. a = ArchiveLines(cards)
    BY <1>3, <2>1, <2>2 DEF TailLines
  <2>4. PICK p, q : /\ p = AfterLanes(h, <<>>)
                    /\ q = Reading(BeforeArchive(h, <<>>), <<>>, cards, TRUE, <<>>, "archive", FALSE)
    OBVIOUS
  <2>5. Leads(p, a, q)
    BY <2>3, <2>4, ArchiveReads
  <2>6. p.at = "preamble" /\ q.at = "archive"
    BY <2>4 DEF AfterLanes, Reading
  <2>7. a # <<>>
    BY <2>5, <2>6, LeadsSomewhere
  <2>8. QED
    BY <1>5, <1>6, <2>7, ConcatEmpty
<1>9. QED
  BY <1>7, <1>8

\* x is the line that goes, k its kind.
LEMMA DesignLine ==
  \E x, k :
    /\ x = Line("design keys") /\ k = "design keys"
    /\ \A l \in Lines : l.k = k <=> l = x
<1>1. Line("design keys").k = "design keys"
  BY DEF Line
<1>2. ASSUME NEW l \in Lines, l.k = "design keys" PROVE l = Line("design keys")
  <2>1. "design keys" # "lane" /\ "design keys" # "item"
    OBVIOUS
  <2>2. \/ l \in [k : {"lane"}, title : ToSet(Active) \cup {Icebox, "Archive"}, limit : {0, 3}]
        \/ l \in [k : {"item"}, id : Ids \cup {"none"}, ticked : BOOLEAN]
        \/ l \in [k : {"more", "blank", "rule", "foreign", "settings", "keys", "design keys"}]
    BY Zenon DEF Lines
  <2>3. ASSUME l \in [k : {"lane"}, title : ToSet(Active) \cup {Icebox, "Archive"}, limit : {0, 3}] PROVE FALSE
    <3>1. l.k = "lane"
      BY <2>3
    <3>2. QED
      BY <1>2, <2>1, <3>1
  <2>4. ASSUME l \in [k : {"item"}, id : Ids \cup {"none"}, ticked : BOOLEAN] PROVE FALSE
    <3>1. l.k = "item"
      BY <2>4
    <3>2. QED
      BY <1>2, <2>1, <3>1
  <2>5. l \in [k : {"more", "blank", "rule", "foreign", "settings", "keys", "design keys"}]
    BY <2>2, <2>3, <2>4
  <2>6. \A K : l \in [k : K] => l = [k |-> l.k]
    OBVIOUS
  <2>7. l = [k |-> l.k]
    BY <2>5, <2>6, Zenon
  <2>8. QED
    BY <1>2, <2>7, Zenon DEF Line
<1>3. QED
  BY <1>1, <1>2, Zenon

\* The keys of a design are taken out of a text, and nothing else is.
LEMMA DesignIs ==
  ASSUME NEW t \in Seq(Lines)
  PROVE  /\ WithoutDesign(t) \in Seq(Lines)
         /\ ~Contains(t, Line("design keys")) => WithoutDesign(t) = t /\ t \in Seq(Lines \ {Line("design keys")})
         /\ t \in Seq(Lines \ {Line("design keys")}) => WithoutDesign(t) = t
<1>1. PICK n \in Nat : n = Len(t) /\ \A i \in 1..n : t[i] \in Lines
  BY LenProperties, ElementOfSeq
<1>2. PICK x, k : /\ x = Line("design keys") /\ k = "design keys"
                  /\ \A l \in Lines : l.k = k <=> l = x
  BY DesignLine, Zenon
<1>3. \A l \in Lines : l.k = k <=> l = x
  BY <1>2, Zenon
<1>4. PICK y \in Lines : y = Line("keys")
  BY DEF Lines, Line
<1> DEFINE I == {i \in 1..n : t[i].k = k}
<1>5. PICK m : m = IF I # {} THEN Min(I) ELSE 0
  OBVIOUS
<1>6. WithoutDesign(t) = IF m = 0 THEN t ELSE ReplaceAt(t, m, y)
  BY <1>1, <1>2, <1>4, <1>5, Zenon DEF WithoutDesign, SelectInSeq
<1>7. m # 0 => m \in 1..n /\ t[m].k = k
  <2>1. I # {} => Min(I) \in I
    BY MinIs
  <2>2. QED
    BY <1>5, <2>1
<1>8. WithoutDesign(t) \in Seq(Lines)
  <2>1. CASE m = 0
    BY <1>6, <2>1
  <2>2. CASE m # 0
    BY <1>1, <1>6, <1>7, <2>2, OneChanged DEF ReplaceAt
  <2>3. QED
    BY <2>1, <2>2
<1>9. ASSUME ~Contains(t, x)
      PROVE  WithoutDesign(t) = t /\ t \in Seq(Lines \ {x})
  <2>1. \A i \in 1..n : t[i] # x
    BY <1>1, <1>9 DEF Contains
  <2>2. m = 0
    BY <1>1, <1>3, <1>7, <2>1
  <2>3. t \in Seq(Lines \ {x})
    <3>1. \A i \in 1..n : t[i] \in Lines \ {x}
      BY <1>1, <2>1
    <3>2. t = [i \in 1..n |-> t[i]]
      BY <1>1
    <3>3. QED
      BY <3>1, <3>2
  <2>4. QED
    BY <1>6, <2>2, <2>3
<1>10. ASSUME t \in Seq(Lines \ {x})
       PROVE  WithoutDesign(t) = t
  <2>1. \A i \in 1..n : t[i] # x
    BY <1>1, <1>10, ElementOfSeq
  <2>2. m = 0
    BY <1>1, <1>3, <1>7, <2>1
  <2>3. QED
    BY <1>6, <2>2
<1>11. QED
  BY <1>2, <1>8, <1>9, <1>10, Zenon

-----------------------------------------------------------------------------
(* Every step leaves a text, and what was meant by it.                     *)

TextInv ==
  /\ text \in Seq(Lines)
  /\ noted \subseteq Ids /\ stamped \subseteq Ids
  /\ touches \in 0..MaxTouches /\ writes \in 0..MaxWrites
  /\ meant # <<>> => Remains(meant, Lines) /\ text = ToText(meant)

\* The part of it that is about the text, after a step.
TextKept == text' \in Seq(Lines) /\ (meant' # <<>> => Remains(meant', Lines) /\ text' = ToText(meant'))

\* What the bounds are.
LEMMA LimitsAre == MaxTouches \in Nat /\ MaxWrites \in Nat /\ Active[1] \in ToSet(Active) /\ Len(Active) \in Nat
<1>1. Len(Active) \in Nat /\ Len(Active) # 0 /\ DOMAIN Active = 1..Len(Active)
  BY BoardTextAssumption, EmptySeq, LenProperties
<1>2. 1 \in DOMAIN Active
  BY <1>1
<1>3. QED
  BY <1>1, <1>2, BoardTextAssumption DEF ToSet

\* A write of a sound board keeps the invariant.
LEMMA WritesKeeps ==
  ASSUME NEW b, Remains(b, Lines), Writes(b)
  PROVE  TextKept
<1>1. text' = ToText(b) /\ meant' = b
  BY DEF Writes
<1>2. ToText(b) \in Seq(Lines)
  BY WrittenTyped, LinesAreWritable DEF Remains
<1>3. QED
  BY <1>1, <1>2 DEF TextKept

\* A command that writes nothing does.
LEMMA RunsKeeps ==
  ASSUME TextInv, NEW k, Runs(k), TextKept, noted' \subseteq Ids, stamped' \subseteq Ids
  PROVE  TextInv'
<1>1. touches' \in 0..MaxTouches /\ writes' \in 0..MaxWrites
  BY LimitsAre DEF TextInv, Runs
<1>2. QED
  BY <1>1 DEF TextInv, TextKept

\* A card that has a status is on the board.
LEMMA HasStatusOnBoard ==
  ASSUME NEW b, NEW c, HasStatus(b, c)
  PROVE  OnBoard(b, c)
BY DEF HasStatus, IsActive, IsArchived, OnBoard

\* The board that a command reads is sound, and Parse gives nothing new.
LEMMA ParsedIsSound ==
  ASSUME TextInv
  PROVE  Sound(Parse(text), Lines)
BY ParseIsSound DEF TextInv

\* A command that ends without a write.
LEMMA NothingWritten ==
  ASSUME TextInv, UNCHANGED <<text, meant>>
  PROVE  TextKept
BY DEF TextInv, TextKept

\* A move to another lane.
LEMMA MovesToKeeps ==
  ASSUME TextInv, NEW b, Sound(b, Lines), NEW c \in Ids, NEW to \in ToSet(Active) \cup {"Archive"}, MovesTo(b, c, to)
  PROVE  TextInv'
<1>1. Runs("move") /\ noted' = noted
  BY DEF MovesTo
<1>2. noted' \subseteq Ids /\ stamped' \subseteq Ids
  BY <1>1 DEF MovesTo, TextInv
<1>3. TextKept
  <2>1. CASE to # "Archive" /\ LaneTitled(b, to) = 0
    <3>1. UNCHANGED <<text, meant>>
      BY <2>1 DEF MovesTo
    <3>2. QED
      BY <3>1, NothingWritten
  <2>2. CASE to = "Archive" \/ LaneTitled(b, to) # 0
    <3>1. PICK m : m = Moved(b, c, to)
      OBVIOUS
    <3>2. OnBoard(b, c)
      BY HasStatusOnBoard DEF MovesTo
    <3>3. Remains(m, Lines)
      BY <2>2, <3>1, <3>2, MovedKeeps
    <3>4. \/ Writes(m)
          \/ \E others, n : Writes(Slotted(m, c, others, n))
      BY <2>2, <3>1, Zenon DEF MovesTo
    <3>5. CASE Writes(m)
      BY <3>3, <3>5, WritesKeeps
    <3>6. CASE \E others, n : Writes(Slotted(m, c, others, n))
      <4>1. PICK others, n : Writes(Slotted(m, c, others, n))
        BY <3>6
      <4>2. Remains(Slotted(m, c, others, n), Lines)
        BY <3>3, SlottedKeeps
      <4>3. QED
        BY <4>1, <4>2, WritesKeeps
    <3>7. QED
      BY <3>4, <3>5, <3>6
  <2>3. QED
    BY <2>1, <2>2
<1>4. QED
  BY <1>1, <1>2, <1>3, RunsKeeps

\* A move to the icebox.
LEMMA ShelvesCardKeeps ==
  ASSUME TextInv, NEW b, Sound(b, Lines), NEW c \in Ids, ShelvesCard(b, c)
  PROVE  TextInv'
<1>1. PICK k : Runs(k)
  BY DEF ShelvesCard
<1>2. Writes(Without(b, c)) /\ noted' = noted /\ stamped' = stamped
  BY DEF ShelvesCard
<1>3. Remains(Without(b, c), Lines)
  <2>1. OnBoard(b, c)
    BY HasStatusOnBoard DEF ShelvesCard
  <2>2. QED
    BY <2>1, WithoutKeeps
<1>4. TextKept
  BY <1>2, <1>3, WritesKeeps
<1>5. noted' \subseteq Ids /\ stamped' \subseteq Ids
  BY <1>2 DEF TextInv
<1>6. QED
  BY <1>1, <1>4, <1>5, RunsKeeps

\* A move within a lane.
LEMMA PrioritizesKeeps ==
  ASSUME TextInv, NEW b, Sound(b, Lines), NEW c \in Ids, Prioritizes(b, c)
  PROVE  TextInv'
<1>1. Runs("prioritize") /\ noted' = noted /\ stamped' = stamped
  BY DEF Prioritizes
<1>2. PICK rest, p :
        /\ rest = Without(b, c) /\ p \in Places(rest.lanes[LaneOf(b, c)].cards)
        /\ Writes([rest EXCEPT !.lanes[LaneOf(b, c)].cards = InsertAt(@, p, Taken(b, c))])
  BY Zenon DEF Prioritizes
<1>3. Remains([rest EXCEPT !.lanes[LaneOf(b, c)].cards = InsertAt(@, p, Taken(b, c))], Lines)
  BY <1>2, InsertedKeeps DEF Prioritizes
<1>4. TextKept
  BY <1>2, <1>3, WritesKeeps
<1>5. noted' \subseteq Ids /\ stamped' \subseteq Ids
  BY <1>1 DEF TextInv
<1>6. QED
  BY <1>1, <1>4, <1>5, RunsKeeps

\* The card of a new note is a card.
LEMMA NewLinkTyped ==
  ASSUME NEW c \in Ids
  PROVE  NewLink(c) \in BoardCard
BY DEF NewLink, BoardCard

\* A new card in a lane.
LEMMA FilesCardKeeps ==
  ASSUME TextInv, NEW b, Sound(b, Lines), NEW c \in Ids, NEW top, FilesCard(b, c, top)
  PROVE  TextInv'
<1>1. Runs("new") /\ noted' = noted \cup {c} /\ stamped' = stamped \ {c}
  BY DEF FilesCard
<1>2. noted' \subseteq Ids /\ stamped' \subseteq Ids
  BY <1>1 DEF TextInv
<1>3. CASE LaneTitled(b, Active[1]) = 0
  <2>1. UNCHANGED <<text, meant>>
    BY <1>3 DEF FilesCard
  <2>2. QED
    BY <1>1, <1>2, <2>1, NothingWritten, RunsKeeps
<1>4. CASE LaneTitled(b, Active[1]) # 0
  <2>1. PICK n : n = LaneTitled(b, Active[1]) /\ n \in 1..Len(b.lanes)
    BY <1>4, LaneTitledIs DEF Sound
  <2>2. Writes(With(b, n, NewLink(c), top))
    BY <1>4, <2>1 DEF FilesCard
  <2>3. Remains(With(b, n, NewLink(c), top), Lines)
    BY <2>1, NewLinkTyped, WithKeeps
  <2>4. QED
    BY <1>1, <1>2, <2>2, <2>3, WritesKeeps, RunsKeeps
<1>5. QED
  BY <1>3, <1>4

\* A new note, with a card.
LEMMA FilesNoteKeeps ==
  ASSUME TextInv, NEW c \in Ids, FilesNote(c)
  PROVE  TextInv'
<1>1. Runs("new") /\ noted' = noted \cup {c} /\ stamped' = stamped \ {c} /\ UNCHANGED <<text, meant>>
  BY DEF FilesNote
<1>2. noted' \subseteq Ids /\ stamped' \subseteq Ids
  BY <1>1 DEF TextInv
<1>3. QED
  BY <1>1, <1>2, NothingWritten, RunsKeeps

\* A card that has just been put in a lane is on the board.
LEMMA WithIsOnBoard ==
  ASSUME NEW D, NEW b, Sound(b, D), NEW n \in 1..Len(b.lanes), NEW card \in BoardCard
  PROVE  OnBoard(With(b, n, card, TRUE), card.id)
<1>1. PICK ls \in Seq(BoardLane) : ls = b.lanes
  BY DEF Sound
<1>2. PICK cards \in Seq(BoardCard) : cards = ls[n].cards
  <2>1. ls[n] \in BoardLane
    BY <1>1, ElementOfSeq
  <2>2. QED
    BY <2>1 DEF BoardLane
<1>3. PICK one \in Seq(BoardCard) : one = <<card>> /\ Len(one) = 1 /\ one[1] = card
  <2>1. <<card>> \in Seq(BoardCard) /\ Len(<<card>>) = 1 /\ <<card>>[1] = card
    OBVIOUS
  <2>2. QED
    BY <2>1
<1>4. PICK new \in Seq(BoardCard) : new = one \o cards /\ Len(new) = 1 + Len(cards) /\ new[1] = card
  <2>1. Len(cards) \in Nat
    BY LenProperties
  <2>2. one \o cards \in Seq(BoardCard) /\ Len(one \o cards) = 1 + Len(cards) /\ (one \o cards)[1] = one[1]
    BY <1>3, <2>1, ConcatProperties
  <2>3. QED
    BY <1>3, <2>2
<1>5. Has(new, card.id)
  <2>1. DOMAIN new = 1..Len(new) /\ Len(cards) \in Nat
    BY LenProperties
  <2>2. 1 \in DOMAIN new
    BY <1>4, <2>1
  <2>3. QED
    BY <1>4, <2>2 DEF Has
<1>6. With(b, n, card, TRUE) = [b EXCEPT !.lanes[n].cards = new]
  BY <1>1, <1>2, <1>3, <1>4 DEF With
<1>7. PICK ms : ms = [ls EXCEPT ![n].cards = new]
  OBVIOUS
<1>8. PICK w : w = With(b, n, card, TRUE)
  OBVIOUS
<1>9. w.lanes = ms
  <2>1. w = [b EXCEPT !.lanes = ms]
    BY <1>1, <1>6, <1>7, <1>8
  <2>2. QED
    BY <2>1 DEF Sound
<1>10. ms \in Seq(BoardLane) /\ n \in 1..Len(ms) /\ ms[n].cards = new
  <2>1. n \in 1..Len(ls)
    BY <1>1
  <2>2. ms \in Seq(BoardLane) /\ Len(ms) = Len(ls) /\ ms[n].cards = new
    BY <1>7, <2>1, CardsChanged
  <2>3. QED
    BY <2>1, <2>2
<1>11. LaneOf(w, card.id) # 0
  BY <1>5, <1>9, <1>10, LaneOfIs
<1>12. QED
  BY <1>8, <1>11 DEF OnBoard

\* A design becomes a ticket.
LEMMA PromotesNoteKeeps ==
  ASSUME TextInv, NEW b, Sound(b, Lines), NEW c \in Ids, NEW to \in ToSet(Active) \cup {"Archive"},
         PromotesNote(b, c, to)
  PROVE  TextInv'
<1>1. Runs("promote") /\ noted' = noted
  BY DEF PromotesNote
<1>2. noted' \subseteq Ids /\ stamped' \subseteq Ids
  BY <1>1 DEF PromotesNote, TextInv
<1>3. NewLink(c) \in BoardCard /\ NewLink(c).id = c
  BY NewLinkTyped DEF NewLink
<1>4. CASE to = "Archive"
  <2>1. PICK n : n = LaneTitled(b, Active[1]) /\ n \in 1..Len(b.lanes)
    BY <1>4, LaneTitledIs DEF Sound, PromotesNote
  <2>2. PICK w : w = With(b, n, NewLink(c), TRUE)
    OBVIOUS
  <2>3. Remains(w, Lines) /\ OnBoard(w, c)
    BY <1>3, <2>1, <2>2, WithKeeps, WithIsOnBoard
  <2>4. Remains(Moved(w, c, to), Lines)
    BY <1>4, <2>3, MovedKeeps DEF Remains
  <2>5. Writes(Moved(w, c, to))
    BY <1>4, <2>1, <2>2 DEF PromotesNote
  <2>6. QED
    BY <1>1, <1>2, <2>4, <2>5, WritesKeeps, RunsKeeps
<1>5. CASE to # "Archive"
  <2>1. PICK n : n = LaneTitled(b, to) /\ n \in 1..Len(b.lanes)
    BY <1>5, LaneTitledIs DEF Sound, PromotesNote
  <2>2. Remains(With(b, n, NewLink(c), TRUE), Lines)
    BY <1>3, <2>1, WithKeeps
  <2>3. Writes(With(b, n, NewLink(c), TRUE))
    BY <1>5, <2>1 DEF PromotesNote
  <2>4. QED
    BY <1>1, <1>2, <2>2, <2>3, WritesKeeps, RunsKeeps
<1>6. QED
  BY <1>4, <1>5

\* A board that lint takes cards off has a lane or an archive.
LEMMA OrphansFill ==
  ASSUME NEW D, NEW b, Sound(b, D), NEW n, Orphans(b, n) # {}
  PROVE  Filled(b)
<1>1. PICK c : c \in BoardIds(b)
  BY DEF Orphans
<1>2. LaneOf(b, c) # 0 \/ Has(b.archive, c)
  BY <1>1 DEF BoardIds
<1>3. CASE LaneOf(b, c) # 0
  <2>1. LaneOf(b, c) \in 1..Len(b.lanes)
    BY <1>3, LaneOfIs DEF Sound
  <2>2. b.lanes # <<>>
    BY <2>1
  <2>3. QED
    BY <2>2 DEF Filled
<1>4. CASE Has(b.archive, c)
  <2>1. b.archive # <<>>
    BY <1>4, FirstOfIs DEF Sound
  <2>2. QED
    BY <2>1 DEF Sound, Filled
<1>5. QED
  BY <1>2, <1>3, <1>4

\* What is sound among fewer lines is sound.
LEMMA SoundAmong ==
  ASSUME NEW D, NEW E, D \subseteq E, NEW b, Remains(b, D)
  PROVE  Remains(b, E)
<1>1. \A s \in Seq(D) : s \in Seq(E)
  OBVIOUS
<1>2. QED
  BY <1>1 DEF Remains, Sound

\* What lint fixes.
LEMMA LintFixesKeeps ==
  ASSUME TextInv, NEW b, b = Parse(text), LintFixes(b)
  PROVE  TextInv'
<1>1. PICK k : Runs(k)
  BY DEF LintFixes
<1>2. noted' = noted /\ stamped' = stamped /\ text' = Mended(text, b)
  BY DEF LintFixes
<1>3. noted' \subseteq Ids /\ stamped' \subseteq Ids
  BY <1>2 DEF TextInv
<1>4. text \in Seq(Lines) /\ Sound(b, Lines)
  BY ParsedIsSound DEF TextInv
<1>5. TextKept
  <2>1. PICK x : x = Line("design keys")
    OBVIOUS
  <2>2. PICK D : D = Lines \ {x} /\ D \subseteq Lines
    OBVIOUS
  <2>3. Writable(D)
    BY <2>1, <2>2, LinesAreWritable, Zenon
  <2>4. PICK e : e = (Orphans(b, noted) # {})
    OBVIOUS
  <2>5. CASE Orphans(b, noted) # {}
    <3>1. Remains(Pruned(b), Lines)
      BY <1>4, <2>5, OrphansFill, PrunedKeeps DEF Remains
    <3>2. ToText(Pruned(b)) \in Seq(Lines)
      BY <3>1, LinesAreWritable, WrittenTyped DEF Remains
    <3>3. text' = WithoutDesign(ToText(Pruned(b)))
      BY <1>2, <2>5, Zenon DEF Mended
    <3>4. text' \in Seq(Lines)
      BY <3>2, <3>3, DesignIs, Zenon
    <3>5. CASE Contains(text, x)
      <4>1. meant' = <<>>
        BY <2>1, <3>5, Zenon DEF LintFixes
      <4>2. QED
        BY <3>4, <4>1 DEF TextKept
    <3>6. CASE ~Contains(text, x)
      <4>1. text \in Seq(D)
        BY <1>4, <2>1, <2>2, <3>6, DesignIs, Zenon
      <4>2. Sound(b, D)
        BY <2>2, <4>1, ParseIsSound
      <4>3. Remains(Pruned(b), D)
        BY <2>5, <4>2, OrphansFill, PrunedKeeps DEF Remains
      <4>4. ToText(Pruned(b)) \in Seq(D)
        BY <2>3, <4>3, WrittenTyped DEF Remains
      <4>5. text' = ToText(Pruned(b))
        BY <2>1, <2>2, <3>2, <3>3, <4>4, DesignIs, Zenon
      <4>6. meant' = Pruned(b)
        BY <2>1, <2>5, <3>6, Zenon DEF LintFixes
      <4>7. QED
        BY <3>1, <3>4, <4>5, <4>6, Zenon DEF TextKept
    <3>7. QED
      BY <3>5, <3>6
  <2>6. CASE Orphans(b, noted) = {}
    <3>1. text' = WithoutDesign(text)
      BY <1>2, <2>6, Zenon DEF Mended
    <3>2. text' \in Seq(Lines)
      BY <1>4, <3>1, DesignIs, Zenon
    <3>3. CASE Contains(text, x)
      <4>1. meant' = <<>>
        BY <2>1, <3>3, Zenon DEF LintFixes
      <4>2. QED
        BY <3>2, <4>1 DEF TextKept
    <3>4. CASE ~Contains(text, x)
      <4>1. text' = text
        BY <1>4, <2>1, <3>1, <3>4, DesignIs, Zenon
      <4>2. meant' = meant
        BY <2>1, <2>6, <3>4, Zenon DEF LintFixes
      <4>3. QED
        BY <4>1, <4>2, NothingWritten
    <3>5. QED
      BY <3>3, <3>4
  <2>7. QED
    BY <2>5, <2>6
<1>6. QED
  BY <1>1, <1>3, <1>5, RunsKeeps

\* The board of a new project is a text.
LEMMA InitialBoardTyped == InitialBoard \in Seq(Lines)
<1>1. PICK n \in Nat : n = Len(Active) /\ DOMAIN Active = 1..n /\ \A i \in 1..n : Active[i] \in ToSet(Active)
  BY BoardTextAssumption, LenProperties, ElementOfSeq
<1>2. PICK lanes : lanes = [i \in 1..n |-> LaneWith(Active[i], 0, <<>>)]
  OBVIOUS
<1>3. \A i \in 1..n : lanes[i] \in BoardLane
  <2>1. <<>> \in Seq(BoardCard)
    BY EmptySeq
  <2>2. QED
    BY <1>1, <1>2, <2>1 DEF BoardLane, LaneWith
<1>4. lanes \in Seq(BoardLane) /\ DOMAIN lanes = 1..n
  BY <1>2, <1>3
<1>5. LanesLines(lanes) = [i \in 1..n |-> LaneLines(lanes[i])]
  BY <1>4 DEF LanesLines
<1>6. \A i \in 1..n : lanes[i] = [title |-> Active[i], limit |-> 0, cards |-> <<>>]
  BY <1>2 DEF LaneWith
<1>7. LanesLines(lanes) = [i \in DOMAIN Active |-> LaneLines([title |-> Active[i], limit |-> 0, cards |-> <<>>])]
  BY <1>1, <1>5, <1>6
<1>8. PICK l \in Seq(Lines) : l = FlattenSeq(LanesLines(lanes))
  BY <1>4, LanesRead, LinesAreWritable
<1>9. PICK h \in Seq(Lines) : h = <<Line("rule"), Line("foreign"), Line("rule"), Line("blank")>>
  <2>1. PICK r, f, b : r = Line("rule") /\ f = Line("foreign") /\ b = Line("blank")
    OBVIOUS
  <2>2. r \in Lines /\ f \in Lines /\ b \in Lines
    BY <2>1, Zenon DEF Lines, Line
  <2>3. <<r, f, r, b>> \in Seq(Lines)
    BY <2>2
  <2>4. QED
    BY <2>1, <2>3
<1>10. PICK e \in Seq(Lines) : e = <<Line("settings"), Line("keys")>>
  <2>1. PICK s, k : s = Line("settings") /\ k = Line("keys")
    OBVIOUS
  <2>2. s \in Lines /\ k \in Lines
    BY <2>1, Zenon DEF Lines, Line
  <2>3. <<s, k>> \in Seq(Lines)
    BY <2>2
  <2>4. QED
    BY <2>1, <2>3
<1>11. h \o l \in Seq(Lines) /\ (h \o l) \o e \in Seq(Lines)
  BY ConcatProperties
<1>12. InitialBoard = (h \o l) \o e
  BY <1>7, <1>8, <1>9, <1>10, Zenon DEF InitialBoard
<1>13. QED
  BY <1>11, <1>12

\* The invariant holds at first.
LEMMA TextInvInit == BoardTextInit => TextInv
<1> SUFFICES ASSUME BoardTextInit PROVE TextInv
  OBVIOUS
<1>1. text \in Seq(Lines)
  BY BoardTextAssumption DEF BoardTextInit
<1>2. noted \subseteq Ids /\ stamped \subseteq Ids /\ meant = <<>> /\ touches = 0 /\ writes = 0
  BY DEF BoardTextInit
<1>3. QED
  BY <1>1, <1>2, LimitsAre DEF TextInv

\* A new board is written.
LEMMA ScaffoldsKeeps ==
  ASSUME TextInv, Scaffolds
  PROVE  TextInv'
<1>1. Runs("init") /\ noted' = noted /\ stamped' = stamped /\ meant' = meant
  BY DEF Scaffolds
<1>2. text' = IF text = <<>> THEN InitialBoard ELSE text
  BY DEF Scaffolds
<1>3. noted' \subseteq Ids /\ stamped' \subseteq Ids
  BY <1>1 DEF TextInv
<1>4. TextKept
  <2>1. CASE text = <<>>
    <3>1. meant = <<>>
      BY <2>1, WrittenIsText, LinesAreWritable DEF TextInv
    <3>2. QED
      BY <1>1, <1>2, <2>1, <3>1, InitialBoardTyped DEF TextKept
  <2>2. CASE text # <<>>
    <3>1. UNCHANGED <<text, meant>>
      BY <1>1, <1>2, <2>2
    <3>2. QED
      BY <3>1, NothingWritten
  <2>3. QED
    BY <2>1, <2>2
<1>5. QED
  BY <1>1, <1>3, <1>4, RunsKeeps

\* Whatever text a person leaves.
LEMMA TouchesKeeps ==
  ASSUME TextInv, Touches, text' \in Seq(Lines), noted' \subseteq Ids
  PROVE  TextInv'
<1>1. touches' \in 0..MaxTouches /\ writes' \in 0..MaxWrites
  BY LimitsAre DEF TextInv, Touches
<1>2. QED
  BY <1>1 DEF TextInv, Touches

\* A note or a line that a person deletes, or a line that is put in.
LEMMA EditsKeep ==
  ASSUME TextInv,
         \/ \E c \in Ids : DeletesNote(c)
         \/ \E i \in DOMAIN text : DeletesLine(i) \/ \E l \in Inserted : InsertsLine(i, l)
  PROVE  TextInv'
<1>1. text \in Seq(Lines) /\ DOMAIN text = 1..Len(text) /\ Len(text) \in Nat /\ noted \subseteq Ids
  BY LenProperties DEF TextInv
<1>2. ASSUME NEW c \in Ids, DeletesNote(c) PROVE TextInv'
  <2>1. Touches /\ text' \in Seq(Lines) /\ noted' \subseteq Ids
    BY <1>1, <1>2 DEF DeletesNote
  <2>2. QED
    BY <2>1, TouchesKeeps
<1>3. ASSUME NEW i \in DOMAIN text, DeletesLine(i) PROVE TextInv'
  <2>1. RemoveAt(text, i) \in Seq(Lines)
    BY <1>1, RemovedTyped
  <2>2. Touches /\ text' \in Seq(Lines) /\ noted' \subseteq Ids
    BY <1>1, <1>3, <2>1 DEF DeletesLine
  <2>3. QED
    BY <2>2, TouchesKeeps
<1>4. ASSUME NEW i \in DOMAIN text, NEW l \in Inserted, InsertsLine(i, l) PROVE TextInv'
  <2>1. l \in Lines /\ i \in 1..Len(text) + 1
    BY <1>1, BoardTextAssumption
  <2>2. InsertAt(text, i, l) \in Seq(Lines)
    BY <1>1, <2>1, InsertedTyped
  <2>3. Touches /\ text' \in Seq(Lines) /\ noted' \subseteq Ids
    BY <1>1, <1>4, <2>2 DEF InsertsLine
  <2>4. QED
    BY <2>3, TouchesKeeps
<1>5. QED
  BY <1>2, <1>3, <1>4

\* The invariant is inductive.
LEMMA TextInvStep == TextInv /\ [BoardTextNext]_textVars => TextInv'
<1> SUFFICES ASSUME TextInv, [BoardTextNext]_textVars PROVE TextInv'
  OBVIOUS
<1>1. CASE UNCHANGED textVars
  BY <1>1 DEF textVars, TextInv
<1>2. CASE Scaffolds
  BY <1>2, ScaffoldsKeeps
<1>3. ASSUME NEW b, b = Parse(text), Commands(b) PROVE TextInv'
  <2>1. Sound(b, Lines)
    BY <1>3, ParsedIsSound
  <2>2. CASE LintFixes(b)
    BY <1>3, <2>2, LintFixesKeeps
  <2>3. ASSUME NEW c \in Ids, ShelvesCard(b, c) PROVE TextInv'
    BY <2>1, <2>3, ShelvesCardKeeps
  <2>4. ASSUME NEW c \in Ids, FilesNote(c) PROVE TextInv'
    BY <2>4, FilesNoteKeeps
  <2>5. ASSUME NEW c \in Ids, Prioritizes(b, c) PROVE TextInv'
    BY <2>1, <2>5, PrioritizesKeeps
  <2>6. ASSUME NEW c \in Ids, NEW top, FilesCard(b, c, top) PROVE TextInv'
    BY <2>1, <2>6, FilesCardKeeps
  <2>7. ASSUME NEW c \in Ids, NEW to \in ToSet(Active) \cup {"Archive"}, MovesTo(b, c, to) PROVE TextInv'
    BY <2>1, <2>7, MovesToKeeps
  <2>8. ASSUME NEW c \in Ids, NEW to \in ToSet(Active) \cup {"Archive"}, PromotesNote(b, c, to) PROVE TextInv'
    BY <2>1, <2>8, PromotesNoteKeeps
  <2>9. QED
    BY <1>3, <2>2, <2>3, <2>4, <2>5, <2>6, <2>7, <2>8, Zenon DEF Commands
<1>4. CASE \/ \E c \in Ids : DeletesNote(c)
           \/ \E i \in DOMAIN text : DeletesLine(i) \/ \E l \in Inserted : InsertsLine(i, l)
  BY <1>4, EditsKeep
<1>5. QED
  BY <1>1, <1>2, <1>3, <1>4, Zenon DEF BoardTextNext

\* So it holds in every state of every behaviour.
LEMMA TextInvHolds == BoardTextSpec => []TextInv
BY TextInvInit, TextInvStep, PTL DEF BoardTextSpec

-----------------------------------------------------------------------------
(* What the invariant gives: types, and the board read back.               *)

\* A sequence that another one begins with is its prefix.
LEMMA PrefixIs ==
  ASSUME NEW S, NEW s \in Seq(S), NEW t \in Seq(S), Len(s) <= Len(t), \A i \in 1..Len(s) : s[i] = t[i]
  PROVE  IsPrefix(s, t)
<1>1. Len(s) \in Nat /\ Len(t) \in Nat
  BY LenProperties
<1>2. Len(s) \in 0..Len(s) /\ Len(s) \in 0..Len(t)
  BY <1>1
<1>3. /\ SubSeq(s, 1, Len(s)) \in Seq(S) /\ Len(SubSeq(s, 1, Len(s))) = Len(s)
      /\ \A i \in 1..Len(s) : SubSeq(s, 1, Len(s))[i] = s[i]
  BY <1>2, FirstOnes
<1>4. /\ SubSeq(t, 1, Len(s)) \in Seq(S) /\ Len(SubSeq(t, 1, Len(s))) = Len(s)
      /\ \A i \in 1..Len(s) : SubSeq(t, 1, Len(s))[i] = t[i]
  BY <1>2, FirstOnes
<1>5. SubSeq(s, 1, Len(s)) = SubSeq(t, 1, Len(s))
  BY <1>3, <1>4, SeqEqual
<1>6. QED
  BY <1>5 DEF IsPrefix

\* It is one still when something is appended to the other.
LEMMA PrefixGrows ==
  ASSUME NEW S, NEW s \in Seq(S), NEW t \in Seq(S), NEW u \in Seq(S),
         Len(s) <= Len(t), \A i \in 1..Len(s) : s[i] = t[i]
  PROVE  t \o u \in Seq(S) /\ Len(s) <= Len(t \o u) /\ \A i \in 1..Len(s) : s[i] = (t \o u)[i]
<1>1. Len(s) \in Nat /\ Len(t) \in Nat /\ Len(u) \in Nat
  BY LenProperties
<1>2. /\ t \o u \in Seq(S) /\ Len(t \o u) = Len(t) + Len(u)
      /\ \A i \in 1..Len(t) : (t \o u)[i] = t[i]
  BY <1>1, ConcatProperties
<1>3. QED
  BY <1>1, <1>2

\* A text begins with the preamble.
LEMMA PreambleComesFirst ==
  ASSUME NEW D, Writable(D), NEW b, Sound(b, D)
  PROVE  IsPrefix(Trimmed(b.preamble), ToText(b))
<1>1. PICK s \in Seq(D) : s = Trimmed(b.preamble)
  BY TrimmedTyped DEF Sound
<1>2. PICK h \in Seq(D) : h = HeadLines(b)
  BY HeadReads
<1>3. PICK l \in Seq(D) : l = FlattenSeq(LanesLines(b.lanes))
  BY LanesRead DEF Sound
<1>4. PICK a \in Seq(D) : a = TailLines(b)
  BY TailReads
<1>5. PICK e \in Seq(D) : e = Ended(b.trailer)
  BY EndedIs DEF Sound
<1>6. ToText(b) = ((h \o l) \o a) \o e
  BY <1>2, <1>3, <1>4, <1>5, WrittenIs
<1>7. Len(s) <= Len(h) /\ \A i \in 1..Len(s) : s[i] = h[i]
  <2>1. CASE s = <<>>
    <3>1. Len(s) = 0 /\ Len(h) \in Nat /\ 1..0 = {}
      BY <2>1, LenProperties
    <3>2. QED
      BY <3>1
  <2>2. CASE s # <<>>
    <3>1. PICK x \in D : x = Line("blank")
      BY DEF Writable
    <3>2. h = s \o <<x>> /\ <<x>> \in Seq(D)
      BY <1>1, <1>2, <2>2, <3>1 DEF HeadLines
    <3>3. Len(s) <= Len(s)
      BY LenProperties
    <3>4. QED
      BY <3>2, <3>3, PrefixGrows
  <2>3. QED
    BY <2>1, <2>2
<1>8. PICK x : x = h \o l
  OBVIOUS
<1>9. x \in Seq(D) /\ Len(s) <= Len(x) /\ \A i \in 1..Len(s) : s[i] = x[i]
  BY <1>7, <1>8, PrefixGrows
<1>10. PICK y : y = x \o a
  OBVIOUS
<1>11. y \in Seq(D) /\ Len(s) <= Len(y) /\ \A i \in 1..Len(s) : s[i] = y[i]
  BY <1>9, <1>10, PrefixGrows
<1>12. PICK z : z = y \o e
  OBVIOUS
<1>13. z \in Seq(D) /\ Len(s) <= Len(z) /\ \A i \in 1..Len(s) : s[i] = z[i]
  BY <1>11, <1>12, PrefixGrows
<1>14. QED
  BY <1>1, <1>6, <1>8, <1>10, <1>12, <1>13, PrefixIs

\* The invariant gives the types,
LEMMA TypesFollow == TextInv => BoardTextTypeOK
<1> SUFFICES ASSUME TextInv PROVE BoardTextTypeOK
  OBVIOUS
<1>1. ASSUME meant # <<>> PROVE IsPrefix(Trimmed(meant.preamble), text)
  <2>1. Remains(meant, Lines) /\ text = ToText(meant)
    BY <1>1 DEF TextInv
  <2>2. Sound(meant, Lines)
    BY <2>1 DEF Remains
  <2>3. QED
    BY <2>1, <2>2, LinesAreWritable, PreambleComesFirst
<1>2. QED
  BY <1>1 DEF TextInv, BoardTextTypeOK

\* that what was written is read back,
LEMMA MeantIsRead ==
  ASSUME TextInv, meant # <<>>, OnlySettingsFollow(meant)
  PROVE  /\ Sound(meant, Lines) /\ text = ToText(meant)
         /\ Parse(text) = [preamble |-> PreambleRead(meant), lanes |-> meant.lanes,
                           archive |-> meant.archive, archived |-> meant.archived,
                           trailer |-> Ended(meant.trailer)]
<1>1. Remains(meant, Lines) /\ text = ToText(meant)
  BY DEF TextInv
<1>2. Sound(meant, Lines)
  BY <1>1 DEF Remains
<1>3. QED
  BY <1>1, <1>2, LinesAreWritable, WrittenIsRead

\* and that it is what was meant.
LEMMA ReadBackFollows == TextInv => ReadsBack
<1> SUFFICES ASSUME TextInv, meant # <<>>, OnlySettingsFollow(meant), NEW b, b = Parse(text)
             PROVE  /\ b.lanes = meant.lanes /\ b.archive = meant.archive
                    /\ Ended(b.trailer) = Ended(Ended(meant.trailer))
  BY DEF ReadsBack
<1>1. b = [preamble |-> PreambleRead(meant), lanes |-> meant.lanes, archive |-> meant.archive,
           archived |-> meant.archived, trailer |-> Ended(meant.trailer)]
  BY MeantIsRead
<1>2. QED
  BY <1>1

-----------------------------------------------------------------------------
(* What was written, written anew.                                         *)

\* Trimmed is told by the last line that is not blank.
LEMMA TrimmedIsTheOne ==
  ASSUME NEW D, NEW t \in Seq(D), NEW n \in 0..Len(t), n # 0 => t[n].k # "blank",
         \A i \in n + 1..Len(t) : t[i].k = "blank"
  PROVE  Trimmed(t) = SubSeq(t, 1, n)
<1>1. Len(t) \in Nat
  BY LenProperties
<1>2. PICK m \in 0..Len(t) : /\ Trimmed(t) = SubSeq(t, 1, m)
                             /\ m # 0 => t[m].k # "blank"
                             /\ \A i \in m + 1..Len(t) : t[i].k = "blank"
  BY TrimmedIs
<1>3. ~(m < n) /\ ~(n < m)
  BY <1>1, <1>2
<1>4. m = n
  BY <1>1, <1>3
<1>5. QED
  BY <1>2, <1>4

\* One blank line more or less at the end.
LEMMA TrimmedAppend ==
  ASSUME NEW D, NEW t \in Seq(D), NEW x \in D, x.k = "blank"
  PROVE  Trimmed(Append(t, x)) = Trimmed(t)
<1>1. PICK m \in Nat : m = Len(t)
  BY LenProperties
<1>2. PICK n \in 0..Len(t) : /\ Trimmed(t) = SubSeq(t, 1, n)
                             /\ n # 0 => t[n].k # "blank"
                             /\ \A i \in n + 1..Len(t) : t[i].k = "blank"
  BY TrimmedIs
<1>3. PICK u : u = Append(t, x)
  OBVIOUS
<1>4. u \in Seq(D) /\ Len(u) = m + 1 /\ u[m + 1] = x /\ \A i \in 1..m : u[i] = t[i]
  BY <1>1, <1>3, AppendProperties
<1>5. n \in 0..Len(u) /\ (n # 0 => u[n].k # "blank") /\ \A i \in n + 1..Len(u) : u[i].k = "blank"
  <2>1. \A i \in n + 1..m + 1 : (i \in n + 1..m /\ i \in 1..m) \/ i = m + 1
    BY <1>1
  <2>2. n # 0 => n \in 1..m
    BY <1>1
  <2>3. n \in 0..m + 1
    BY <1>1
  <2>4. QED
    BY <1>1, <1>2, <1>4, <2>1, <2>2, <2>3
<1>6. Trimmed(u) = SubSeq(u, 1, n)
  BY <1>4, <1>5, TrimmedIsTheOne
<1>7. /\ SubSeq(t, 1, n) \in Seq(D) /\ Len(SubSeq(t, 1, n)) = n
      /\ \A i \in 1..n : SubSeq(t, 1, n)[i] = t[i]
  BY FirstOnes
<1>8. /\ SubSeq(u, 1, n) \in Seq(D) /\ Len(SubSeq(u, 1, n)) = n
      /\ \A i \in 1..n : SubSeq(u, 1, n)[i] = u[i]
  BY <1>4, <1>5, FirstOnes
<1>9. \A i \in 1..n : t[i] = u[i]
  BY <1>1, <1>4
<1>10. SubSeq(u, 1, n) = SubSeq(t, 1, n)
  BY <1>7, <1>8, <1>9, SeqEqual
<1>11. QED
  BY <1>2, <1>3, <1>6, <1>10

\* A text that is trimmed once is trimmed.
LEMMA TrimmedOfTrimmed ==
  ASSUME NEW D, NEW t \in Seq(D)
  PROVE  Trimmed(Trimmed(t)) = Trimmed(t)
<1>1. PICK n \in 0..Len(t) : Trimmed(t) = SubSeq(t, 1, n) /\ (n # 0 => t[n].k # "blank")
  BY TrimmedIs
<1>2. /\ SubSeq(t, 1, n) \in Seq(D) /\ Len(SubSeq(t, 1, n)) = n
      /\ \A i \in 1..n : SubSeq(t, 1, n)[i] = t[i]
  BY FirstOnes
<1>3. PICK s \in Seq(D) : s = Trimmed(t) /\ Len(s) = n /\ \A i \in 1..n : s[i] = t[i]
  BY <1>1, <1>2
<1>4. n \in Nat /\ n \in 0..Len(s) /\ (n # 0 => s[n].k # "blank") /\ \A i \in n + 1..Len(s) : s[i].k = "blank"
  <2>1. n \in Nat /\ (n # 0 => n \in 1..n) /\ n + 1..n = {}
    BY LenProperties
  <2>2. QED
    BY <1>1, <1>3, <2>1
<1>5. Trimmed(s) = SubSeq(s, 1, n)
  BY <1>3, <1>4, TrimmedIsTheOne
<1>6. /\ SubSeq(s, 1, n) \in Seq(D) /\ Len(SubSeq(s, 1, n)) = n
      /\ \A i \in 1..n : SubSeq(s, 1, n)[i] = s[i]
  BY <1>4, FirstOnes
<1>7. SubSeq(s, 1, n) = s
  BY <1>3, <1>6, SeqEqual
<1>8. QED
  BY <1>3, <1>5, <1>7

\* The head of a text is read and written as it is.
LEMMA HeadIsStable ==
  ASSUME NEW D, Writable(D), NEW b, Sound(b, D), NEW c, c.preamble = HeadLines(b)
  PROVE  HeadLines(c) = HeadLines(b)
<1>1. PICK s \in Seq(D) : s = Trimmed(b.preamble) /\ Trimmed(s) = s
  BY TrimmedTyped, TrimmedOfTrimmed DEF Sound
<1>2. PICK x \in D : x = Line("blank") /\ x.k = "blank"
  BY DEF Writable, Line
<1>3. PICK h : h = HeadLines(b)
  OBVIOUS
<1>4. h = IF s = <<>> THEN <<>> ELSE s \o <<x>>
  BY <1>1, <1>2, <1>3 DEF HeadLines
<1>5. Trimmed(h) = s
  <2>1. CASE s = <<>>
    BY <1>1, <1>4, <2>1
  <2>2. CASE s # <<>>
    <3>1. h = Append(s, x)
      BY <1>4, <2>2, AppendIsConcat
    <3>2. QED
      BY <1>1, <1>2, <3>1, TrimmedAppend
  <2>3. QED
    BY <2>1, <2>2
<1>6. QED
  BY <1>1, <1>2, <1>3, <1>4, <1>5 DEF HeadLines

\* The end of a trailer is added once.
LEMMA EndedOnce ==
  ASSUME NEW D, NEW t \in Seq(D)
  PROVE  Ended(t) \in Seq(D) /\ (Ended(t) = t \/ t = Append(Ended(t), Line("blank")))
<1>1. CASE t = <<>> \/ Last(t) # Line("blank")
  BY <1>1 DEF Ended
<1>2. CASE t # <<>> /\ Last(t) = Line("blank")
  <2>1. PICK n \in Nat : Len(t) = n + 1
    <3>1. Len(t) \in Nat /\ Len(t) >= 1
      BY <1>2, EmptySeq, LenProperties
    <3>2. Len(t) - 1 \in Nat /\ Len(t) = (Len(t) - 1) + 1
      BY <3>1
    <3>3. QED
      BY <3>2
  <2>2. PICK x : x = Line("blank")
    OBVIOUS
  <2>3. x = t[n + 1] /\ x \in D
    <3>1. x = t[Len(t)]
      BY <1>2, <2>2 DEF Last
    <3>2. n + 1 \in 1..Len(t)
      BY <2>1
    <3>3. t[n + 1] \in D
      BY <3>2, ElementOfSeq
    <3>4. QED
      BY <2>1, <3>1, <3>3
  <2>4. Ended(t) = SubSeq(t, 1, n)
    <3>1. Ended(t) = SubSeq(t, 1, Len(t) - 1)
      BY <1>2, Zenon DEF Ended, Front
    <3>2. Len(t) - 1 = n
      BY <2>1
    <3>3. QED
      BY <3>1, <3>2
  <2>5. n \in 0..Len(t)
    BY <2>1
  <2>6. PICK s \in Seq(D) : s = SubSeq(t, 1, n) /\ Len(s) = n /\ \A i \in 1..n : s[i] = t[i]
    BY <2>5, FirstOnes
  <2>7. /\ Append(s, x) \in Seq(D) /\ Len(Append(s, x)) = n + 1
        /\ Append(s, x)[n + 1] = x /\ \A i \in 1..n : Append(s, x)[i] = s[i]
    BY <2>3, <2>6, AppendProperties
  <2>8. \A i \in 1..n + 1 : i \in 1..n \/ i = n + 1
    BY <2>1
  <2>9. \A i \in 1..Len(t) : t[i] = Append(s, x)[i]
    BY <2>1, <2>3, <2>6, <2>7, <2>8
  <2>10. t = Append(s, x)
    BY <2>1, <2>7, <2>9, SeqEqual
  <2>11. QED
    BY <2>2, <2>4, <2>6, <2>10
<1>3. QED
  BY <1>1, <1>2

\* What ends a text does not tell after it is trimmed.
LEMMA EndIsTrimmed ==
  ASSUME NEW D, NEW s \in Seq(D), NEW t \in Seq(D)
  PROVE  Trimmed(s \o Ended(t)) = Trimmed(s \o t)
<1>1. PICK e \in Seq(D) : e = Ended(t) /\ (e = t \/ t = Append(e, Line("blank")))
  BY EndedOnce
<1>2. CASE e = t
  BY <1>1, <1>2
<1>3. CASE t = Append(e, Line("blank"))
  <2>1. PICK x : x = Line("blank") /\ x.k = "blank"
    <3>1. Line("blank").k = "blank"
      BY DEF Line
    <3>2. QED
      BY <3>1, Zenon
  <2>2. x \in D
    <3>1. t = Append(e, x)
      BY <1>3, <2>1
    <3>2. Len(e) \in Nat /\ Len(t) = Len(e) + 1 /\ t[Len(e) + 1] = x
      BY <3>1, LenProperties
    <3>3. Len(e) + 1 \in 1..Len(t)
      BY <3>2
    <3>4. t[Len(e) + 1] \in D
      BY <3>3, ElementOfSeq
    <3>5. QED
      BY <3>2, <3>4
  <2>3. t = e \o <<x>> /\ <<x>> \in Seq(D)
    <3>1. Append(e, x) = e \o <<x>>
      BY <2>2, AppendIsConcat
    <3>2. QED
      BY <1>3, <2>1, <2>2, <3>1, OneLine
  <2>4. (s \o e) \o <<x>> = s \o t
    BY <2>3, ConcatAssociative
  <2>5. PICK u \in Seq(D) : u = s \o e
    BY ConcatProperties
  <2>6. Append(u, x) = u \o <<x>>
    BY <2>2, AppendIsConcat
  <2>7. Trimmed(Append(u, x)) = Trimmed(u)
    BY <2>1, <2>2, TrimmedAppend
  <2>8. QED
    BY <1>1, <2>4, <2>5, <2>6, <2>7
<1>4. QED
  BY <1>1, <1>2, <1>3

-----------------------------------------------------------------------------
(* No two blank lines of the lanes or the archive follow one another.      *)

Neat(s) ==
  /\ s # <<>> => s[1].k # "blank"
  /\ \A i \in 1..Len(s) - 1 : ~(s[i].k = "blank" /\ s[i + 1].k = "blank")

Solid(s) == \A i \in 1..Len(s) : s[i].k # "blank"

\* What holds of 0, and of n + 1 if of n, holds up to any number.
LEMMA UpTo ==
  ASSUME NEW m \in Nat, NEW G, 0 \in G, \A n \in 1..m : n - 1 \in G => n \in G
  PROVE  \A n \in 0..m : n \in G
<1> DEFINE B == {n \in 0..m : n \notin G}
<1>1. ASSUME NEW i \in B, \A j \in B : i <= j PROVE FALSE
  <2>1. i \in 1..m /\ i - 1 \in 0..m /\ ~(i <= i - 1)
    BY <1>1
  <2>2. i - 1 \in G
    BY <1>1, <2>1
  <2>3. QED
    BY <2>1, <2>2
<1>2. B = {}
  <2>1. B \subseteq Nat
    OBVIOUS
  <2> HIDE DEF B
  <2>2. QED
    BY <1>1, <2>1, LeastOfNats
<1>3. QED
  BY <1>2

\* Neat texts joined are neat.
LEMMA NeatJoins ==
  ASSUME NEW D, NEW s \in Seq(D), NEW t \in Seq(D), Neat(s), Neat(t)
  PROVE  s \o t \in Seq(D) /\ Neat(s \o t)
<1>1. PICK m \in Nat, n \in Nat : m = Len(s) /\ n = Len(t)
  BY LenProperties
<1>2. PICK u : u = s \o t
  OBVIOUS
<1>3. /\ u \in Seq(D) /\ Len(u) = m + n
      /\ \A i \in 1..m + n : u[i] = IF i <= m THEN s[i] ELSE t[i - m]
  BY <1>1, <1>2, ConcatProperties
<1>4. (m # 0 => s[1].k # "blank") /\ (n # 0 => t[1].k # "blank")
  BY <1>1, EmptySeq DEF Neat
<1>5. ASSUME u # <<>> PROVE u[1].k # "blank"
  <2>1. m + n # 0
    BY <1>3, <1>5, EmptySeq
  <2>2. CASE m # 0
    <3>1. 1 <= m /\ 1 \in 1..m + n
      BY <2>2
    <3>2. QED
      BY <1>3, <1>4, <2>2, <3>1
  <2>3. CASE m = 0
    <3>1. ~(1 <= m) /\ 1 \in 1..m + n /\ 1 - m = 1 /\ n # 0
      BY <2>1, <2>3
    <3>2. QED
      BY <1>3, <1>4, <3>1
  <2>4. QED
    BY <2>2, <2>3
<1>6. ASSUME NEW i \in 1..m + n - 1 PROVE ~(u[i].k = "blank" /\ u[i + 1].k = "blank")
  <2>1. i \in 1..m + n /\ i + 1 \in 1..m + n
    OBVIOUS
  <2>2. CASE i < m
    <3>1. i \in 1..Len(s) - 1 /\ i <= m /\ i + 1 <= m
      BY <1>1, <2>2
    <3>2. u[i] = s[i] /\ u[i + 1] = s[i + 1]
      BY <1>3, <2>1, <3>1
    <3>3. QED
      BY <3>1, <3>2 DEF Neat
  <2>3. CASE i = m
    <3>1. ~(i + 1 <= m) /\ i + 1 - m = 1 /\ n # 0
      BY <2>3
    <3>2. u[i + 1] = t[1]
      BY <1>3, <2>1, <3>1
    <3>3. QED
      BY <1>4, <3>1, <3>2
  <2>4. CASE i > m
    <3>1. i - m \in 1..Len(t) - 1 /\ ~(i <= m) /\ ~(i + 1 <= m) /\ i + 1 - m = (i - m) + 1
      BY <1>1, <2>4
    <3>2. u[i] = t[i - m]
      BY <1>3, <2>1, <3>1
    <3>3. u[i + 1] = t[i + 1 - m]
      BY <1>3, <2>1, <3>1
    <3>4. QED
      BY <3>1, <3>2, <3>3 DEF Neat
  <2>5. QED
    BY <2>2, <2>3, <2>4
<1>7. QED
  BY <1>2, <1>3, <1>5, <1>6 DEF Neat

\* Solid texts joined are solid,
LEMMA SolidJoins ==
  ASSUME NEW D, NEW s \in Seq(D), NEW t \in Seq(D), Solid(s), Solid(t)
  PROVE  s \o t \in Seq(D) /\ Solid(s \o t)
<1>1. PICK m \in Nat, n \in Nat : m = Len(s) /\ n = Len(t)
  BY LenProperties
<1>2. PICK u : u = s \o t
  OBVIOUS
<1>3. /\ u \in Seq(D) /\ Len(u) = m + n
      /\ \A i \in 1..m + n : u[i] = IF i <= m THEN s[i] ELSE t[i - m]
  BY <1>1, <1>2, ConcatProperties
<1>4. ASSUME NEW i \in 1..m + n PROVE u[i].k # "blank"
  <2>1. i \in 1..m \/ (~(i <= m) /\ i - m \in 1..n)
    OBVIOUS
  <2>2. QED
    BY <1>1, <1>3, <2>1 DEF Solid
<1>5. QED
  BY <1>2, <1>3, <1>4 DEF Solid

\* and neat.
LEMMA SolidIsNeat ==
  ASSUME NEW D, NEW s \in Seq(D), Solid(s)
  PROVE  Neat(s)
<1>1. Len(s) \in Nat /\ (s # <<>> => Len(s) # 0)
  BY EmptySeq, LenProperties
<1>2. s # <<>> => 1 \in 1..Len(s)
  BY <1>1
<1>3. \A i \in 1..Len(s) - 1 : i \in 1..Len(s)
  BY <1>1
<1>4. QED
  BY <1>2, <1>3 DEF Solid, Neat

\* Something, and one blank line.
LEMMA BlankEnds ==
  ASSUME NEW D, NEW s \in Seq(D), Solid(s), s # <<>>, NEW x \in D
  PROVE  s \o <<x>> \in Seq(D) /\ Neat(s \o <<x>>)
<1>1. PICK m \in Nat : m = Len(s) /\ m # 0
  BY EmptySeq, LenProperties
<1>2. PICK u : u = Append(s, x)
  OBVIOUS
<1>3. u \in Seq(D) /\ Len(u) = m + 1 /\ \A i \in 1..m : u[i] = s[i]
  BY <1>1, <1>2, AppendProperties
<1>4. \A i \in 1..(m + 1) - 1 : i \in 1..m
  BY <1>1
<1>5. 1 \in 1..m
  BY <1>1
<1>6. Neat(u)
  BY <1>1, <1>3, <1>4, <1>5 DEF Solid, Neat
<1>7. u = s \o <<x>>
  BY <1>2, AppendIsConcat
<1>8. QED
  BY <1>3, <1>6, <1>7

\* One line that is not blank.
LEMMA OneIsSolid ==
  ASSUME NEW x, x.k # "blank"
  PROVE  Solid(<<x>>) /\ <<x>> # <<>>
<1>1. Len(<<x>>) = 1 /\ <<x>>[1] = x /\ \A i \in 1..1 : i = 1
  OBVIOUS
<1>2. QED
  BY <1>1 DEF Solid

\* The lines of the sequences ss joined.
LEMMA AllSolid ==
  ASSUME NEW D, NEW ss \in Seq(Seq(D)), \A i \in 1..Len(ss) : Solid(ss[i])
  PROVE  FlattenSeq(ss) \in Seq(D) /\ Solid(FlattenSeq(ss))
<1>1. PICK f : /\ Flattens(f, ss) /\ FlattenSeq(ss) = f[Len(ss)]
               /\ \A i \in 0..Len(ss) : f[i] \in Seq(D)
  BY FlattenIs
<1>2. PICK m \in Nat : m = Len(ss)
  BY LenProperties
<1> DEFINE G == {n \in 0..m : Solid(f[n])}
<1>3. 0 \in G
  <2>1. f[0] = <<>>
    BY <1>1 DEF Flattens
  <2>2. Solid(<<>>)
    BY DEF Solid
  <2>3. QED
    BY <2>1, <2>2
<1>4. ASSUME NEW n \in 1..m, n - 1 \in G PROVE n \in G
  <2>1. n - 1 \in 0..m /\ n \in 0..m
    OBVIOUS
  <2>2. f[n] = f[n - 1] \o ss[n]
    BY <1>1, <1>2 DEF Flattens
  <2>3. f[n - 1] \in Seq(D) /\ Solid(f[n - 1]) /\ ss[n] \in Seq(D) /\ Solid(ss[n])
    BY <1>1, <1>2, <1>4, <2>1, ElementOfSeq
  <2>4. Solid(f[n])
    BY <2>2, <2>3, SolidJoins
  <2>5. QED
    BY <2>1, <2>4
<1>5. m \in G
  <2>1. m \in 0..m
    BY <1>2
  <2> HIDE DEF G
  <2>2. \A n \in 0..m : n \in G
    BY <1>3, <1>4, UpTo
  <2>3. QED
    BY <2>1, <2>2
<1>6. m \in 0..m
  BY <1>2
<1>7. QED
  BY <1>1, <1>2, <1>5, <1>6

\* So are the neat ones.
LEMMA AllNeat ==
  ASSUME NEW D, NEW ss \in Seq(Seq(D)), \A i \in 1..Len(ss) : Neat(ss[i])
  PROVE  FlattenSeq(ss) \in Seq(D) /\ Neat(FlattenSeq(ss))
<1>1. PICK f : /\ Flattens(f, ss) /\ FlattenSeq(ss) = f[Len(ss)]
               /\ \A i \in 0..Len(ss) : f[i] \in Seq(D)
  BY FlattenIs
<1>2. PICK m \in Nat : m = Len(ss)
  BY LenProperties
<1> DEFINE G == {n \in 0..m : Neat(f[n])}
<1>3. 0 \in G
  <2>1. f[0] = <<>>
    BY <1>1 DEF Flattens
  <2>2. Neat(<<>>)
    <3>1. <<>> \in Seq(D) /\ Solid(<<>>)
      BY EmptySeq DEF Solid
    <3>2. QED
      BY <3>1, SolidIsNeat
  <2>3. QED
    BY <2>1, <2>2
<1>4. ASSUME NEW n \in 1..m, n - 1 \in G PROVE n \in G
  <2>1. n - 1 \in 0..m /\ n \in 0..m
    OBVIOUS
  <2>2. f[n] = f[n - 1] \o ss[n]
    BY <1>1, <1>2 DEF Flattens
  <2>3. f[n - 1] \in Seq(D) /\ Neat(f[n - 1]) /\ ss[n] \in Seq(D) /\ Neat(ss[n])
    BY <1>1, <1>2, <1>4, <2>1, ElementOfSeq
  <2>4. Neat(f[n])
    BY <2>2, <2>3, NeatJoins
  <2>5. QED
    BY <2>1, <2>4
<1>5. m \in G
  <2>1. m \in 0..m
    BY <1>2
  <2> HIDE DEF G
  <2>2. \A n \in 0..m : n \in G
    BY <1>3, <1>4, UpTo
  <2>3. QED
    BY <2>1, <2>2
<1>6. m \in 0..m
  BY <1>2
<1>7. QED
  BY <1>1, <1>2, <1>5, <1>6

\* The lines of cards have no blank one.
LEMMA BlocksAreSolid ==
  ASSUME NEW D, Writable(D), NEW cards \in Seq(BoardCard), cards # <<>>
  PROVE  /\ FlattenSeq(BlocksOf(cards)) \in Seq(D) /\ FlattenSeq(BlocksOf(cards)) # <<>>
         /\ Solid(FlattenSeq(BlocksOf(cards)))
<1>1. /\ BlocksOf(cards) \in Seq(Seq(D)) /\ Len(BlocksOf(cards)) = Len(cards)
      /\ \A i \in 1..Len(cards) : BlocksOf(cards)[i] = Block(cards[i])
  BY BlocksAre
<1>2. ASSUME NEW i \in 1..Len(cards) PROVE Solid(Block(cards[i]))
  <2>1. PICK card \in BoardCard : card = cards[i]
    BY ElementOfSeq
  <2>2. /\ Block(card) \in Seq(D) /\ Len(Block(card)) = card.more + 1
        /\ Block(card)[1] = Item(card.id, card.ticked)
        /\ \A j \in 2..card.more + 1 : Block(card)[j] = Line("more")
    BY BlockIs
  <2>3. card.more \in Nat
    BY DEF BoardCard
  <2>4. Item(card.id, card.ticked).k # "blank" /\ Line("more").k # "blank"
    BY DEF Item, Line
  <2>5. \A j \in 1..card.more + 1 : j = 1 \/ j \in 2..card.more + 1
    BY <2>3
  <2>6. Solid(Block(card))
    BY <2>2, <2>4, <2>5 DEF Solid
  <2>7. QED
    BY <2>1, <2>6
<1>3. Solid(FlattenSeq(BlocksOf(cards)))
  BY <1>1, <1>2, AllSolid
<1>4. FlattenSeq(BlocksOf(cards)) # <<>>
  <2>1. PICK R : R = InArchive(<<>>, <<>>)
    OBVIOUS
  <2>2. Files(R)
    BY <2>1, ArchiveFiles
  <2>3. ASSUME NEW c \in Seq(BoardCard), NEW o \in BOOLEAN PROVE R[c, o].archive = c
    BY <2>1 DEF InArchive, Reading
  <2>4. Leads(R[<<>>, FALSE], FlattenSeq(BlocksOf(cards)), R[cards, TRUE])
    BY <2>2, BlocksRead
  <2>5. <<>> \in Seq(BoardCard)
    BY EmptySeq
  <2>6. R[<<>>, FALSE].archive = <<>> /\ R[cards, TRUE].archive = cards
    BY <2>3, <2>5, Zenon
  <2>7. R[<<>>, FALSE] # R[cards, TRUE]
    BY <2>6, Zenon
  <2>8. QED
    BY <2>4, <2>7, LeadsSomewhere, Zenon
<1>5. QED
  BY <1>1, <1>2, <1>3, <1>4, AllSolid

\* Three parts of a text, joined in either order.
Regroups(x, y, z) == (x \o y) \o z = x \o (y \o z)

\* The lines of a lane are neat,
LEMMA LaneIsNeat ==
  ASSUME NEW D, Writable(D), NEW title \in ToSet(Active) \cup {Icebox, "Archive"},
         NEW limit \in {0, 3}, NEW cards \in Seq(BoardCard)
  PROVE  /\ LaneLines(LaneWith(title, limit, cards)) \in Seq(D)
         /\ Neat(LaneLines(LaneWith(title, limit, cards)))
<1>0. \A p, q, r \in Seq(D) : Regroups(p, q, r)
  BY ConcatAssociative DEF Regroups
<1>1. PICK x \in D, y \in D : x = Heading(title, limit) /\ y = Line("blank")
  BY DEF Writable
<1>2. x.k # "blank"
  BY <1>1 DEF Heading
<1>3. PICK h \in Seq(D), b \in Seq(D) : h = <<x>> /\ b = <<y>>
  BY OneLine
<1>4. h # <<>> /\ Solid(h)
  BY <1>2, <1>3, OneIsSolid
<1>5. h \o b \in Seq(D) /\ Neat(h \o b)
  BY <1>3, <1>4, BlankEnds
<1>6. LaneLines(LaneWith(title, limit, cards)) = (h \o CardLines(cards)) \o b
  BY <1>1, <1>3 DEF LaneLines, LaneWith
<1>7. CASE cards = <<>>
  <2>1. h \o CardLines(cards) = h
    BY <1>7, ConcatEmptySeq DEF CardLines
  <2>2. QED
    BY <1>5, <1>6, <2>1
<1>8. CASE cards # <<>>
  <2>1. PICK s \in Seq(D) : s = FlattenSeq(BlocksOf(cards)) /\ s # <<>> /\ Solid(s)
    BY <1>8, BlocksAreSolid
  <2>2. CardLines(cards) = b \o s
    BY <1>1, <1>3, <1>8, <2>1 DEF CardLines, BlocksOf
  <2>3. PICK u \in Seq(D) : u = s \o b /\ Neat(u)
    BY <1>3, <2>1, BlankEnds
  <2>4. b \o s \in Seq(D)
    BY ConcatProperties
  <2>5. (h \o (b \o s)) \o b = ((h \o b) \o s) \o b
    <3>1. Regroups(h, b, s)
      BY <1>0
    <3>2. QED
      BY <3>1 DEF Regroups
  <2>6. ((h \o b) \o s) \o b = (h \o b) \o (s \o b)
    <3>1. PICK v \in Seq(D) : v = h \o b
      BY <1>5
    <3>2. Regroups(v, s, b)
      BY <1>0
    <3>3. QED
      BY <3>1, <3>2 DEF Regroups
  <2>7. (h \o b) \o u \in Seq(D) /\ Neat((h \o b) \o u)
    BY <1>5, <2>3, NeatJoins
  <2>8. QED
    BY <1>6, <2>2, <2>3, <2>5, <2>6, <2>7
<1>9. QED
  BY <1>7, <1>8

\* so are those of lanes,
LEMMA LanesAreNeat ==
  ASSUME NEW D, Writable(D), NEW lanes \in Seq(BoardLane)
  PROVE  FlattenSeq(LanesLines(lanes)) \in Seq(D) /\ Neat(FlattenSeq(LanesLines(lanes)))
<1>1. /\ LanesLines(lanes) \in Seq(Seq(D)) /\ Len(LanesLines(lanes)) = Len(lanes)
      /\ \A i \in 1..Len(lanes) : LanesLines(lanes)[i] = LaneLines(lanes[i])
  BY LanesLinesAre
<1>2. ASSUME NEW i \in 1..Len(lanes) PROVE Neat(LaneLines(lanes[i]))
  <2>1. PICK lane \in BoardLane : lane = lanes[i]
    BY ElementOfSeq
  <2>2. /\ lane = LaneWith(lane.title, lane.limit, lane.cards)
        /\ lane.title \in ToSet(Active) \cup {Icebox, "Archive"} /\ lane.limit \in {0, 3}
        /\ lane.cards \in Seq(BoardCard)
    BY LaneIs
  <2>3. Neat(LaneLines(LaneWith(lane.title, lane.limit, lane.cards)))
    BY <2>2, LaneIsNeat
  <2>4. QED
    BY <2>1, <2>2, <2>3
<1>3. QED
  BY <1>1, <1>2, AllNeat

\* and of the archive.
LEMMA TailIsNeat ==
  ASSUME NEW D, Writable(D), NEW b, Sound(b, D)
  PROVE  TailLines(b) \in Seq(D) /\ Neat(TailLines(b))
<1>1. CASE b.archived
  <2>1. PICK cards \in Seq(BoardCard) : cards = b.archive
    BY DEF Sound
  <2>2. PICK x \in D, y \in D : x = Line("rule") /\ y = Line("blank")
    BY DEF Writable
  <2>3. x.k # "blank"
    BY <2>2 DEF Line
  <2>4. PICK h \in Seq(D) : h = <<x>> /\ h # <<>> /\ Solid(h)
    BY <2>3, OneLine, OneIsSolid
  <2>5. h \o <<y>> \in Seq(D) /\ Neat(h \o <<y>>)
    BY <2>2, <2>4, BlankEnds
  <2>6. RuleLines \in Seq(D) /\ Neat(RuleLines)
    BY <2>2, <2>4, <2>5 DEF RuleLines
  <2>7. PICK a : a = LaneLines(LaneWith("Archive", 0, cards))
    OBVIOUS
  <2>8. a \in Seq(D) /\ Neat(a)
    BY <2>7, LaneIsNeat
  <2>9. RuleLines \o a \in Seq(D) /\ Neat(RuleLines \o a)
    BY <2>6, <2>8, NeatJoins
  <2>10. QED
    BY <1>1, <2>1, <2>7, <2>9 DEF TailLines, ArchiveLines
<1>2. CASE ~b.archived
  <2>1. <<>> \in Seq(D) /\ Solid(<<>>)
    BY EmptySeq DEF Solid
  <2>2. QED
    BY <1>2, <2>1, SolidIsNeat DEF TailLines
<1>3. QED
  BY <1>1, <1>2

\* In a text whose middle is neat, no two blank lines of it follow one another.
LEMMA NotTwice ==
  ASSUME NEW D, NEW h \in Seq(D), NEW u \in Seq(D), Neat(u), NEW e \in Seq(D),
         NEW i \in Len(h) + 1..(Len((h \o u) \o e) - Len(e)) - 1
  PROVE  ~(((h \o u) \o e)[i].k = "blank" /\ ((h \o u) \o e)[i + 1].k = "blank")
<1>1. PICK m \in Nat, n \in Nat, q \in Nat : m = Len(h) /\ n = Len(u) /\ q = Len(e)
  BY LenProperties
<1>2. PICK v \in Seq(D) : v = h \o u
  BY ConcatProperties
<1>3. Len(v) = m + n /\ \A j \in 1..m + n : v[j] = IF j <= m THEN h[j] ELSE u[j - m]
  BY <1>1, <1>2, ConcatProperties
<1>4. PICK w \in Seq(D) : w = v \o e
  BY ConcatProperties
<1>5. PICK k \in Nat : k = m + n /\ Len(v) = k
  BY <1>3
<1>6. Len(w) = k + q /\ \A j \in 1..k + q : w[j] = IF j <= k THEN v[j] ELSE e[j - k]
  <2>1. /\ Len(v \o e) = Len(v) + Len(e)
        /\ \A j \in 1..Len(v) + Len(e) : (v \o e)[j] = IF j <= Len(v) THEN v[j] ELSE e[j - Len(v)]
    BY ConcatProperties
  <2>2. QED
    BY <1>1, <1>4, <1>5, <2>1, Zenon
<1>7. w = (h \o u) \o e
  BY <1>2, <1>4
<1>8. i \in m + 1..(Len(w) - q) - 1
  BY <1>1, <1>7, Zenon
<1>9. /\ i \in 1..k + q /\ i + 1 \in 1..k + q
      /\ i \in 1..m + n /\ i + 1 \in 1..m + n /\ ~(i <= m) /\ ~(i + 1 <= m)
      /\ i <= k /\ i + 1 <= k
      /\ i - m \in 1..n - 1 /\ (i + 1) - m = (i - m) + 1
  BY <1>1, <1>5, <1>6, <1>8
<1>10. w[i] = u[i - m] /\ w[i + 1] = u[(i - m) + 1]
  BY <1>3, <1>6, <1>9
<1>11. QED
  BY <1>1, <1>7, <1>9, <1>10 DEF Neat

\* Written anew, a board that was written stays as it is.
LEMMA StableFollows == TextInv => RewriteIsStable
<1> SUFFICES ASSUME TextInv, meant # <<>>, meant.lanes # <<>>, OnlySettingsFollow(meant),
                    NEW b, b = Parse(text)
             PROVE  /\ Trimmed(ToText(b)) = Trimmed(text)
                    /\ \A i \in Len(b.preamble) + 1..Len(text) - Len(b.trailer) - 1 :
                         ~(text[i] = Line("blank") /\ text[i + 1] = Line("blank"))
  BY DEF RewriteIsStable
<1> DEFINE D == Lines
<1>0. \A p, q, r \in Seq(D) : Regroups(p, q, r)
  BY ConcatAssociative DEF Regroups
<1>1. /\ Sound(meant, D) /\ text = ToText(meant)
      /\ b = [preamble |-> PreambleRead(meant), lanes |-> meant.lanes, archive |-> meant.archive,
              archived |-> meant.archived, trailer |-> Ended(meant.trailer)]
  BY MeantIsRead
<1>2. Writable(D)
  BY LinesAreWritable
<1>3. Sound(b, D)
  BY ParsedIsSound
<1> HIDE DEF D
<1>4. /\ b.preamble = HeadLines(meant) /\ b.lanes = meant.lanes /\ b.archive = meant.archive
      /\ b.archived = meant.archived /\ b.trailer = Ended(meant.trailer)
  BY <1>1 DEF PreambleRead, BeforeArchive
<1>5. HeadLines(b) = HeadLines(meant) /\ TailLines(b) = TailLines(meant)
  BY <1>1, <1>2, <1>4, HeadIsStable DEF TailLines
<1>6. PICK h \in Seq(D) : h = HeadLines(meant)
  BY <1>1, <1>2, HeadReads
<1>7. PICK l \in Seq(D) : l = FlattenSeq(LanesLines(meant.lanes)) /\ Neat(l)
  BY <1>1, <1>2, LanesAreNeat DEF Sound
<1>8. PICK a \in Seq(D) : a = TailLines(meant) /\ Neat(a)
  BY <1>1, <1>2, TailIsNeat
<1>9. PICK e \in Seq(D) : e = Ended(meant.trailer)
  BY <1>1, EndedIs DEF Sound
<1>10. PICK s \in Seq(D) : s = (h \o l) \o a
  <2>1. h \o l \in Seq(D)
    BY ConcatProperties
  <2>2. QED
    BY <2>1, ConcatProperties
<1>11. text = s \o e
  BY <1>1, <1>6, <1>7, <1>8, <1>9, <1>10, WrittenIs
<1>12. ToText(b) = s \o Ended(e)
  BY <1>3, <1>4, <1>5, <1>6, <1>7, <1>8, <1>9, <1>10, WrittenIs
<1>13. Trimmed(ToText(b)) = Trimmed(text)
  BY <1>11, <1>12, EndIsTrimmed
<1>14. PICK u \in Seq(D) : u = l \o a /\ Neat(u)
  BY <1>7, <1>8, NeatJoins
<1>15. text = (h \o u) \o e
  <2>1. Regroups(h, l, a)
    BY <1>0
  <2>2. (h \o l) \o a = h \o (l \o a)
    BY <2>1 DEF Regroups
  <2>3. QED
    BY <1>10, <1>11, <1>14, <2>2
<1>16. ASSUME NEW i \in Len(b.preamble) + 1..Len(text) - Len(b.trailer) - 1
       PROVE  ~(text[i] = Line("blank") /\ text[i + 1] = Line("blank"))
  <2>1. i \in Len(h) + 1..(Len((h \o u) \o e) - Len(e)) - 1
    BY <1>4, <1>6, <1>9, <1>15, <1>16, Zenon
  <2>2. ~(text[i].k = "blank" /\ text[i + 1].k = "blank")
    BY <1>14, <1>15, <2>1, NotTwice, Zenon
  <2>3. Line("blank").k = "blank"
    BY DEF Line
  <2>4. QED
    BY <2>2, <2>3, Zenon
<1>17. QED
  BY <1>13, <1>16

-----------------------------------------------------------------------------
(* How often a card is among others.                                       *)

Twice(cards, c) == \E i, j \in DOMAIN cards : i # j /\ cards[i].id = c /\ cards[j].id = c

\* A card among the ones of s or t, and twice.
LEMMA JoinedCards ==
  ASSUME NEW S, NEW s \in Seq(S), NEW t \in Seq(S), NEW c
  PROVE  /\ s \o t \in Seq(S)
         /\ Has(s \o t, c) <=> Has(s, c) \/ Has(t, c)
         /\ Twice(s \o t, c) <=> Twice(s, c) \/ Twice(t, c) \/ (Has(s, c) /\ Has(t, c))
<1>1. PICK m \in Nat, n \in Nat : m = Len(s) /\ n = Len(t) /\ DOMAIN s = 1..m /\ DOMAIN t = 1..n
  BY LenProperties
<1>2. PICK u : u = s \o t
  OBVIOUS
<1>3. /\ u \in Seq(S) /\ Len(u) = m + n
      /\ \A i \in 1..m + n : u[i] = IF i <= m THEN s[i] ELSE t[i - m]
  BY <1>1, <1>2, ConcatProperties
<1>4. DOMAIN u = 1..m + n
  BY <1>3, LenProperties
<1>5. \A i \in 1..m : i \in 1..m + n /\ u[i] = s[i]
  BY <1>3
<1>6. \A i \in 1..n : m + i \in 1..m + n /\ u[m + i] = t[i]
  <2>1. \A i \in 1..n : m + i \in 1..m + n /\ ~(m + i <= m) /\ m + i - m = i
    OBVIOUS
  <2>2. QED
    BY <1>3, <2>1
<1>7. \A i \in 1..m + n : i \in 1..m \/ \E j \in 1..n : i = m + j
  <2>1. ASSUME NEW i \in 1..m + n, i \notin 1..m PROVE i - m \in 1..n /\ i = m + (i - m)
    BY <2>1
  <2>2. QED
    BY <2>1
<1>8. Has(u, c) <=> Has(s, c) \/ Has(t, c)
  <2>1. ASSUME NEW i \in 1..m + n, u[i].id = c PROVE Has(s, c) \/ Has(t, c)
    <3>1. CASE i \in 1..m
      BY <1>1, <1>5, <2>1, <3>1 DEF Has
    <3>2. CASE i \notin 1..m
      <4>1. PICK j \in 1..n : i = m + j
        BY <1>7, <3>2
      <4>2. t[j].id = c
        BY <1>6, <2>1, <4>1
      <4>3. QED
        BY <1>1, <4>2 DEF Has
    <3>3. QED
      BY <3>1, <3>2
  <2>2. Has(s, c) => Has(u, c)
    BY <1>1, <1>4, <1>5 DEF Has
  <2>3. Has(t, c) => Has(u, c)
    BY <1>1, <1>4, <1>6 DEF Has
  <2>4. QED
    BY <1>4, <2>1, <2>2, <2>3 DEF Has
<1>9. Twice(s, c) => Twice(u, c)
  BY <1>1, <1>4, <1>5 DEF Twice
<1>10. Twice(t, c) => Twice(u, c)
  <2> SUFFICES ASSUME NEW i \in 1..n, NEW j \in 1..n, i # j, t[i].id = c, t[j].id = c PROVE Twice(u, c)
    BY <1>1 DEF Twice
  <2>1. m + i # m + j /\ m + i \in 1..m + n /\ m + j \in 1..m + n
    OBVIOUS
  <2>2. u[m + i].id = c /\ u[m + j].id = c
    BY <1>6
  <2>3. QED
    BY <1>4, <2>1, <2>2 DEF Twice
<1>11. Has(s, c) /\ Has(t, c) => Twice(u, c)
  <2> SUFFICES ASSUME NEW i \in 1..m, s[i].id = c, NEW j \in 1..n, t[j].id = c PROVE Twice(u, c)
    BY <1>1 DEF Has
  <2>1. i # m + j /\ m + j \in 1..m + n
    OBVIOUS
  <2>2. QED
    BY <1>4, <1>5, <1>6, <2>1 DEF Twice
<1>12. Twice(u, c) => Twice(s, c) \/ Twice(t, c) \/ (Has(s, c) /\ Has(t, c))
  <2> SUFFICES ASSUME NEW i \in 1..m + n, NEW j \in 1..m + n, i # j, u[i].id = c, u[j].id = c
               PROVE  Twice(s, c) \/ Twice(t, c) \/ (Has(s, c) /\ Has(t, c))
    BY <1>4 DEF Twice
  <2>0. ASSUME NEW x \in 1..m + n, u[x].id = c PROVE IF x \in 1..m THEN Has(s, c) ELSE Has(t, c)
    <3>1. CASE x \in 1..m
      BY <1>1, <1>5, <2>0, <3>1 DEF Has
    <3>2. CASE x \notin 1..m
      <4>1. PICK y \in 1..n : x = m + y
        BY <1>7, <3>2
      <4>2. t[y].id = c
        BY <1>6, <2>0, <4>1
      <4>3. QED
        BY <1>1, <3>2, <4>2 DEF Has
    <3>3. QED
      BY <3>1, <3>2
  <2>1. CASE i \in 1..m /\ j \in 1..m
    BY <1>1, <1>5, <2>1 DEF Twice
  <2>2. CASE i \in 1..m /\ j \notin 1..m
    BY <2>0, <2>2
  <2>3. CASE i \notin 1..m /\ j \in 1..m
    BY <2>0, <2>3
  <2>4. CASE i \notin 1..m /\ j \notin 1..m
    <3>1. PICK v \in 1..n, w \in 1..n : i = m + v /\ j = m + w
      BY <1>7, <2>4
    <3>2. v # w /\ t[v].id = c /\ t[w].id = c
      BY <1>6, <3>1
    <3>3. QED
      BY <1>1, <3>2 DEF Twice
  <2>5. QED
    BY <2>1, <2>2, <2>3, <2>4
<1>13. QED
  BY <1>2, <1>3, <1>8, <1>9, <1>10, <1>11, <1>12

HasSome(ss, n, c) == \E i \in 1..n : Has(ss[i], c)
TwiceSome(ss, n, c) ==
  \/ \E i \in 1..n : Twice(ss[i], c)
  \/ \E i, j \in 1..n : i # j /\ Has(ss[i], c) /\ Has(ss[j], c)

\* One more sequence of cards.
LEMMA OneMore ==
  ASSUME NEW ss, NEW n \in Nat, n # 0, NEW c
  PROVE  /\ HasSome(ss, n, c) <=> HasSome(ss, n - 1, c) \/ Has(ss[n], c)
         /\ TwiceSome(ss, n, c) <=> TwiceSome(ss, n - 1, c) \/ Twice(ss[n], c) \/ (HasSome(ss, n - 1, c) /\ Has(ss[n], c))
<1>1. /\ n \in 1..n /\ n \notin 1..n - 1 /\ (\A i \in 1..n - 1 : i \in 1..n)
      /\ (\A i \in 1..n : i \in 1..n - 1 \/ i = n)
  OBVIOUS
<1>2. HasSome(ss, n, c) <=> HasSome(ss, n - 1, c) \/ Has(ss[n], c)
  BY <1>1, Zenon DEF HasSome
<1>3. TwiceSome(ss, n - 1, c) => TwiceSome(ss, n, c)
  BY <1>1, Zenon DEF TwiceSome
<1>4. Twice(ss[n], c) => TwiceSome(ss, n, c)
  BY <1>1, Zenon DEF TwiceSome
<1>5. HasSome(ss, n - 1, c) /\ Has(ss[n], c) => TwiceSome(ss, n, c)
  BY <1>1, Zenon DEF TwiceSome, HasSome
<1>6. TwiceSome(ss, n, c) => TwiceSome(ss, n - 1, c) \/ Twice(ss[n], c) \/ (HasSome(ss, n - 1, c) /\ Has(ss[n], c))
  BY <1>1, ZenonT(60) DEF TwiceSome, HasSome
<1>7. QED
  BY <1>2, <1>3, <1>4, <1>5, <1>6, Zenon

\* A card among those of several sequences, and twice.
LEMMA FlattenedCards ==
  ASSUME NEW S, NEW ss \in Seq(Seq(S)), NEW c
  PROVE  /\ FlattenSeq(ss) \in Seq(S)
         /\ Has(FlattenSeq(ss), c) <=> HasSome(ss, Len(ss), c)
         /\ Twice(FlattenSeq(ss), c) <=> TwiceSome(ss, Len(ss), c)
<1>1. PICK f : /\ Flattens(f, ss) /\ FlattenSeq(ss) = f[Len(ss)]
               /\ \A i \in 0..Len(ss) : f[i] \in Seq(S)
  BY FlattenIs
<1>2. PICK m \in Nat : m = Len(ss)
  BY LenProperties
<1> DEFINE G == {n \in 0..m : /\ Has(f[n], c) <=> HasSome(ss, n, c)
                              /\ Twice(f[n], c) <=> TwiceSome(ss, n, c)}
<1>3. 0 \in G
  <2>1. f[0] = <<>>
    BY <1>1 DEF Flattens
  <2>2. ~Has(<<>>, c) /\ ~Twice(<<>>, c)
    BY DEF Has, Twice
  <2>3. 1..0 = {} /\ 0 \in 0..m
    BY <1>2
  <2>4. ~HasSome(ss, 0, c) /\ ~TwiceSome(ss, 0, c)
    BY <2>3 DEF HasSome, TwiceSome
  <2>5. QED
    BY <2>1, <2>2, <2>3, <2>4, Zenon
<1>4. ASSUME NEW n \in 1..m, n - 1 \in G PROVE n \in G
  <2>1. n - 1 \in 0..m /\ n \in 0..m /\ n \in Nat /\ n # 0
    OBVIOUS
  <2>2. f[n] = f[n - 1] \o ss[n]
    BY <1>1, <1>2 DEF Flattens
  <2>3. PICK s \in Seq(S), u \in Seq(S) : s = f[n - 1] /\ u = ss[n]
    BY <1>1, <1>2, <2>1, ElementOfSeq
  <2>4. /\ Has(s \o u, c) <=> Has(s, c) \/ Has(u, c)
        /\ Twice(s \o u, c) <=> Twice(s, c) \/ Twice(u, c) \/ (Has(s, c) /\ Has(u, c))
    BY JoinedCards
  <2>5. /\ Has(s, c) <=> HasSome(ss, n - 1, c)
        /\ Twice(s, c) <=> TwiceSome(ss, n - 1, c)
    BY <1>4, <2>3
  <2>6. /\ HasSome(ss, n, c) <=> HasSome(ss, n - 1, c) \/ Has(u, c)
        /\ TwiceSome(ss, n, c) <=> TwiceSome(ss, n - 1, c) \/ Twice(u, c) \/ (HasSome(ss, n - 1, c) /\ Has(u, c))
    BY <2>1, <2>3, OneMore
  <2>7. f[n] = s \o u
    BY <2>2, <2>3
  <2>8. /\ Has(f[n], c) <=> HasSome(ss, n, c)
        /\ Twice(f[n], c) <=> TwiceSome(ss, n, c)
    BY <2>4, <2>5, <2>6, <2>7, Zenon
  <2>9. QED
    BY <2>1, <2>8, Zenon
<1>5. m \in G
  <2>1. m \in 0..m
    BY <1>2
  <2> HIDE DEF G
  <2>2. \A n \in 0..m : n \in G
    BY <1>3, <1>4, UpTo
  <2>3. QED
    BY <2>1, <2>2
<1>6. FlattenSeq(ss) = f[m] /\ f[m] \in Seq(S)
  <2>1. m \in 0..m
    BY <1>2
  <2>2. QED
    BY <1>1, <1>2, <2>1
<1>7. QED
  BY <1>2, <1>5, <1>6, Zenon

\* How many times a card is there, in numbers.
LEMMA HowMany ==
  ASSUME NEW S, NEW s \in Seq(S), NEW c
  PROVE  /\ Cardinality({i \in DOMAIN s : s[i].id = c}) \in Nat
         /\ ~Has(s, c) => Cardinality({i \in DOMAIN s : s[i].id = c}) = 0
         /\ Has(s, c) /\ ~Twice(s, c) => Cardinality({i \in DOMAIN s : s[i].id = c}) = 1
         /\ Twice(s, c) => Cardinality({i \in DOMAIN s : s[i].id = c}) > 1
<1> DEFINE K == {i \in DOMAIN s : s[i].id = c}
<1>1. IsFiniteSet(K) /\ Cardinality(K) \in Nat
  <2>1. PICK m \in Nat : DOMAIN s = 1..m
    BY LenProperties
  <2>2. IsFiniteSet(1..m)
    BY FS_Interval
  <2>3. K \in SUBSET (1..m)
    BY <2>1
  <2>4. QED
    BY <2>2, <2>3, FS_Subset, FS_CardinalityType
<1>2. ASSUME ~Has(s, c) PROVE Cardinality(K) = 0
  <2>1. K = {}
    BY <1>2 DEF Has
  <2>2. QED
    BY <2>1, FS_EmptySet
<1>3. ASSUME Has(s, c), ~Twice(s, c) PROVE Cardinality(K) = 1
  <2>1. PICK i \in K : TRUE
    BY <1>3 DEF Has
  <2>2. K = {i}
    BY <1>3, <2>1 DEF Twice
  <2>3. QED
    BY <2>2, FS_Singleton
<1>4. ASSUME Twice(s, c) PROVE Cardinality(K) > 1
  <2>1. PICK i \in K : \E j \in K : i # j
    BY <1>4 DEF Twice
  <2>2. PICK j \in K : i # j
    BY <2>1
  <2> HIDE DEF K
  <2>3. PICK A : A = {i}
    OBVIOUS
  <2>4. IsFiniteSet(A) /\ Cardinality(A) = 1
    BY <2>3, FS_Singleton
  <2>5. j \notin A
    BY <2>2, <2>3
  <2>6. PICK D : D = A \cup {j}
    OBVIOUS
  <2>7. Cardinality(D) = Cardinality(A) + 1
    BY <2>4, <2>5, <2>6, FS_AddElement
  <2>8. Cardinality(D) = 2
    BY <2>4, <2>7
  <2>9. D \in SUBSET K
    BY <2>3, <2>6
  <2>10. Cardinality(D) <= Cardinality(K)
    BY <1>1, <2>9, FS_Subset
  <2>11. PICK k \in Nat : k = Cardinality(K)
    BY <1>1
  <2>12. 2 <= k
    BY <2>8, <2>10, <2>11
  <2>13. k > 1
    BY <2>12
  <2>14. QED
    BY <2>11, <2>13
<1>5. QED
  BY <1>1, <1>2, <1>3, <1>4

\* The cards of each lane, and of the first lane of each status.
CardsOf(b) == [n \in DOMAIN b.lanes |-> b.lanes[n].cards]
ListedOf(b) ==
  [n \in DOMAIN Active |->
    IF LaneTitled(b, Active[n]) = 0 THEN <<>> ELSE b.lanes[LaneTitled(b, Active[n])].cards]
Holds(b, c) == (\E n \in 1..Len(b.lanes) : Has(b.lanes[n].cards, c)) \/ Has(b.archive, c)

\* The cards of lanes are sequences of cards.
LEMMA CardsOfAre ==
  ASSUME NEW b, b.lanes \in Seq(BoardLane)
  PROVE  /\ CardsOf(b) \in Seq(Seq(BoardCard)) /\ Len(CardsOf(b)) = Len(b.lanes)
         /\ \A n \in 1..Len(b.lanes) : CardsOf(b)[n] = b.lanes[n].cards
<1>1. PICK m \in Nat : Len(b.lanes) = m /\ DOMAIN b.lanes = 1..m
  BY LenProperties
<1>2. CardsOf(b) = [n \in 1..m |-> b.lanes[n].cards]
  BY <1>1 DEF CardsOf
<1>3. ASSUME NEW n \in 1..m PROVE b.lanes[n].cards \in Seq(BoardCard)
  <2>1. b.lanes[n] \in BoardLane
    BY <1>1, ElementOfSeq
  <2>2. QED
    BY <2>1 DEF BoardLane
<1>4. CardsOf(b) \in Seq(Seq(BoardCard))
  BY <1>2, <1>3
<1>5. Len(CardsOf(b)) = m
  BY <1>2, <1>4, LenProperties
<1>6. QED
  BY <1>1, <1>2, <1>4, <1>5

\* Every status has a lane,
Laned(b) == \A u \in ToSet(Active) : LaneTitled(b, u) # 0
\* and one only; and no card is in a lane of no status.
LanedOnce(b) ==
  /\ \A i, j \in 1..Len(b.lanes) :
       b.lanes[i].title = b.lanes[j].title /\ b.lanes[i].title \in ToSet(Active) => i = j
  /\ \A i \in 1..Len(b.lanes) : b.lanes[i].title \notin ToSet(Active) => b.lanes[i].cards = <<>>

\* So are those of the lanes that are listed, one of each status.
LEMMA ListedOfAre ==
  ASSUME NEW b, b.lanes \in Seq(BoardLane), Laned(b)
  PROVE  /\ ListedOf(b) \in Seq(Seq(BoardCard)) /\ Len(ListedOf(b)) = Len(Active)
         /\ \A n \in 1..Len(Active) :
              /\ LaneTitled(b, Active[n]) \in 1..Len(b.lanes)
              /\ b.lanes[LaneTitled(b, Active[n])].title = Active[n]
              /\ Active[n] \in ToSet(Active)
              /\ ListedOf(b)[n] = b.lanes[LaneTitled(b, Active[n])].cards
<1>1. PICK m \in Nat : Len(Active) = m /\ DOMAIN Active = 1..m
  BY BoardTextAssumption, LenProperties
<1>2. ASSUME NEW n \in 1..m
      PROVE  /\ LaneTitled(b, Active[n]) \in 1..Len(b.lanes)
             /\ b.lanes[LaneTitled(b, Active[n])].title = Active[n]
             /\ Active[n] \in ToSet(Active) /\ LaneTitled(b, Active[n]) # 0
  <2>1. Active[n] \in ToSet(Active)
    BY <1>1 DEF ToSet
  <2>2. LaneTitled(b, Active[n]) # 0
    BY <2>1 DEF Laned
  <2>3. QED
    BY <2>1, <2>2, LaneTitledIs
<1>3. ListedOf(b) = [n \in 1..m |->
        IF LaneTitled(b, Active[n]) = 0 THEN <<>> ELSE b.lanes[LaneTitled(b, Active[n])].cards]
  BY <1>1 DEF ListedOf
<1>4. \A n \in 1..m : ListedOf(b)[n] = b.lanes[LaneTitled(b, Active[n])].cards
  BY <1>2, <1>3
<1>5. \A n \in 1..m : ListedOf(b)[n] \in Seq(BoardCard)
  <2>1. ASSUME NEW i \in 1..Len(b.lanes) PROVE b.lanes[i].cards \in Seq(BoardCard)
    <3>1. b.lanes[i] \in BoardLane
      BY ElementOfSeq
    <3>2. QED
      BY <3>1 DEF BoardLane
  <2>2. QED
    BY <1>2, <1>4, <2>1
<1>6. PICK l : l = ListedOf(b)
  OBVIOUS
<1>7. l = [n \in 1..m |-> l[n]] /\ \A n \in 1..m : l[n] \in Seq(BoardCard)
  BY <1>3, <1>5, <1>6
<1>8. l \in Seq(Seq(BoardCard)) /\ DOMAIN l = 1..m
  <2>1. [n \in 1..m |-> l[n]] \in Seq(Seq(BoardCard))
    BY <1>7
  <2>2. QED
    BY <1>7, <2>1
<1>9. Len(l) = m
  BY <1>8, LenProperties
<1>10. QED
  BY <1>1, <1>2, <1>4, <1>6, <1>8, <1>9

\* A list names each card of the board, and none twice.
LEMMA ListingIs ==
  ASSUME NEW b, b.lanes \in Seq(BoardLane), b.archive \in Seq(BoardCard), Laned(b), LanedOnce(b),
         NEW c, ~Twice(AllCards(b), c)
  PROVE  /\ Listing(b) \in Seq(BoardCard) /\ ~Twice(Listing(b), c)
         /\ Has(Listing(b), c) <=> Holds(b, c)
<1>1. PICK tt \in Seq(Seq(BoardCard)), k \in Nat :
        /\ tt = CardsOf(b) /\ Len(tt) = k /\ k = Len(b.lanes)
        /\ \A n \in 1..k : tt[n] = b.lanes[n].cards
  <2>1. Len(b.lanes) \in Nat
    BY LenProperties
  <2>2. QED
    BY <2>1, CardsOfAre
<1>2. PICK ss \in Seq(Seq(BoardCard)), m \in Nat :
        /\ ss = ListedOf(b) /\ Len(ss) = m /\ m = Len(Active)
        /\ \A n \in 1..m :
             /\ LaneTitled(b, Active[n]) \in 1..k
             /\ b.lanes[LaneTitled(b, Active[n])].title = Active[n]
             /\ Active[n] \in ToSet(Active)
             /\ ss[n] = b.lanes[LaneTitled(b, Active[n])].cards
  <2>1. Len(Active) \in Nat
    BY LimitsAre
  <2>2. QED
    BY <1>1, <2>1, ListedOfAre
<1>3. PICK a \in Seq(BoardCard) : a = b.archive
  OBVIOUS
<1>4. AllCards(b) = FlattenSeq(tt) \o a /\ Listing(b) = FlattenSeq(ss) \o a
  BY <1>1, <1>2, <1>3, Zenon DEF AllCards, Listing, CardsOf, ListedOf
<1>5. /\ FlattenSeq(tt) \in Seq(BoardCard)
      /\ Has(FlattenSeq(tt), c) <=> HasSome(tt, k, c)
      /\ Twice(FlattenSeq(tt), c) <=> TwiceSome(tt, k, c)
  BY <1>1, FlattenedCards
<1>6. /\ FlattenSeq(ss) \in Seq(BoardCard)
      /\ Has(FlattenSeq(ss), c) <=> HasSome(ss, m, c)
      /\ Twice(FlattenSeq(ss), c) <=> TwiceSome(ss, m, c)
  BY <1>2, FlattenedCards
<1>7. ~TwiceSome(tt, k, c) /\ ~Twice(a, c) /\ ~(HasSome(tt, k, c) /\ Has(a, c))
  <2>1. PICK s \in Seq(BoardCard) : s = FlattenSeq(tt)
    BY <1>5
  <2>2. Twice(s \o a, c) <=> Twice(s, c) \/ Twice(a, c) \/ (Has(s, c) /\ Has(a, c))
    BY JoinedCards
  <2>3. QED
    BY <1>4, <1>5, <2>1, <2>2
<1>8. PICK at : at = [n \in 1..m |-> LaneTitled(b, Active[n])]
  OBVIOUS
<1>9. \A n \in 1..m : /\ at[n] \in 1..k /\ b.lanes[at[n]].title = Active[n]
                      /\ Active[n] \in ToSet(Active) /\ ss[n] = tt[at[n]]
  BY <1>1, <1>2, <1>8
<1>10. \A i, j \in 1..m : i # j => at[i] # at[j]
  <2>1. \A i, j \in 1..m : i # j => Active[i] # Active[j]
    <3>1. DOMAIN Active = 1..m
      BY <1>2, BoardTextAssumption, LenProperties
    <3>2. QED
      BY <3>1, BoardTextAssumption
  <2>2. ASSUME NEW i \in 1..m, NEW j \in 1..m, at[i] = at[j] PROVE Active[i] = Active[j]
    BY <1>9, <2>2
  <2>3. QED
    BY <2>1, <2>2
<1>11. HasSome(ss, m, c) <=> HasSome(tt, k, c)
  <2>1. HasSome(ss, m, c) => HasSome(tt, k, c)
    BY <1>9, Zenon DEF HasSome
  <2>2. ASSUME NEW i \in 1..k, Has(tt[i], c) PROVE HasSome(ss, m, c)
    <3>1. b.lanes[i].cards # <<>>
      <4>1. ~Has(<<>>, c)
        BY DEF Has
      <4>2. tt[i] # <<>>
        BY <2>2, <4>1
      <4>3. QED
        BY <1>1, <4>2
    <3>2. b.lanes[i].title \in ToSet(Active)
      BY <1>1, <3>1 DEF LanedOnce
    <3>3. PICK n \in DOMAIN Active : Active[n] = b.lanes[i].title
      BY <3>2, Zenon DEF ToSet
    <3>4. n \in 1..m
      BY <1>2, <3>3, BoardTextAssumption, LenProperties
    <3>5. at[n] = i
      BY <1>1, <1>9, <3>2, <3>3, <3>4, Zenon DEF LanedOnce
    <3>6. Has(ss[n], c)
      BY <1>9, <2>2, <3>4, <3>5
    <3>7. QED
      BY <3>4, <3>6, Zenon DEF HasSome
  <2>3. QED
    BY <2>1, <2>2, Zenon DEF HasSome
<1>12. ~TwiceSome(ss, m, c)
  <2>1. ASSUME NEW i \in 1..m, Twice(ss[i], c) PROVE FALSE
    <3>1. at[i] \in 1..k /\ Twice(tt[at[i]], c)
      BY <1>9, <2>1
    <3>2. QED
      BY <1>7, <3>1, Zenon DEF TwiceSome
  <2>2. ASSUME NEW i \in 1..m, NEW j \in 1..m, i # j, Has(ss[i], c), Has(ss[j], c) PROVE FALSE
    <3>1. at[i] \in 1..k /\ at[j] \in 1..k /\ at[i] # at[j] /\ Has(tt[at[i]], c) /\ Has(tt[at[j]], c)
      BY <1>9, <1>10, <2>2
    <3>2. QED
      BY <1>7, <3>1, Zenon DEF TwiceSome
  <2>3. QED
    BY <2>1, <2>2, Zenon DEF TwiceSome
<1>13. PICK s \in Seq(BoardCard) : s = FlattenSeq(ss)
  BY <1>6
<1>14. /\ s \o a \in Seq(BoardCard)
       /\ Has(s \o a, c) <=> Has(s, c) \/ Has(a, c)
       /\ Twice(s \o a, c) <=> Twice(s, c) \/ Twice(a, c) \/ (Has(s, c) /\ Has(a, c))
  BY JoinedCards
<1>15. Holds(b, c) <=> HasSome(tt, k, c) \/ Has(a, c)
  <2>1. HasSome(tt, k, c) <=> \E n \in 1..k : Has(b.lanes[n].cards, c)
    BY <1>1, Zenon DEF HasSome
  <2>2. QED
    BY <1>1, <1>3, <2>1, Zenon DEF Holds
<1>16. QED
  BY <1>4, <1>6, <1>7, <1>11, <1>12, <1>13, <1>14, <1>15, Zenon

-----------------------------------------------------------------------------
(* The cards on a parsed board are those that a person sees on it.         *)

\* A card among others and one more.
LEMMA AppendHas ==
  ASSUME NEW S, NEW s \in Seq(S), NEW x \in S, NEW c
  PROVE  Has(Append(s, x), c) <=> Has(s, c) \/ x.id = c
<1>1. PICK m \in Nat : m = Len(s) /\ DOMAIN s = 1..m
  BY LenProperties
<1>2. PICK u : u = Append(s, x)
  OBVIOUS
<1>3. u \in Seq(S) /\ Len(u) = m + 1 /\ u[m + 1] = x /\ \A i \in 1..m : u[i] = s[i]
  BY <1>1, <1>2, AppendProperties
<1>4. DOMAIN u = 1..m + 1
  BY <1>3, LenProperties
<1>5. m + 1 \in 1..m + 1 /\ (\A i \in 1..m : i \in 1..m + 1) /\ (\A i \in 1..m + 1 : i \in 1..m \/ i = m + 1)
  OBVIOUS
<1>6. Has(u, c) => Has(s, c) \/ x.id = c
  BY <1>1, <1>3, <1>4, <1>5 DEF Has
<1>7. Has(s, c) => Has(u, c)
  BY <1>1, <1>3, <1>4, <1>5 DEF Has
<1>8. x.id = c => Has(u, c)
  BY <1>3, <1>4, <1>5 DEF Has
<1>9. QED
  BY <1>2, <1>6, <1>7, <1>8

\* q holds what p does, and got besides; by its n-th lane.
Gains(p, q, c, got) == Holds(q, c) <=> Holds(p, c) \/ got = c
GainsIn(p, q, n, c, got) ==
  /\ n \in 1..Len(p.lanes) /\ Len(q.lanes) = Len(p.lanes) /\ q.archive = p.archive
  /\ \A i \in 1..Len(p.lanes) : i # n => q.lanes[i] = p.lanes[i]
  /\ Has(q.lanes[n].cards, c) <=> Has(p.lanes[n].cards, c) \/ got = c

\* A board gains what one of its lanes does.
LEMMA LaneGains ==
  ASSUME NEW p, NEW q, NEW n, NEW c, NEW got, GainsIn(p, q, n, c, got)
  PROVE  Gains(p, q, c, got)
<1>1. ASSUME Holds(q, c) PROVE Holds(p, c) \/ got = c
  BY <1>1 DEF Holds, GainsIn
<1>2. ASSUME Holds(p, c) \/ got = c PROVE Holds(q, c)
  BY <1>2 DEF Holds, GainsIn
<1>3. QED
  BY <1>1, <1>2 DEF Gains

\* A heading changes nothing about who is on the board.
LEMMA HeadingHolds ==
  ASSUME NEW D, D \subseteq Lines, NEW p, Progress(p, D), p.at # "trailer", NEW l \in D, l.k = "lane", NEW c
  PROVE  /\ Holds(TakesHeading(p, l), c) <=> Holds(p, c)
         /\ TakesHeading(p, l).at \in {"lane", "archive"} /\ TakesHeading(p, l).trailer = p.trailer
<1>1. CASE l.title = "Archive"
  <2>1. TakesHeading(p, l) = [p EXCEPT !.at = "archive", !.archived = TRUE, !.open = FALSE]
    BY <1>1 DEF TakesHeading
  <2>2. QED
    BY <2>1 DEF Progress, Holds
<1>2. CASE l.title # "Archive" /\ p.at = "archive" /\ ~IsStatusLane(l)
  <2>1. TakesHeading(p, l) = [p EXCEPT !.open = FALSE]
    BY <1>2 DEF TakesHeading
  <2>2. QED
    BY <1>2, <2>1 DEF Progress, Holds
<1>3. CASE l.title # "Archive" /\ ~(p.at = "archive" /\ ~IsStatusLane(l))
  <2>1. PICK lane : lane = [title |-> l.title, limit |-> l.limit, cards |-> <<>>]
    OBVIOUS
  <2>2. lane \in BoardLane
    <3>1. <<>> \in Seq(BoardCard) /\ l.title \in ToSet(Active) \cup {Icebox} /\ l.limit \in {0, 3}
      BY <1>3, EmptySeq, LineKinds
    <3>2. QED
      BY <2>1, <3>1 DEF BoardLane
  <2>3. PICK ls : ls = Append(p.lanes, lane)
    OBVIOUS
  <2>4. PICK m \in Nat : m = Len(p.lanes)
    BY LenProperties DEF Progress
  <2>5. Len(ls) = m + 1 /\ ls[m + 1] = lane /\ \A i \in 1..m : ls[i] = p.lanes[i]
    BY <2>2, <2>3, <2>4, AppendTyped DEF Progress
  <2>6. TakesHeading(p, l) = [p EXCEPT !.at = "lane", !.open = FALSE, !.lanes = ls]
    BY <1>3, <2>1, <2>3 DEF TakesHeading
  <2>7. PICK q : q = TakesHeading(p, l)
    OBVIOUS
  <2>8. q.lanes = ls /\ q.archive = p.archive /\ q.at = "lane" /\ q.trailer = p.trailer
    BY <2>6, <2>7 DEF Progress
  <2>9. ~Has(lane.cards, c)
    BY <2>1 DEF Has
  <2>10. (\E n \in 1..m + 1 : Has(ls[n].cards, c)) <=> (\E n \in 1..m : Has(p.lanes[n].cards, c))
    <3>1. (\A i \in 1..m : i \in 1..m + 1) /\ (\A i \in 1..m + 1 : i \in 1..m \/ i = m + 1)
      OBVIOUS
    <3>2. QED
      BY <2>5, <2>9, <3>1
  <2>11. Holds(q, c) <=> Holds(p, c)
    BY <2>4, <2>5, <2>8, <2>10 DEF Holds
  <2>12. QED
    BY <2>7, <2>8, <2>11
<1>4. QED
  BY <1>1, <1>2, <1>3

\* An item puts its card there.
LEMMA ItemHolds ==
  ASSUME NEW D, D \subseteq Lines, NEW p, Progress(p, D), p.at \in {"lane", "archive"}, NEW l \in D, l.k = "item", NEW c
  PROVE  /\ Holds(TakesItem(p, l), c) <=> Holds(p, c) \/ l.id = c
         /\ TakesItem(p, l).at = p.at /\ TakesItem(p, l).trailer = p.trailer
<1>1. PICK card : card = [id |-> l.id, ticked |-> l.ticked, more |-> 0]
  OBVIOUS
<1>2. card \in BoardCard /\ card.id = l.id
  BY <1>1, LineKinds DEF BoardCard
<1>3. CASE p.at = "archive"
  <2>1. PICK cards : cards = Append(p.archive, card)
    OBVIOUS
  <2>2. Has(cards, c) <=> Has(p.archive, c) \/ l.id = c
    BY <1>2, <2>1, AppendHas DEF Progress
  <2>3. TakesItem(p, l) = [p EXCEPT !.archive = cards, !.open = TRUE]
    BY <1>1, <1>3, <2>1 DEF TakesItem
  <2>4. PICK q : q = TakesItem(p, l)
    OBVIOUS
  <2>5. q.lanes = p.lanes /\ q.archive = cards /\ q.at = p.at /\ q.trailer = p.trailer
    BY <2>3, <2>4 DEF Progress
  <2>6. Holds(q, c) <=> Holds(p, c) \/ l.id = c
    BY <2>2, <2>5 DEF Holds
  <2>7. QED
    BY <2>4, <2>5, <2>6
<1>4. CASE p.at = "lane"
  <2>1. PICK n : n = Len(p.lanes)
    OBVIOUS
  <2>2. p.lanes \in Seq(BoardLane) /\ n \in 1..Len(p.lanes) /\ p.lanes[n] \in BoardLane
    BY <1>4, <2>1, LastOf DEF Progress
  <2>3. PICK cards : cards = Append(p.lanes[n].cards, card)
    OBVIOUS
  <2>4. cards \in Seq(BoardCard) /\ (Has(cards, c) <=> Has(p.lanes[n].cards, c) \/ l.id = c)
    BY <1>2, <2>2, <2>3, AppendTyped, AppendHas DEF BoardLane
  <2>5. PICK ls : ls = [p.lanes EXCEPT ![n].cards = cards]
    OBVIOUS
  <2>6. TakesItem(p, l) = [p EXCEPT !.lanes = ls, !.open = TRUE]
    BY <1>1, <1>4, <2>1, <2>3, <2>5 DEF TakesItem
  <2>7. PICK q : q = TakesItem(p, l)
    OBVIOUS
  <2>8. q.lanes = ls /\ q.archive = p.archive /\ q.at = p.at /\ q.trailer = p.trailer
    BY <2>6, <2>7 DEF Progress
  <2>9. Holds(q, c) <=> Holds(p, c) \/ l.id = c
    <3>1. PICK got : got = l.id
      OBVIOUS
    <3>2. /\ Len(ls) = Len(p.lanes) /\ ls[n].cards = cards
          /\ \A i \in 1..Len(p.lanes) : i # n => ls[i] = p.lanes[i]
      BY <2>2, <2>4, <2>5, CardsChanged
    <3>3. Has(q.lanes[n].cards, c) <=> Has(p.lanes[n].cards, c) \/ got = c
      BY <2>4, <2>8, <3>1, <3>2
    <3>4. GainsIn(p, q, n, c, got)
      BY <2>2, <2>8, <3>2, <3>3 DEF GainsIn
    <3>5. QED
      BY <3>1, <3>4, LaneGains DEF Gains
  <2>10. QED
    BY <2>7, <2>8, <2>9
<1>5. QED
  BY <1>3, <1>4

\* A line more, and the cards are the same ones
LEMMA MoreHas ==
  ASSUME NEW cards \in Seq(BoardCard), cards # <<>>, NEW c
  PROVE  /\ [cards EXCEPT ![Len(cards)].more = @ + 1] \in Seq(BoardCard)
         /\ Has([cards EXCEPT ![Len(cards)].more = @ + 1], c) <=> Has(cards, c)
<1>1. PICK n : n = Len(cards) /\ n \in 1..Len(cards) /\ cards[n] \in BoardCard
  BY LastOf
<1>2. PICK card : card = [cards[n] EXCEPT !.more = @ + 1]
  OBVIOUS
<1>3. card.id = cards[n].id
  BY <1>1, <1>2 DEF BoardCard
<1>4. PICK u : u = [cards EXCEPT ![n] = card]
  OBVIOUS
<1>5. u = [cards EXCEPT ![Len(cards)].more = @ + 1]
  BY <1>1, <1>2, <1>4
<1>6. DOMAIN u = DOMAIN cards /\ u[n] = card /\ \A i \in DOMAIN cards : i # n => u[i] = cards[i]
  <2>1. n \in DOMAIN cards
    BY <1>1, LenProperties
  <2>2. QED
    BY <1>4, <2>1
<1>7. \A i \in DOMAIN cards : u[i].id = cards[i].id
  BY <1>3, <1>6
<1>8. Has(u, c) <=> Has(cards, c)
  BY <1>6, <1>7 DEF Has
<1>9. u \in Seq(BoardCard)
  BY <1>5, MoreKeepsCards
<1>10. QED
  BY <1>5, <1>8, <1>9

\* on the board too.
LEMMA MoreHolds ==
  ASSUME NEW D, NEW p, Progress(p, D), p.at \in {"lane", "archive"}, p.open, NEW c
  PROVE  /\ Holds(TakesMore(p), c) <=> Holds(p, c)
         /\ TakesMore(p).at = p.at /\ TakesMore(p).trailer = p.trailer
<1>1. CASE p.at = "archive"
  <2>1. PICK cards : cards = [p.archive EXCEPT ![Len(p.archive)].more = @ + 1]
    OBVIOUS
  <2>2. Has(cards, c) <=> Has(p.archive, c)
    BY <1>1, <2>1, MoreHas DEF Progress
  <2>3. TakesMore(p) = [p EXCEPT !.archive = cards]
    BY <1>1, <2>1 DEF TakesMore
  <2>4. PICK q : q = TakesMore(p)
    OBVIOUS
  <2>5. q.lanes = p.lanes /\ q.archive = cards /\ q.at = p.at /\ q.trailer = p.trailer
    BY <2>3, <2>4 DEF Progress
  <2>6. Holds(q, c) <=> Holds(p, c)
    BY <2>2, <2>5 DEF Holds
  <2>7. QED
    BY <2>4, <2>5, <2>6
<1>2. CASE p.at = "lane"
  <2>1. PICK n : n = Len(p.lanes)
    OBVIOUS
  <2>2. p.lanes \in Seq(BoardLane) /\ n \in 1..Len(p.lanes) /\ p.lanes[n] \in BoardLane
    BY <1>2, <2>1, LastOf DEF Progress
  <2>3. PICK old : old = p.lanes[n].cards /\ old \in Seq(BoardCard) /\ old # <<>>
    BY <1>2, <2>1, <2>2 DEF Progress, BoardLane
  <2>4. PICK cards : cards = [old EXCEPT ![Len(old)].more = @ + 1]
    OBVIOUS
  <2>5. cards \in Seq(BoardCard) /\ (Has(cards, c) <=> Has(old, c))
    BY <2>3, <2>4, MoreHas
  <2>6. PICK ls : ls = [p.lanes EXCEPT ![n].cards = cards]
    OBVIOUS
  <2>7. /\ Len(ls) = Len(p.lanes) /\ ls[n].cards = cards
        /\ \A i \in 1..Len(p.lanes) : i # n => ls[i] = p.lanes[i]
    BY <2>2, <2>5, <2>6, CardsChanged
  <2>8. TakesMore(p) = [p EXCEPT !.lanes = ls]
    BY <1>2, <2>1, <2>3, <2>4, <2>6 DEF TakesMore
  <2>9. PICK q : q = TakesMore(p)
    OBVIOUS
  <2>10. q.lanes = ls /\ q.archive = p.archive /\ q.at = p.at /\ q.trailer = p.trailer
    BY <2>8, <2>9 DEF Progress
  <2>11. PICK got : got # c
    <3>1. 0 # 1
      OBVIOUS
    <3>2. QED
      BY <3>1
  <2>12. GainsIn(p, q, n, c, got)
    BY <2>2, <2>3, <2>5, <2>7, <2>10, <2>11 DEF GainsIn
  <2>13. Holds(q, c) <=> Holds(p, c)
    BY <2>11, <2>12, LaneGains DEF Gains
  <2>14. QED
    BY <2>9, <2>10, <2>13
<1>3. QED
  BY <1>1, <1>2

\* Where a parse is, by the lines that it has read.
Follows(p, t, n) ==
  /\ p.at = "preamble" => \A h \in 1..n : t[h].k # "lane"
  /\ p.at \in {"lane", "archive"} => \E h \in 1..n : t[h].k = "lane"
  /\ p.at # "trailer" => p.trailer = <<>> /\ \A h \in 1..n : t[h].k # "settings"
  /\ p.at = "trailer" => /\ p.trailer # <<>>
                         /\ p.trailer[1].k = "settings" => \E h \in 1..n : t[h].k = "settings"

\* Line j of t is an item c, after a heading and ahead of the settings.
SeenAt(t, j, c) ==
  /\ t[j].k = "item" /\ t[j].id = c
  /\ \E h \in 1..j : t[h].k = "lane"
  /\ \A h \in 1..j : t[h].k # "settings"
SeenBy(t, n, c) == \E j \in 1..n : SeenAt(t, j, c)

HoldsSeen(p, t, n, c) ==
  (p.at = "trailer" => p.trailer[1].k = "settings") => (Holds(p, c) <=> SeenBy(t, n, c))

\* A person who reads on sees what that line shows.
LEMMA OneMoreSeen ==
  ASSUME NEW t, NEW i \in Nat, i # 0, NEW c
  PROVE  SeenBy(t, i, c) <=> SeenBy(t, i - 1, c) \/ SeenAt(t, i, c)
<1>1. i \in 1..i /\ (\A j \in 1..i - 1 : j \in 1..i) /\ (\A j \in 1..i : j \in 1..i - 1 \/ j = i)
  OBVIOUS
<1>2. QED
  BY <1>1, Zenon DEF SeenBy

\* How a parse goes on.
LEMMA FollowsOn ==
  ASSUME NEW p, NEW q, NEW t, NEW i \in Nat, i # 0, Follows(p, t, i - 1), p.at \in {"preamble", "lane", "archive", "trailer"},
         p.at # "trailer", t[i].k # "settings", q.trailer = p.trailer,
         \/ q.at = p.at /\ (p.at = "preamble" => t[i].k # "lane")
         \/ q.at \in {"lane", "archive"} /\ t[i].k = "lane"
  PROVE  Follows(q, t, i)
<1>1. i \in 1..i /\ (\A j \in 1..i - 1 : j \in 1..i) /\ (\A j \in 1..i : j \in 1..i - 1 \/ j = i)
  OBVIOUS
<1>2. q.at # "trailer" /\ q.trailer = <<>> /\ \A h \in 1..i : t[h].k # "settings"
  BY <1>1 DEF Follows
<1>3. CASE q.at = p.at /\ (p.at = "preamble" => t[i].k # "lane")
  <2>1. p.at = "preamble" => \A h \in 1..i : t[h].k # "lane"
    BY <1>1, <1>3 DEF Follows
  <2>2. p.at \in {"lane", "archive"} => \E h \in 1..i : t[h].k = "lane"
    BY <1>1 DEF Follows
  <2>3. QED
    BY <1>2, <1>3, <2>1, <2>2 DEF Follows
<1>4. CASE q.at \in {"lane", "archive"} /\ t[i].k = "lane"
  BY <1>1, <1>2, <1>4 DEF Follows
<1>5. QED
  BY <1>3, <1>4

\* A line puts a card on the board exactly when a person sees it there.
LEMMA TakesFollows ==
  ASSUME NEW D, D \subseteq Lines, NEW p, Progress(p, D), NEW t \in Seq(D), NEW i \in 1..Len(t), NEW c,
         Follows(p, t, i - 1), HoldsSeen(p, t, i - 1, c)
  PROVE  Follows(Takes(p, t, i), t, i) /\ HoldsSeen(Takes(p, t, i), t, i, c)
<1>1. PICK l \in D : l = t[i]
  BY ElementOfSeq
<1>2. p.at \in {"preamble", "lane", "archive", "trailer"}
  BY DEF Progress
<1>3. PICK q : q = Takes(p, t, i)
  OBVIOUS
<1>4. i \in Nat /\ i # 0
  <2>1. Len(t) \in Nat
    BY LenProperties
  <2>2. QED
    BY <2>1
<1>5. /\ i \in 1..i /\ (\A j \in 1..i - 1 : j \in 1..i) /\ (\A j \in 1..i : j \in 1..i - 1 \/ j = i)
  BY <1>4
<1>6. SeenBy(t, i, c) <=> SeenBy(t, i - 1, c) \/ SeenAt(t, i, c)
  BY <1>4, OneMoreSeen
<1>7. CASE p.at = "trailer" \/ l.k = "settings"
  <2>1. PICK s : s = Append(p.trailer, l)
    OBVIOUS
  <2>2. q = [p EXCEPT !.at = "trailer", !.trailer = s]
    BY <1>1, <1>3, <1>7, <2>1 DEF Takes
  <2>3. q.at = "trailer" /\ q.trailer = s /\ (Holds(q, c) <=> Holds(p, c))
    BY <2>2 DEF Progress, Holds
  <2>4. PICK m \in Nat : m = Len(p.trailer) /\ (p.trailer # <<>> => m # 0) /\ (p.trailer = <<>> => m = 0)
    <3>1. p.trailer \in Seq(D)
      BY DEF Progress
    <3>2. QED
      BY <3>1, EmptySeq, LenProperties
  <2>5. s # <<>> /\ s[m + 1] = l /\ \A j \in 1..m : s[j] = p.trailer[j]
    <3>1. p.trailer \in Seq(D)
      BY DEF Progress
    <3>2. s # <<>> /\ s[Len(p.trailer) + 1] = l /\ \A j \in 1..Len(p.trailer) : s[j] = p.trailer[j]
      BY <2>1, <3>1, AppendTyped
    <3>3. QED
      BY <2>4, <3>2
  <2>6. CASE p.at = "trailer"
    <3>1. p.trailer # <<>> /\ s[1] = p.trailer[1]
      <4>1. p.trailer # <<>>
        BY <2>6 DEF Follows
      <4>2. 1 \in 1..m
        BY <2>4, <4>1
      <4>3. QED
        BY <2>5, <4>1, <4>2
    <3>2. s[1].k = "settings" => \E h \in 1..i - 1 : t[h].k = "settings"
      BY <2>6, <3>1 DEF Follows
    <3>3. Follows(q, t, i)
      BY <1>5, <2>3, <2>5, <3>2 DEF Follows
    <3>4. s[1].k = "settings" => ~SeenAt(t, i, c)
      BY <1>5, <3>2 DEF SeenAt
    <3>5. s[1].k = "settings" => (Holds(p, c) <=> SeenBy(t, i - 1, c))
      BY <2>6, <3>1 DEF HoldsSeen
    <3>6. HoldsSeen(q, t, i, c)
      BY <1>6, <2>3, <3>4, <3>5 DEF HoldsSeen
    <3>7. QED
      BY <1>3, <3>3, <3>6
  <2>7. CASE p.at # "trailer"
    <3>1. l.k = "settings" /\ s[1] = l
      <4>1. p.trailer = <<>>
        BY <2>7 DEF Follows
      <4>2. m + 1 = 1
        BY <2>4, <4>1
      <4>3. QED
        BY <1>7, <2>5, <2>7, <4>2
    <3>2. Follows(q, t, i)
      BY <1>1, <1>5, <2>3, <2>5, <3>1 DEF Follows
    <3>3. ~SeenAt(t, i, c)
      BY <1>1, <3>1 DEF SeenAt
    <3>4. HoldsSeen(q, t, i, c)
      BY <1>6, <2>3, <2>7, <3>3 DEF HoldsSeen
    <3>5. QED
      BY <1>3, <3>2, <3>4
  <2>8. QED
    BY <2>6, <2>7
<1>8. ASSUME p.at # "trailer", l.k \notin {"settings", "item"}, q.trailer = p.trailer, q.at # "trailer",
             Holds(q, c) <=> Holds(p, c)
      PROVE  HoldsSeen(q, t, i, c)
  <2>1. ~SeenAt(t, i, c)
    BY <1>1, <1>8 DEF SeenAt
  <2>2. QED
    BY <1>6, <1>8, <2>1 DEF HoldsSeen
<1>9. CASE p.at # "trailer" /\ l.k = "lane"
  <2>1. q = TakesHeading(p, l)
    BY <1>1, <1>3, <1>9 DEF Takes
  <2>2. (Holds(q, c) <=> Holds(p, c)) /\ q.at \in {"lane", "archive"} /\ q.trailer = p.trailer
    BY <1>9, <2>1, HeadingHolds
  <2>3. Follows(q, t, i)
    BY <1>1, <1>2, <1>4, <1>9, <2>2, FollowsOn
  <2>4. HoldsSeen(q, t, i, c)
    BY <1>8, <1>9, <2>2
  <2>5. QED
    BY <1>3, <2>3, <2>4
<1>10. CASE p.at = "preamble" /\ l.k \notin {"lane", "settings"}
  <2>1. q = [p EXCEPT !.preamble = Append(p.preamble, l)]
    BY <1>1, <1>3, <1>10 DEF Takes
  <2>2. (Holds(q, c) <=> Holds(p, c)) /\ q.at = p.at /\ q.trailer = p.trailer
    BY <2>1 DEF Progress, Holds
  <2>3. Follows(q, t, i)
    BY <1>1, <1>2, <1>4, <1>10, <2>2, FollowsOn
  <2>4. ~SeenAt(t, i, c)
    BY <1>1, <1>10, <2>2, <2>3 DEF Follows, SeenAt
  <2>5. HoldsSeen(q, t, i, c)
    BY <1>6, <1>10, <2>2, <2>4 DEF HoldsSeen
  <2>6. QED
    BY <1>3, <2>3, <2>5
<1>11. CASE p.at \in {"lane", "archive"} /\ l.k = "item"
  <2>1. q = TakesItem(p, l)
    BY <1>1, <1>3, <1>11 DEF Takes
  <2>2. (Holds(q, c) <=> Holds(p, c) \/ l.id = c) /\ q.at = p.at /\ q.trailer = p.trailer
    <3>1. p.at \in {"lane", "archive"} /\ l.k = "item" /\ Progress(p, D)
      BY <1>11
    <3>2. /\ Holds(TakesItem(p, l), c) <=> Holds(p, c) \/ l.id = c
          /\ TakesItem(p, l).at = p.at /\ TakesItem(p, l).trailer = p.trailer
      BY <3>1, ItemHolds
    <3>3. QED
      BY <2>1, <3>2, Zenon
  <2>3. Follows(q, t, i)
    BY <1>1, <1>2, <1>4, <1>11, <2>2, FollowsOn
  <2>4. SeenAt(t, i, c) <=> l.id = c
    BY <1>1, <1>11, <2>2, <2>3 DEF Follows, SeenAt
  <2>5. HoldsSeen(q, t, i, c)
    BY <1>6, <1>11, <2>2, <2>4 DEF HoldsSeen
  <2>6. QED
    BY <1>3, <2>3, <2>5
<1>12. CASE p.at \in {"lane", "archive"} /\ l.k = "more" /\ p.open
  <2>1. q = TakesMore(p)
    BY <1>1, <1>3, <1>12 DEF Takes
  <2>2. (Holds(q, c) <=> Holds(p, c)) /\ q.at = p.at /\ q.trailer = p.trailer
    BY <1>12, <2>1, MoreHolds
  <2>3. Follows(q, t, i)
    BY <1>1, <1>2, <1>4, <1>12, <2>2, FollowsOn
  <2>4. HoldsSeen(q, t, i, c)
    BY <1>8, <1>12, <2>2
  <2>5. QED
    BY <1>3, <2>3, <2>4
<1>13. CASE p.at \in {"lane", "archive"} /\ l.k \notin {"lane", "settings", "item"} /\ ~(l.k = "more" /\ p.open)
  <2>1. q \in {[p EXCEPT !.at = "trailer", !.trailer = <<l>>], [p EXCEPT !.open = FALSE]}
    BY <1>1, <1>3, <1>13 DEF Takes
  <2>2. CASE q = [p EXCEPT !.at = "trailer", !.trailer = <<l>>]
    <3>1. q.at = "trailer" /\ q.trailer = <<l>>
      BY <2>2 DEF Progress
    <3>2. q.trailer # <<>> /\ q.trailer[1].k # "settings"
      BY <1>13, <3>1
    <3>3. Follows(q, t, i) /\ HoldsSeen(q, t, i, c)
      BY <3>1, <3>2 DEF Follows, HoldsSeen
    <3>4. QED
      BY <1>3, <3>3
  <2>3. CASE q = [p EXCEPT !.open = FALSE]
    <3>1. (Holds(q, c) <=> Holds(p, c)) /\ q.at = p.at /\ q.trailer = p.trailer
      BY <2>3 DEF Progress, Holds
    <3>2. Follows(q, t, i)
      BY <1>1, <1>2, <1>4, <1>13, <3>1, FollowsOn
    <3>3. HoldsSeen(q, t, i, c)
      BY <1>8, <1>13, <3>1
    <3>4. QED
      BY <1>3, <3>2, <3>3
  <2>4. QED
    BY <2>1, <2>2, <2>3
<1>14. QED
  BY <1>2, <1>7, <1>9, <1>10, <1>11, <1>12, <1>13

\* So a text does.
LEMMA ParsedHoldsSeen ==
  ASSUME NEW D, D \subseteq Lines, NEW t \in Seq(D), OnlySettingsFollow(Parse(t)), NEW c
  PROVE  Holds(Parse(t), c) <=> SeenBy(t, Len(t), c)
<1>1. PICK m \in Nat : m = Len(t)
  BY LenProperties
<1>2. PICK f : Parses(t, m, f) /\ Parse(t) = BoardOf(f[m])
  BY <1>1, ParseIs
<1> DEFINE G == {n \in 0..m : Follows(f[n], t, n) /\ HoldsSeen(f[n], t, n, c)}
<1>3. 0 \in G
  <2>1. f[0] = Unparsed /\ 0 \in 0..m /\ 1..0 = {}
    BY <1>2 DEF Parses
  <2>2. /\ Unparsed.at = "preamble" /\ Unparsed.trailer = <<>> /\ Unparsed.lanes = <<>>
        /\ Unparsed.archive = <<>> /\ Len(<<>>) = 0
    BY DEF Unparsed
  <2>3. Follows(Unparsed, t, 0)
    BY <2>1, <2>2 DEF Follows
  <2>4. ~Has(<<>>, c)
    BY DEF Has
  <2>5. ~Holds(Unparsed, c)
    BY <2>1, <2>2, <2>4 DEF Holds
  <2>6. ~SeenBy(t, 0, c)
    BY <2>1 DEF SeenBy
  <2>7. HoldsSeen(Unparsed, t, 0, c)
    BY <2>5, <2>6 DEF HoldsSeen
  <2>8. QED
    BY <2>1, <2>3, <2>7
<1>4. ASSUME NEW n \in 1..m, n - 1 \in G PROVE n \in G
  <2>1. n - 1 \in 0..m /\ n \in 0..m
    OBVIOUS
  <2>2. PICK p : p = f[n - 1]
    OBVIOUS
  <2>3. Progress(p, D)
    BY <1>1, <1>2, <2>1, <2>2, ProgressHolds
  <2>4. f[n] = Takes(p, t, n)
    BY <1>2, <2>2 DEF Parses
  <2>5. Follows(p, t, n - 1) /\ HoldsSeen(p, t, n - 1, c)
    BY <1>4, <2>2
  <2>6. Follows(Takes(p, t, n), t, n) /\ HoldsSeen(Takes(p, t, n), t, n, c)
    BY <1>1, <2>3, <2>5, TakesFollows
  <2>7. QED
    BY <2>1, <2>4, <2>6
<1>5. m \in G
  <2>1. m \in 0..m
    BY <1>1
  <2> HIDE DEF G
  <2>2. \A n \in 0..m : n \in G
    BY <1>3, <1>4, UpTo
  <2>3. QED
    BY <2>1, <2>2
<1>6. PICK p : p = f[m] /\ Follows(p, t, m) /\ HoldsSeen(p, t, m, c)
  BY <1>5
<1>7. PICK b : /\ b = Parse(t) /\ b.trailer = p.trailer /\ b.lanes = p.lanes
               /\ b.archive = p.archive
  BY <1>2, <1>6 DEF BoardOf
<1>8. p.at = "trailer" => p.trailer[1].k = "settings"
  BY <1>6, <1>7 DEF OnlySettingsFollow, Follows
<1>9. Holds(p, c) <=> SeenBy(t, m, c)
  BY <1>6, <1>8 DEF HoldsSeen
<1>10. Holds(b, c) <=> Holds(p, c)
  BY <1>7 DEF Holds
<1>11. QED
  BY <1>1, <1>7, <1>9, <1>10

\* SelectInSeq finds the first line of a kind.
LEMMA FirstLine ==
  ASSUME NEW t, NEW n \in Nat, NEW k
  PROVE  \E m \in 0..n :
           /\ m = IF {i \in 1..n : t[i].k = k} # {} THEN Min({i \in 1..n : t[i].k = k}) ELSE 0
           /\ m # 0 => t[m].k = k /\ \A j \in 1..m - 1 : t[j].k # k
           /\ m = 0 => \A j \in 1..n : t[j].k # k
<1> DEFINE I == {i \in 1..n : t[i].k = k}
<1>1. CASE I = {}
  <2>1. 0 \in 0..n /\ \A j \in 1..n : t[j].k # k
    BY <1>1
  <2>2. QED
    BY <1>1, <2>1
<1>2. CASE I # {}
  <2>1. I \subseteq 1..n
    OBVIOUS
  <2>2. PICK m \in I : m = Min(I) /\ \A y \in I : m <= y
    <3> HIDE DEF I
    <3> QED BY <1>2, <2>1, MinIs
  <2>3. m \in 0..n /\ m # 0 /\ t[m].k = k
    OBVIOUS
  <2>4. \A j \in 1..m - 1 : j \in 1..n /\ ~(m <= j)
    OBVIOUS
  <2>5. \A j \in 1..m - 1 : t[j].k # k
    BY <2>2, <2>4
  <2>6. QED
    BY <1>2, <2>2, <2>3, <2>5
<1>3. QED
  BY <1>1, <1>2

\* A person sees an item c.
OnSight(t, c) == \E i \in DOMAIN Region(t) : Region(t)[i].k = "item" /\ Region(t)[i].id = c

\* A person sees in the region of the board what one does in its lines up to the end.
LEMMA RegionIs ==
  ASSUME NEW D, NEW t \in Seq(D), NEW c
  PROVE  OnSight(t, c) <=> SeenBy(t, Len(t), c)
<1>1. PICK n \in Nat : n = Len(t) /\ \A i \in 1..n : t[i] \in D
  BY LenProperties, ElementOfSeq
<1>2. PICK first \in 0..n :
        /\ first = IF {i \in 1..n : t[i].k = "lane"} # {} THEN Min({i \in 1..n : t[i].k = "lane"}) ELSE 0
        /\ first # 0 => t[first].k = "lane" /\ \A j \in 1..first - 1 : t[j].k # "lane"
        /\ first = 0 => \A j \in 1..n : t[j].k # "lane"
  BY FirstLine
<1>3. PICK settings \in 0..n :
        /\ settings = IF {i \in 1..n : t[i].k = "settings"} # {} THEN Min({i \in 1..n : t[i].k = "settings"}) ELSE 0
        /\ settings # 0 => t[settings].k = "settings" /\ \A j \in 1..settings - 1 : t[j].k # "settings"
        /\ settings = 0 => \A j \in 1..n : t[j].k # "settings"
  BY FirstLine
<1>4. PICK a \in Int, z \in Int : /\ a = IF first = 0 THEN n + 1 ELSE first
                                  /\ z = IF settings = 0 THEN n ELSE settings - 1
  OBVIOUS
<1>5. Region(t) = SubSeq(t, a, z)
  BY <1>1, <1>2, <1>3, <1>4, Zenon DEF Region, SelectInSeq
<1>6. 1 <= a /\ z <= n
  <2>1. 1 <= a
    BY <1>2, <1>4
  <2>2. z <= n
    BY <1>3, <1>4
  <2>3. QED
    BY <2>1, <2>2
<1>7. /\ SubSeq(t, a, z) \in Seq(D) /\ Len(SubSeq(t, a, z)) = IF a <= z THEN z - a + 1 ELSE 0
      /\ \A i \in 1..z - a + 1 : SubSeq(t, a, z)[i] = t[a + i - 1]
  <2>1. \A j \in a..z : t[j] \in D
    BY <1>1, <1>6
  <2>2. QED
    BY <2>1, SubSeqProperties
<1>8. PICK r \in Seq(D) : /\ r = Region(t) /\ DOMAIN r = 1..z - a + 1
                          /\ \A i \in 1..z - a + 1 : r[i] = t[a + i - 1]
  <2>1. PICK r \in Seq(D) : r = SubSeq(t, a, z)
    BY <1>7
  <2>2. DOMAIN r = 1..Len(r)
    BY LenProperties
  <2>3. DOMAIN r = 1..z - a + 1
    BY <1>7, <2>1, <2>2
  <2>4. QED
    BY <1>5, <1>7, <2>1, <2>3
<1>9. ASSUME NEW i \in DOMAIN r, r[i].k = "item", r[i].id = c PROVE SeenBy(t, n, c)
  <2>1. PICK j \in 1..n : j = a + i - 1 /\ a <= j /\ j <= z /\ r[i] = t[j]
    <3>1. i \in 1..z - a + 1
      BY <1>8
    <3>2. a + i - 1 \in 1..n /\ a <= a + i - 1 /\ a + i - 1 <= z
      BY <1>6, <3>1
    <3>3. QED
      BY <1>8, <3>1, <3>2
  <2>2. first # 0 /\ first \in 1..j
    BY <1>4, <2>1
  <2>3. \A h \in 1..j : t[h].k # "settings"
    <3>1. CASE settings = 0
      <4>1. \A h \in 1..j : h \in 1..n
        OBVIOUS
      <4>2. QED
        BY <1>3, <3>1, <4>1
    <3>2. CASE settings # 0
      <4>1. \A h \in 1..j : h \in 1..settings - 1
        BY <1>4, <2>1, <3>2
      <4>2. QED
        BY <1>3, <3>2, <4>1
    <3>3. QED
      BY <3>1, <3>2
  <2>4. SeenAt(t, j, c)
    BY <1>2, <1>9, <2>1, <2>2, <2>3 DEF SeenAt
  <2>5. QED
    BY <2>4 DEF SeenBy
<1>10. ASSUME NEW j \in 1..n, SeenAt(t, j, c)
       PROVE  \E i \in DOMAIN r : r[i].k = "item" /\ r[i].id = c
  <2>1. PICK h \in 1..j : t[h].k = "lane"
    BY <1>10 DEF SeenAt
  <2>2. first # 0 /\ first <= h
    <3>1. h \in 1..n
      OBVIOUS
    <3>2. first # 0
      BY <1>2, <2>1, <3>1
    <3>3. h \notin 1..first - 1
      BY <1>2, <2>1, <3>2
    <3>4. QED
      BY <3>1, <3>2, <3>3
  <2>3. settings = 0 \/ j < settings
    <3>1. settings # 0 => settings \notin 1..j
      BY <1>3, <1>10 DEF SeenAt
    <3>2. QED
      BY <3>1
  <2>4. a <= j /\ j <= z
    BY <1>4, <2>2, <2>3
  <2>5. j - a + 1 \in 1..z - a + 1 /\ a + (j - a + 1) - 1 = j
    BY <2>4
  <2>6. r[j - a + 1] = t[j]
    BY <1>8, <2>5
  <2>7. QED
    BY <1>8, <1>10, <2>5, <2>6 DEF SeenAt
<1>11. QED
  BY <1>1, <1>8, <1>9, <1>10 DEF SeenBy, OnSight

-----------------------------------------------------------------------------
(* Where lint has nothing to say, a listing tells of every note.           *)

\* Where lint finds no error, each status has one lane and no card is there twice.
LEMMA NoErrors ==
  ASSUME NEW b, NEW n, Errors(b, n) = {}
  PROVE  /\ Laned(b)
         /\ \A u \in ToSet(Active) : \A i, j \in DOMAIN b.lanes :
              b.lanes[i].title = u /\ b.lanes[j].title = u => i = j
         /\ \A c \in Ids : ~(Times(b, c) > 1)
<1>1. ASSUME NEW u \in ToSet(Active), LaneTitled(b, u) = 0 PROVE FALSE
  <2>1. <<"missing-lane", u>> \in Errors(b, n)
    BY <1>1, Zenon DEF Errors
  <2>2. QED
    BY <2>1
<1>2. ASSUME NEW u \in ToSet(Active), NEW i \in DOMAIN b.lanes, NEW j \in DOMAIN b.lanes,
             b.lanes[i].title = u, b.lanes[j].title = u, i # j
      PROVE  FALSE
  <2>1. <<"duplicate-lane", u>> \in Errors(b, n)
    BY <1>2, Zenon DEF Errors
  <2>2. QED
    BY <2>1
<1>3. ASSUME NEW c \in Ids, Times(b, c) > 1 PROVE FALSE
  <2>1. <<"duplicate-card", c>> \in Errors(b, n)
    BY <1>3, Zenon DEF Errors
  <2>2. QED
    BY <2>1
<1>4. QED
  BY <1>1, <1>2, <1>3, Zenon DEF Laned

\* Where it warns of no lane, the cards are in lanes of a status.
LEMMA NoWarnings ==
  ASSUME NEW t, NEW b, NEW n, NEW s, b.lanes \in Seq(BoardLane),
         \A w \in Warnings(t, b, n, s) : w[1] # "unrecognized-lane"
  PROVE  \A i \in 1..Len(b.lanes) : b.lanes[i].title \notin ToSet(Active) => b.lanes[i].cards = <<>>
<1> SUFFICES ASSUME NEW i \in 1..Len(b.lanes), b.lanes[i].title \notin ToSet(Active), b.lanes[i].cards # <<>>
             PROVE  FALSE
  OBVIOUS
<1>1. PICK lane \in BoardLane : lane = b.lanes[i]
  BY ElementOfSeq
<1>2. lane.title = Icebox
  BY <1>1, LaneIs
<1>3. lane \in ToSet(b.lanes)
  <2>1. i \in DOMAIN b.lanes
    BY LenProperties
  <2>2. QED
    BY <1>1, <2>1 DEF ToSet
<1>4. PICK w : w = <<"unrecognized-lane", lane.title>>
  OBVIOUS
<1>5. w \in Warnings(t, b, n, s)
  BY <1>1, <1>2, <1>3, <1>4, Zenon DEF Warnings
<1>6. w[1] = "unrecognized-lane"
  BY <1>4
<1>7. QED
  BY <1>5, <1>6

\* Who is on the board.
LEMMA BoardIdsAre ==
  ASSUME NEW b, b.lanes \in Seq(BoardLane), NEW c \in Ids
  PROVE  c \in BoardIds(b) <=> Holds(b, c)
<1>1. LaneOf(b, c) # 0 <=> \E n \in 1..Len(b.lanes) : Has(b.lanes[n].cards, c)
  BY LaneOfIs
<1>2. QED
  BY <1>1 DEF BoardIds, Holds

\* The cards of a board are cards.
LEMMA AllCardsTyped ==
  ASSUME NEW b, b.lanes \in Seq(BoardLane), b.archive \in Seq(BoardCard)
  PROVE  AllCards(b) \in Seq(BoardCard)
<1>1. PICK tt \in Seq(Seq(BoardCard)) : tt = CardsOf(b)
  BY CardsOfAre
<1>2. PICK s \in Seq(BoardCard) : s = FlattenSeq(tt)
  BY FlattenedCards
<1>3. AllCards(b) = s \o b.archive
  BY <1>1, <1>2 DEF AllCards, CardsOf
<1>4. QED
  BY <1>3, ConcatProperties

\* Such a board is listed whole.
LEMMA ListedFollows == TextInv => ListedOrIced
<1> SUFFICES ASSUME TextInv, NEW b, b = Parse(text), Errors(b, noted) = {}, OnlySettingsFollow(b),
                    \A w \in Warnings(text, b, noted, stamped) : w[1] # "unrecognized-lane",
                    NEW c \in noted
             PROVE  /\ Cardinality({i \in DOMAIN Listing(b) : Listing(b)[i].id = c}) = (IF OnSight(text, c) THEN 1 ELSE 0)
                    /\ c \in Iced(b, noted) <=> ~OnSight(text, c)
  BY Zenon DEF ListedOrIced, OnSight
<1>1. c \in Ids /\ text \in Seq(Lines)
  BY DEF TextInv
<1>2. b.lanes \in Seq(BoardLane) /\ b.archive \in Seq(BoardCard)
  BY ParsedIsSound DEF Sound
<1>3. Laned(b) /\ LanedOnce(b)
  <2>1. DOMAIN b.lanes = 1..Len(b.lanes)
    BY <1>2, LenProperties
  <2>2. /\ Laned(b)
        /\ \A u \in ToSet(Active) : \A i, j \in DOMAIN b.lanes :
             b.lanes[i].title = u /\ b.lanes[j].title = u => i = j
    BY NoErrors
  <2>3. \A i \in 1..Len(b.lanes) : b.lanes[i].title \notin ToSet(Active) => b.lanes[i].cards = <<>>
    BY <1>2, NoWarnings
  <2>4. \A i, j \in 1..Len(b.lanes) :
          b.lanes[i].title = b.lanes[j].title /\ b.lanes[i].title \in ToSet(Active) => i = j
    BY <2>1, <2>2, Zenon
  <2>5. QED
    BY <2>2, <2>3, <2>4, Zenon DEF LanedOnce
<1>4. ~Twice(AllCards(b), c)
  <2>1. ~(Times(b, c) > 1)
    BY <1>1, NoErrors
  <2>2. PICK s \in Seq(BoardCard) : s = AllCards(b)
    BY <1>2, AllCardsTyped
  <2>3. Times(b, c) = Cardinality({i \in DOMAIN s : s[i].id = c})
    BY <2>2 DEF Times
  <2>4. QED
    BY <2>1, <2>2, <2>3, HowMany
<1>5. PICK s \in Seq(BoardCard) : s = Listing(b) /\ ~Twice(s, c) /\ (Has(s, c) <=> Holds(b, c))
  BY <1>2, <1>3, <1>4, ListingIs
<1>6. /\ Holds(b, c) => Cardinality({i \in DOMAIN s : s[i].id = c}) = 1
      /\ ~Holds(b, c) => Cardinality({i \in DOMAIN s : s[i].id = c}) = 0
  BY <1>5, HowMany
<1>7. OnSight(text, c) <=> Holds(b, c)
  <2>1. Holds(b, c) <=> SeenBy(text, Len(text), c)
    BY <1>1, ParsedHoldsSeen
  <2>2. QED
    BY <1>1, <2>1, RegionIs
<1>8. c \in Iced(b, noted) <=> ~Holds(b, c)
  BY <1>1, <1>2, BoardIdsAre DEF Iced
<1>9. QED
  BY <1>5, <1>6, <1>7, <1>8

(* A rewrite is faithful to what is in memory, and memory to the text, for *)
(* any texts, edits and commands.  Board::parse (board.rs) reads what      *)
(* to_text wrote: the lanes in order with their limits, the cards with     *)
(* their boxes and indented lines, and the archive, as long as nothing but *)
(* the settings follows the lanes.  Written anew, such a text stays as it  *)
(* is.  And where lint (lint.rs) finds no error and warns of no unknown    *)
(* lane, a list (query.rs) names every note that a person sees on the      *)
(* board exactly once, and the icebox the others.                          *)
THEOREM RewritesAreFaithful == BoardTextSpec => []RewriteIsFaithful
<1>1. TextInv => RewriteIsFaithful
  BY TypesFollow, ReadBackFollows, StableFollows, ListedFollows DEF RewriteIsFaithful
<1>2. QED
  BY <1>1, TextInvHolds, PTL
=============================================================================
