-------------------------- MODULE ProvisioningProofs --------------------------
(***************************************************************************)
(* What holds of Fleet for any devices, nodes, capacities and limit: the   *)
(* types, that loads count provisions, that capacity, plan limit and       *)
(* drains hold but for the overlaps the history variables name.  And of    *)
(* IdentityVault, the mirror behind it: that the vault follows the rows,   *)
(* for any identities and any number of faults.                            *)
(***************************************************************************)
EXTENDS Fleet, IdentityVault, FiniteSetTheorems, TLAPS

\* A locked row belongs to the claim of the call that locked it.
Locks ==
  \A n \in Nodes, d \in Devices :
    node[n].by = d => call[d].step = "commit" /\ call[d].nodes = <<n>>

\* A call before its commit holds one registered row, with room unless it was
\* squeezed before.
Claims ==
  \A d \in Devices : call[d].step = "commit" =>
    \E n \in Nodes : /\ call[d].nodes = <<n>> /\ node[n].by = d
                     /\ node[n].status \in Registered
                     /\ n \notin squeezed => node[n].load < node[n].capacity

\* A device is bound only by the commit of its call, an absent node is unused.
Bindings ==
  /\ \A d \in Devices : home[d] # None => call[d].step = "done"
  /\ \A n \in Nodes : node[n].status = "absent" =>
       node[n].load = 0 /\ \A d \in Devices : home[d] # n

\* The PATCH under way was checked against the load it read.
PatchChecked == patch # None /\ patch.capacity # None => patch.load <= patch.capacity

\* Without a race, whoever has counted has counted the devices there are.
CountsAreCurrent ==
  \A d \in Devices : call[d].step \in Underway => raced \/ Cardinality(exists) < MaxDevices

\* A call's candidates are active or gone, unless one was drained in between.
SelectionsAreActive ==
  \A d \in Devices : d \in overtaken \/
    \A i \in DOMAIN call[d].nodes : node[call[d].nodes[i]].status \in {"active", "gone"}

FleetInv ==
  /\ FleetTypeOK
  /\ Locks /\ Claims /\ Bindings /\ PatchChecked /\ CountsAreCurrent /\ SelectionsAreActive
  /\ LoadCountsProvisions /\ CapacityUnlessSqueezed /\ LimitUnlessRaced
-------------------------------------------------------------------------------
LEMMA Candidates1 ==
  ASSUME NEW S \in SUBSET Nodes, NEW s \in SetToSeqs(S)
  PROVE  s \in Seq(Nodes) /\ \A i \in DOMAIN s : s[i] \in S
<1>1. Cardinality(S) \in Nat
  BY FleetAssumption, FS_Subset, FS_CardinalityType
<1>2. s \in [1..Cardinality(S) -> S]
  BY DEF SetToSeqs
<1> QED
  BY <1>1, <1>2

LEMMA InitFleetInv == FleetInit => FleetInv
<1> SUFFICES ASSUME FleetInit PROVE FleetInv
  OBVIOUS
<1> USE FleetAssumption DEF FleetInit
<1>1. FleetTypeOK
  <2>1. call \in [Devices -> [step : Steps, nodes : Seq(Nodes)]]
    <3>1. <<>> \in Seq(Nodes)
      OBVIOUS
    <3>2. [step |-> "start", nodes |-> <<>>] \in [step : Steps, nodes : Seq(Nodes)]
      BY <3>1 DEF Steps
    <3> QED
      BY <3>2
  <2>2. node \in [Nodes -> [status : Registered \cup {"absent", "gone"}, capacity : Nat,
                           load : Nat, by : Devices \cup {None}]]
    OBVIOUS
  <2> QED
    BY <2>1, <2>2 DEF FleetTypeOK
<1>2. Locks /\ Claims /\ Bindings /\ PatchChecked /\ SelectionsAreActive
  BY DEF Locks, Claims, Bindings, PatchChecked, SelectionsAreActive
<1>3. CountsAreCurrent /\ LoadCountsProvisions /\ CapacityUnlessSqueezed
  BY DEF CountsAreCurrent, Underway, LoadCountsProvisions, Registered, CapacityUnlessSqueezed
<1>4. LimitUnlessRaced
  BY FS_EmptySet DEF LimitUnlessRaced
<1> QED
  BY <1>1, <1>2, <1>3, <1>4 DEF FleetInv

NodeRow == [status : Registered \cup {"absent", "gone"}, capacity : Nat, load : Nat,
            by : Devices \cup {None}]
CallRow == [step : Steps, nodes : Seq(Nodes)]

LEMMA CallStepTyped ==
  ASSUME call \in [Devices -> CallRow], NEW d \in Devices, NEW from,
         NEW to \in Steps, NEW nodes \in Seq(Nodes), CallStep(d, from, to, nodes)
  PROVE  call' \in [Devices -> CallRow]
<1>1. [step |-> to, nodes |-> nodes] \in CallRow
  BY DEF CallRow
<1> QED
  BY <1>1 DEF CallStep

\* Three shapes of a step on the rows keep their type.
LEMMA RowReplaced ==
  ASSUME NEW rows \in [Nodes -> NodeRow], NEW n \in Nodes, NEW entry \in NodeRow
  PROVE  [rows EXCEPT ![n] = entry] \in [Nodes -> NodeRow]
OBVIOUS

LEMMA RowLocked ==
  ASSUME NEW rows \in [Nodes -> NodeRow], NEW n \in Nodes, NEW by \in Devices \cup {None}
  PROVE  [rows EXCEPT ![n].by = by] \in [Nodes -> NodeRow]
<1>1. [rows[n] EXCEPT !.by = by] \in NodeRow
  BY DEF NodeRow
<1>2. [rows EXCEPT ![n].by = by] = [rows EXCEPT ![n] = [rows[n] EXCEPT !.by = by]]
  OBVIOUS
<1> QED
  BY <1>1, <1>2, RowReplaced

LEMMA RowLoaded ==
  ASSUME NEW rows \in [Nodes -> NodeRow], NEW n \in Nodes, NEW load \in Nat
  PROVE  [rows EXCEPT ![n].load = load, ![n].by = None] \in [Nodes -> NodeRow]
<1>1. [rows[n] EXCEPT !.load = load, !.by = None] \in NodeRow
  BY DEF NodeRow
<1>2. [rows EXCEPT ![n].load = load, ![n].by = None]
        = [rows EXCEPT ![n] = [rows[n] EXCEPT !.load = load, !.by = None]]
  OBVIOUS
<1> QED
  BY <1>1, <1>2, RowReplaced

LEMMA StepTyped == FleetTypeOK /\ Claims /\ [FleetNext]_fleetVars => FleetTypeOK'
<1> SUFFICES ASSUME FleetTypeOK, Claims, [FleetNext]_fleetVars PROVE FleetTypeOK'
  OBVIOUS
<1>a. call \in [Devices -> CallRow] /\ node \in [Nodes -> NodeRow]
  BY DEF CallRow, NodeRow, FleetTypeOK
<1>b. <<>> \in Seq(Nodes)
  OBVIOUS
<1>1. ASSUME NEW d \in Devices, Count(d) PROVE FleetTypeOK'
  <2>1. call' \in [Devices -> CallRow]
    BY <1>a, <1>b, <1>1, CallStepTyped DEF Count, Steps
  <2> QED
    BY <1>1, <2>1 DEF Count, FleetTypeOK, CallRow
<1>2. ASSUME NEW d \in Devices, Select(d) PROVE FleetTypeOK'
  <2>1. PICK nodes \in SetToSeqs(Candidates) : CallStep(d, "select", "claim", nodes)
    BY <1>2 DEF Select
  <2>2. nodes \in Seq(Nodes)
    BY Candidates1 DEF Candidates
  <2>3. call' \in [Devices -> CallRow]
    BY <1>a, <2>1, <2>2, CallStepTyped DEF Steps
  <2> QED
    BY <1>2, <2>3 DEF Select, FleetTypeOK, CallRow
<1>3. ASSUME NEW d \in Devices, Claim(d) PROVE FleetTypeOK'
  <2> DEFINE n == Head(call[d].nodes)
  <2>1. call[d].nodes \in Seq(Nodes) /\ call[d].nodes # <<>>
    BY <1>3 DEF Claim, FleetTypeOK
  <2>2. n \in Nodes /\ Tail(call[d].nodes) \in Seq(Nodes) /\ <<n>> \in Seq(Nodes)
    BY <2>1
  <2>3. call' \in [Devices -> CallRow]
    <3>1. CASE HasRoom(n)
      BY <1>3, <1>a, <2>2, <3>1, CallStepTyped DEF Claim, Steps
    <3>2. CASE ~HasRoom(n)
      BY <1>3, <1>a, <2>2, <3>2, CallStepTyped DEF Claim, Steps
    <3> QED
      BY <3>1, <3>2
  <2>4. node' \in [Nodes -> NodeRow]
    <3>1. node' = [node EXCEPT ![n].by = d] \/ node' = node
      BY <1>3 DEF Claim
    <3> QED
      BY ONLY <1>a, <2>2, <3>1, RowLocked
  <2> QED
    BY <1>3, <2>3, <2>4 DEF Claim, FleetTypeOK, CallRow, NodeRow
<1>4. ASSUME NEW d \in Devices, NoCapacity(d) PROVE FleetTypeOK'
  <2>1. call' \in [Devices -> CallRow]
    BY <1>a, <1>b, <1>4, CallStepTyped DEF NoCapacity, Steps
  <2> QED
    BY <1>4, <2>1 DEF NoCapacity, FleetTypeOK, CallRow
<1>5. ASSUME NEW d \in Devices, Fail(d) PROVE FleetTypeOK'
  <2>1. call' \in [Devices -> CallRow]
    BY <1>a, <1>b, <1>5, CallStepTyped DEF Fail, Steps
  <2>2. node' \in [Nodes -> NodeRow]
    BY <1>5, <1>a DEF Fail, NodeRow
  <2> QED
    BY <1>5, <2>1, <2>2 DEF Fail, FleetTypeOK, CallRow, NodeRow
<1>6. ASSUME NEW n \in Nodes, NEW c \in Capacities, Register(n, c) PROVE FleetTypeOK'
  <2> DEFINE entry == [node[n] EXCEPT !.status = "active", !.capacity = c]
  <2>1. node' \in [Nodes -> NodeRow]
    <3>1. node' = [node EXCEPT ![n] = entry]
      BY <1>6 DEF Register
    <3>2. entry \in NodeRow
      BY <1>a, FleetAssumption DEF NodeRow, Registered
    <3> QED
      BY ONLY <1>a, <3>1, <3>2, RowReplaced
  <2> QED
    BY <1>6, <2>1 DEF Register, FleetTypeOK, NodeRow
<1>7. ASSUME NEW n \in Nodes, Deregister(n) PROVE FleetTypeOK'
  <2>1. node' \in [Nodes -> NodeRow]
    BY <1>7, <1>a DEF Deregister, NodeRow
  <2> QED
    BY <1>7, <2>1 DEF Deregister, FleetTypeOK, NodeRow
<1>8. ASSUME NEW n \in Nodes, NEW s \in Registered \cup {None},
             NEW c \in Capacities \cup {None}, PatchRead(n, s, c)
      PROVE FleetTypeOK'
  BY <1>8 DEF PatchRead, FleetTypeOK
<1>9. CASE PatchCommit
  <2> DEFINE n == patch.node
             status == IF patch.status = None THEN node[n].status ELSE patch.status
             capacity == IF patch.capacity = None THEN node[n].capacity ELSE patch.capacity
  <2>1. n \in Nodes /\ status \in Registered \cup {"absent", "gone"} /\ capacity \in Nat
    BY <1>9, <1>a, FleetAssumption DEF PatchCommit, NodeRow, FleetTypeOK
  <2>2. node' = [node EXCEPT ![n].status = status, ![n].capacity = capacity]
    BY <1>9 DEF PatchCommit
  <2>3. node' \in [Nodes -> NodeRow]
    <3> HIDE DEF status, capacity, n
    <3> QED
      BY <1>a, <2>1, <2>2 DEF NodeRow
  <2> QED
    BY <1>9, <2>1, <2>3 DEF PatchCommit, FleetTypeOK, NodeRow
<1>10. CASE PatchFails
  BY <1>10 DEF PatchFails, FleetTypeOK
<1>11. ASSUME NEW d \in Devices, Commit(d) PROVE FleetTypeOK'
  <2>1. PICK n \in Nodes : call[d].nodes = <<n>>
    BY <1>11 DEF Commit, CallStep, Claims
  <2>2. Head(call[d].nodes) = n
    BY <2>1
  <2>3. call' \in [Devices -> CallRow]
    BY <1>a, <1>b, <1>11, CallStepTyped DEF Commit, Steps
  <2>4. node' \in [Nodes -> NodeRow]
    <3>1. node' = node \/ node' = [node EXCEPT ![n].load = node[n].load + 1, ![n].by = None]
      BY <1>11, <2>2 DEF Commit
    <3>2. node[n].load + 1 \in Nat
      BY <1>a DEF NodeRow
    <3> QED
      BY ONLY <1>a, <3>1, <3>2, RowLoaded
  <2> QED
    BY <1>11, <2>2, <2>3, <2>4 DEF Commit, FleetTypeOK, CallRow, NodeRow
<1>12. ASSUME NEW d \in Devices, Delete(d) PROVE FleetTypeOK'
  BY <1>12 DEF Delete, FleetTypeOK
<1>13. CASE UNCHANGED fleetVars
  BY <1>13 DEF fleetVars, FleetTypeOK
<1> QED
  BY <1>1, <1>2, <1>3, <1>4, <1>5, <1>6, <1>7, <1>8, <1>9, <1>10, <1>11, <1>12, <1>13
     DEF FleetNext, Assignment, Administration

\* Locks and claims go together: only Claim takes a row, only Commit and Fail free it.
LEMMA StepOwned ==
  FleetTypeOK /\ Locks /\ Claims /\ [FleetNext]_fleetVars => Locks' /\ Claims'
<1> SUFFICES ASSUME FleetTypeOK, Locks, Claims, [FleetNext]_fleetVars PROVE Locks' /\ Claims'
  OBVIOUS
<1>0. /\ None \notin Devices
      /\ \A d \in Devices : call[d].nodes \in Seq(Nodes)
      /\ DOMAIN call = Devices /\ DOMAIN node = Nodes
  BY FleetAssumption DEF FleetTypeOK
<1>1. ASSUME NEW d \in Devices, Count(d) PROVE Locks' /\ Claims'
  BY <1>0, <1>1 DEF Count, CallStep, Locks, Claims
<1>2. ASSUME NEW d \in Devices, Select(d) PROVE Locks' /\ Claims'
  BY <1>0, <1>2 DEF Select, CallStep, Locks, Claims
<1>3. ASSUME NEW d \in Devices, Claim(d) PROVE Locks' /\ Claims'
  <2> DEFINE n == Head(call[d].nodes)
  <2>1. n \in Nodes /\ node[n].by = None /\ call[d].step = "claim"
    BY <1>0, <1>3 DEF Claim, CallStep
  <2>2. CASE HasRoom(n)
    <3>1. /\ call' = [call EXCEPT ![d] = [step |-> "commit", nodes |-> <<n>>]]
          /\ node' = [node EXCEPT ![n].by = d] /\ squeezed' = squeezed
      BY <1>3, <2>2 DEF Claim, CallStep
    <3>2. Locks'
      <4> SUFFICES ASSUME NEW m \in Nodes, NEW e \in Devices, node'[m].by = e
                   PROVE  call'[e].step = "commit" /\ call'[e].nodes = <<m>>
        BY DEF Locks
      <4>1. CASE m = n
        BY <1>0, <2>1, <3>1, <4>1 DEF FleetTypeOK
      <4>2. CASE m # n
        <5>1. node[m].by = e
          BY <1>0, <2>1, <3>1, <4>2
        <5>2. call[e].step = "commit" /\ call[e].nodes = <<m>> /\ e # d
          BY <2>1, <5>1 DEF Locks
        <5> QED
          BY <1>0, <3>1, <5>2
      <4> QED
        BY <4>1, <4>2
    <3>3. Claims'
      BY <1>0, <2>1, <2>2, <3>1 DEF Claims, HasRoom, FleetTypeOK
    <3> QED
      BY <3>2, <3>3
  <2>3. CASE ~HasRoom(n)
    BY <1>0, <1>3, <2>1, <2>3 DEF Claim, CallStep, Locks, Claims
  <2> QED
    BY <2>2, <2>3
<1>4. ASSUME NEW d \in Devices, NoCapacity(d) PROVE Locks' /\ Claims'
  BY <1>0, <1>4 DEF NoCapacity, CallStep, Locks, Claims
<1>5. ASSUME NEW d \in Devices, Fail(d) PROVE Locks' /\ Claims'
  <2>1. \A n \in Nodes : node'[n] = IF node[n].by = d THEN [node[n] EXCEPT !.by = None] ELSE node[n]
    BY <1>5 DEF Fail
  <2>2. \A n \in Nodes : node'[n].by = IF node[n].by = d THEN None ELSE node[n].by
    BY <2>1 DEF FleetTypeOK
  <2>3. \A e \in Devices \ {d} : call'[e] = call[e]
    BY <1>0, <1>5 DEF Fail, CallStep
  <2>4. call'[d].step = "failed" /\ squeezed' = squeezed
    BY <1>0, <1>5 DEF Fail, CallStep
  <2>5. Locks'
    <3> SUFFICES ASSUME NEW m \in Nodes, NEW e \in Devices, node'[m].by = e
                 PROVE  call'[e].step = "commit" /\ call'[e].nodes = <<m>>
      BY DEF Locks
    <3>1. node[m].by = e /\ e # d
      BY <1>0, <2>2
    <3>2. call[e].step = "commit" /\ call[e].nodes = <<m>>
      BY <3>1 DEF Locks
    <3> QED
      BY <2>3, <3>1, <3>2
  <2>6. Claims'
    <3> SUFFICES ASSUME NEW e \in Devices, call'[e].step = "commit"
                 PROVE  \E m \in Nodes : /\ call'[e].nodes = <<m>> /\ node'[m].by = e
                                         /\ node'[m].status \in Registered
                                         /\ m \notin squeezed' => node'[m].load < node'[m].capacity
      BY DEF Claims
    <3>1. e # d /\ call'[e] = call[e]
      BY <2>3, <2>4
    <3>2. PICK m \in Nodes : /\ call[e].nodes = <<m>> /\ node[m].by = e
                             /\ node[m].status \in Registered
                             /\ m \notin squeezed => node[m].load < node[m].capacity
      BY <3>1 DEF Claims
    <3>3. node'[m] = node[m]
      BY <2>1, <3>1, <3>2
    <3> QED
      BY <2>4, <3>1, <3>2, <3>3
  <2> QED
    BY <2>5, <2>6
<1>6. ASSUME NEW n \in Nodes, NEW c \in Capacities, Register(n, c) PROVE Locks' /\ Claims'
  <2>1. node[n].status = "absent" /\ node'[n].by = node[n].by
    BY <1>0, <1>6 DEF Register, FleetTypeOK
  <2>2. \A m \in Nodes \ {n} : node'[m] = node[m]
    BY <1>0, <1>6 DEF Register
  <2>3. Locks'
    <3>1. \A m \in Nodes : node'[m].by = node[m].by
      BY <2>1, <2>2
    <3>2. call' = call
      BY <1>6 DEF Register
    <3> QED
      BY <3>1, <3>2 DEF Locks
  <2>4. \A m \in Nodes : node[m].status \in Registered => node'[m] = node[m]
    BY <2>1, <2>2 DEF Registered
  <2>5. call' = call /\ squeezed' = squeezed
    BY <1>6 DEF Register
  <2>6. Claims'
    BY <2>4, <2>5 DEF Claims
  <2> QED
    BY <2>3, <2>6
<1>7. ASSUME NEW n \in Nodes, Deregister(n) PROVE Locks' /\ Claims'
  <2>1. node[n].by = None /\ node'[n].by = None
    BY <1>0, <1>7 DEF Deregister
  <2>2. \A m \in Nodes \ {n} : node'[m] = node[m]
    BY <1>0, <1>7 DEF Deregister
  <2> QED
    BY <1>0, <1>7, <2>1, <2>2 DEF Deregister, Locks, Claims
<1>8. ASSUME NEW n \in Nodes, NEW s \in Registered \cup {None},
             NEW c \in Capacities \cup {None}, PatchRead(n, s, c)
      PROVE Locks' /\ Claims'
  BY <1>8 DEF PatchRead, Locks, Claims
<1>9. CASE PatchCommit
  <2> DEFINE n == patch.node
  <2>1. n \in Nodes /\ node[n].by = None /\ node'[n].by = None
    BY <1>0, <1>9 DEF PatchCommit, FleetTypeOK
  <2>2. \A m \in Nodes \ {n} : node'[m] = node[m] /\ (m \in squeezed' <=> m \in squeezed)
    BY <1>0, <1>9 DEF PatchCommit
  <2>3. call' = call
    BY <1>9 DEF PatchCommit
  <2> HIDE DEF n
  <2> QED
    BY <1>0, <2>1, <2>2, <2>3 DEF Locks, Claims
<1>10. CASE PatchFails
  BY <1>10 DEF PatchFails, Locks, Claims
<1>11. ASSUME NEW d \in Devices, Commit(d) PROVE Locks' /\ Claims'
  <2>1. PICK n \in Nodes : call[d].nodes = <<n>> /\ node[n].by = d
    BY <1>11 DEF Commit, CallStep, Claims
  <2>2. \A m \in Nodes \ {n} : node'[m] = node[m] /\ node[m].by # d
    BY <1>0, <1>11, <2>1 DEF Commit, Locks
  <2>3. node'[n].by = None
    BY <1>0, <1>11, <2>1 DEF Commit, FleetTypeOK
  <2>4. \A e \in Devices \ {d} : call'[e] = call[e]
    BY <1>0, <1>11 DEF Commit, CallStep
  <2>5. call'[d].step = "done" /\ squeezed' = squeezed
    BY <1>0, <1>11 DEF Commit, CallStep
  <2>6. Locks'
    <3> SUFFICES ASSUME NEW m \in Nodes, NEW e \in Devices, node'[m].by = e
                 PROVE  call'[e].step = "commit" /\ call'[e].nodes = <<m>>
      BY DEF Locks
    <3>1. m # n /\ e # d /\ node[m].by = e
      BY <1>0, <2>2, <2>3
    <3>2. call[e].step = "commit" /\ call[e].nodes = <<m>>
      BY <3>1 DEF Locks
    <3> QED
      BY <2>4, <3>1, <3>2
  <2>7. Claims'
    BY <2>1, <2>2, <2>4, <2>5 DEF Claims
  <2> QED
    BY <2>6, <2>7
<1>12. ASSUME NEW d \in Devices, Delete(d) PROVE Locks' /\ Claims'
  BY <1>12 DEF Delete, Locks, Claims
<1>13. CASE UNCHANGED fleetVars
  BY <1>13 DEF fleetVars, Locks, Claims
<1> QED
  BY <1>1, <1>2, <1>3, <1>4, <1>5, <1>6, <1>7, <1>8, <1>9, <1>10, <1>11, <1>12, <1>13
     DEF FleetNext, Assignment, Administration

-------------------------------------------------------------------------------
LEMMA ClaimEffect ==
  ASSUME FleetTypeOK, NEW d \in Devices, Claim(d)
  PROVE  \A m \in Nodes : /\ node'[m].status = node[m].status
                          /\ node'[m].load = node[m].load
                          /\ node'[m].capacity = node[m].capacity
<1> DEFINE n == Head(call[d].nodes)
<1>1. node' = node \/ node' = [node EXCEPT ![n].by = d]
  BY DEF Claim
<1>2. node \in [Nodes -> NodeRow]
  BY DEF FleetTypeOK, NodeRow
<1> HIDE DEF n
<1> QED
  BY <1>1, <1>2 DEF NodeRow

LEMMA PatchEffect ==
  ASSUME FleetTypeOK, PatchCommit
  PROVE  /\ patch.node \in Nodes
         /\ node[patch.node].status \in Registered /\ node'[patch.node].status \in Registered
         /\ node'[patch.node].load = node[patch.node].load
         /\ node'[patch.node].capacity =
              IF patch.capacity = None THEN node[patch.node].capacity ELSE patch.capacity
         /\ \A m \in Nodes \ {patch.node} : node'[m] = node[m]
<1> DEFINE n == patch.node
           status == IF patch.status = None THEN node[n].status ELSE patch.status
           capacity == IF patch.capacity = None THEN node[n].capacity ELSE patch.capacity
<1>1. n \in Nodes /\ node[n].status \in Registered /\ status \in Registered
  BY DEF PatchCommit, FleetTypeOK
<1>2. node' = [node EXCEPT ![n].status = status, ![n].capacity = capacity]
  BY DEF PatchCommit
<1>3. node[n] \in NodeRow /\ DOMAIN node = Nodes
  BY <1>1 DEF FleetTypeOK, NodeRow
<1>4. /\ node'[n].status = status /\ node'[n].load = node[n].load
      /\ node'[n].capacity = capacity
      /\ \A m \in Nodes \ {n} : node'[m] = node[m]
  <2> HIDE DEF status, capacity, n
  <2> QED
    BY <1>1, <1>2, <1>3 DEF NodeRow
<1> QED
  BY <1>1, <1>4

LEMMA StepBound ==
  FleetTypeOK /\ Claims /\ Bindings /\ [FleetNext]_fleetVars => Bindings'
<1> SUFFICES ASSUME FleetTypeOK, Claims, Bindings, [FleetNext]_fleetVars PROVE Bindings'
  OBVIOUS
<1>0. DOMAIN call = Devices /\ DOMAIN node = Nodes /\ DOMAIN home = Devices /\ None \notin Nodes
  BY FleetAssumption DEF FleetTypeOK
<1>1. ASSUME NEW d \in Devices, Count(d) \/ Select(d) \/ NoCapacity(d) \/ Delete(d)
      PROVE  Bindings'
  BY <1>0, <1>1 DEF Count, Select, NoCapacity, Delete, CallStep, Bindings
<1>2. ASSUME NEW d \in Devices, Claim(d) PROVE Bindings'
  <2>2. \A m \in Nodes : node'[m].status = node[m].status /\ node'[m].load = node[m].load
    BY <1>2, ClaimEffect
  <2>3. call[d].step = "claim" /\ home' = home /\ \A e \in Devices \ {d} : call'[e] = call[e]
    BY <1>0, <1>2 DEF Claim, CallStep
  <2> QED
    BY <2>2, <2>3 DEF Bindings
<1>3. ASSUME NEW d \in Devices, Fail(d) PROVE Bindings'
  <2>1. \A m \in Nodes : node'[m].status = node[m].status /\ node'[m].load = node[m].load
    BY <1>3 DEF Fail, FleetTypeOK
  <2>2. call[d].step \in Underway /\ home' = home
        /\ \A e \in Devices \ {d} : call'[e] = call[e]
    BY <1>0, <1>3 DEF Fail, CallStep
  <2> QED
    BY <2>1, <2>2 DEF Bindings, Underway
<1>4. ASSUME NEW n \in Nodes, NEW c \in Capacities, Register(n, c) PROVE Bindings'
  <2>1. node'[n].status = "active" /\ \A m \in Nodes \ {n} : node'[m] = node[m]
    BY <1>0, <1>4 DEF Register, FleetTypeOK
  <2> QED
    BY <1>4, <2>1 DEF Register, Bindings
<1>5. ASSUME NEW n \in Nodes, Deregister(n) PROVE Bindings'
  <2>1. node'[n].status = "gone" /\ \A m \in Nodes \ {n} : node'[m] = node[m]
    BY <1>0, <1>5 DEF Deregister
  <2>2. call' = call /\ \A d \in Devices : home'[d] = home[d] \/ home'[d] = None
    BY <1>5 DEF Deregister
  <2> QED
    BY <1>0, <2>1, <2>2 DEF Bindings
<1>6. ASSUME NEW n \in Nodes, NEW s \in Registered \cup {None},
             NEW c \in Capacities \cup {None}, PatchRead(n, s, c)
      PROVE Bindings'
  BY <1>6 DEF PatchRead, Bindings
<1>7. CASE PatchCommit
  <2> DEFINE n == patch.node
  <2>1. /\ n \in Nodes /\ node[n].status \in Registered
        /\ node'[n].status \in Registered
        /\ \A m \in Nodes \ {n} : node'[m] = node[m]
    BY <1>7, PatchEffect
  <2>2. call' = call /\ home' = home
    BY <1>7 DEF PatchCommit
  <2> HIDE DEF n
  <2> QED
    BY <2>1, <2>2 DEF Bindings, Registered
<1>8. CASE PatchFails
  BY <1>8 DEF PatchFails, Bindings
<1>9. ASSUME NEW d \in Devices, Commit(d) PROVE Bindings'
  <2>1. PICK n \in Nodes : call[d].nodes = <<n>> /\ node[n].status \in Registered
    BY <1>9 DEF Commit, CallStep, Claims
  <2>2. /\ \A m \in Nodes \ {n} : node'[m] = node[m]
        /\ node'[n].status = node[n].status
        /\ home' = [home EXCEPT ![d] = n]
    BY <1>0, <1>9, <2>1 DEF Commit, FleetTypeOK
  <2>3. call'[d].step = "done" /\ \A e \in Devices \ {d} : call'[e] = call[e]
    BY <1>0, <1>9 DEF Commit, CallStep
  <2> QED
    BY <1>0, <2>1, <2>2, <2>3 DEF Bindings, Registered
<1>10. CASE UNCHANGED fleetVars
  BY <1>10 DEF fleetVars, Bindings
<1> QED
  BY <1>1, <1>2, <1>3, <1>4, <1>5, <1>6, <1>7, <1>8, <1>9, <1>10
     DEF FleetNext, Assignment, Administration

LEMMA StepPatch == FleetTypeOK /\ PatchChecked /\ [FleetNext]_fleetVars => PatchChecked'
<1> SUFFICES ASSUME FleetTypeOK, PatchChecked, [FleetNext]_fleetVars PROVE PatchChecked'
  OBVIOUS
<1>1. ASSUME NEW n \in Nodes, NEW s \in Registered \cup {None},
             NEW c \in Capacities \cup {None}, PatchRead(n, s, c)
      PROVE PatchChecked'
  <2>1. c # None => c >= node[n].load
    BY <1>1 DEF PatchRead
  <2>2. c # None => c \in Nat
    BY FleetAssumption
  <2>3. node[n].load \in Nat
    BY DEF FleetTypeOK
  <2>4. patch'.capacity = c /\ patch'.load = node[n].load
    BY <1>1 DEF PatchRead
  <2> QED
    BY <2>1, <2>2, <2>3, <2>4 DEF PatchChecked
<1>2. CASE patch' = patch \/ patch' = None
  BY <1>2 DEF PatchChecked
<1>3. ASSUME NEW d \in Devices,
             Count(d) \/ Select(d) \/ Claim(d) \/ NoCapacity(d) \/ Fail(d) \/ Commit(d) \/ Delete(d)
      PROVE  patch' = patch
  BY <1>3 DEF Count, Select, Claim, NoCapacity, Fail, Commit, Delete
<1>4. ASSUME NEW n \in Nodes, NEW c \in Capacities, Register(n, c) \/ Deregister(n)
      PROVE  patch' = patch
  BY <1>4 DEF Register, Deregister
<1>5. ASSUME NEW n \in Nodes, Deregister(n) PROVE patch' = patch
  BY <1>5 DEF Deregister
<1>6. PatchCommit \/ PatchFails => patch' = None
  BY DEF PatchCommit, PatchFails
<1>7. UNCHANGED fleetVars => patch' = patch
  BY DEF fleetVars
<1> QED
  BY <1>1, <1>2, <1>3, <1>4, <1>5, <1>6, <1>7 DEF FleetNext, Assignment, Administration

\* A row keeps its room through every step but a resize and a commit, and a resize
\* that was checked against the current load leaves room.
LEMMA StepCapacity ==
  FleetTypeOK /\ Claims /\ Bindings /\ PatchChecked /\ CapacityUnlessSqueezed
    /\ [FleetNext]_fleetVars => CapacityUnlessSqueezed'
<1> SUFFICES ASSUME FleetTypeOK, Claims, Bindings, PatchChecked, CapacityUnlessSqueezed,
                    [FleetNext]_fleetVars
             PROVE  CapacityUnlessSqueezed'
  OBVIOUS
<1>0. DOMAIN call = Devices /\ DOMAIN node = Nodes
  BY DEF FleetTypeOK
<1> DEFINE Same == /\ squeezed' = squeezed
                   /\ \A m \in Nodes : node'[m].load = node[m].load
                                        /\ node'[m].capacity = node[m].capacity
<1>1. Same => CapacityUnlessSqueezed'
  BY DEF CapacityUnlessSqueezed
<1>2. ASSUME NEW d \in Devices, Count(d) \/ Select(d) \/ NoCapacity(d) \/ Delete(d)
      PROVE  Same
  BY <1>2 DEF Count, Select, NoCapacity, Delete
<1>3. ASSUME NEW d \in Devices, Claim(d) PROVE Same
  BY <1>3, ClaimEffect DEF Claim
<1>4. ASSUME NEW d \in Devices, Fail(d) PROVE Same
  BY <1>4 DEF Fail, FleetTypeOK
<1>5. ASSUME NEW n \in Nodes, NEW c \in Capacities, Register(n, c)
      PROVE  CapacityUnlessSqueezed'
  <2>1. node'[n].load = 0 /\ node'[n].capacity = c
    BY <1>0, <1>5 DEF Register, Bindings, FleetTypeOK
  <2>2. c \in Nat
    BY FleetAssumption
  <2>3. squeezed' = squeezed /\ \A m \in Nodes \ {n} : node'[m] = node[m]
    BY <1>0, <1>5 DEF Register
  <2> QED
    BY <2>1, <2>2, <2>3 DEF CapacityUnlessSqueezed
<1>6. ASSUME NEW n \in Nodes, Deregister(n) PROVE CapacityUnlessSqueezed'
  <2>1. node'[n].load = 0 /\ node'[n].capacity = 0 /\ squeezed' = squeezed
        /\ \A m \in Nodes \ {n} : node'[m] = node[m]
    BY <1>0, <1>6 DEF Deregister
  <2> QED
    BY <2>1 DEF CapacityUnlessSqueezed
<1>7. CASE PatchCommit
  <2> DEFINE n == patch.node
  <2>1. /\ n \in Nodes /\ node'[n].load = node[n].load
        /\ node'[n].capacity = IF patch.capacity = None THEN node[n].capacity ELSE patch.capacity
        /\ \A m \in Nodes \ {n} : node'[m] = node[m]
    BY <1>7, PatchEffect
  <2>2. /\ squeezed \subseteq squeezed'
        /\ patch.capacity # None /\ node[n].load # patch.load => n \in squeezed'
    BY <1>7 DEF PatchCommit
  <2>3. patch.capacity # None => patch.load <= patch.capacity
    BY <1>7 DEF PatchCommit, PatchChecked
  <2> HIDE DEF n
  <2> QED
    BY <2>1, <2>2, <2>3 DEF CapacityUnlessSqueezed
<1>8. ASSUME NEW d \in Devices, Commit(d) PROVE CapacityUnlessSqueezed'
  <2>1. PICK n \in Nodes : /\ call[d].nodes = <<n>>
                           /\ n \notin squeezed => node[n].load < node[n].capacity
    BY <1>8 DEF Commit, CallStep, Claims
  <2>2. /\ \A m \in Nodes \ {n} : node'[m] = node[m]
        /\ node'[n].load = node[n].load + 1 /\ node'[n].capacity = node[n].capacity
        /\ squeezed' = squeezed
    BY <1>0, <1>8, <2>1 DEF Commit, FleetTypeOK
  <2>3. node[n].load \in Nat /\ node[n].capacity \in Nat
    BY DEF FleetTypeOK
  <2> QED
    BY <2>1, <2>2, <2>3 DEF CapacityUnlessSqueezed
<1>9. ASSUME NEW n \in Nodes, NEW s \in Registered \cup {None},
             NEW c \in Capacities \cup {None}, PatchRead(n, s, c)
      PROVE Same
  BY <1>9 DEF PatchRead
<1>10. CASE PatchFails
  BY <1>1, <1>10 DEF PatchFails
<1>11. CASE UNCHANGED fleetVars
  BY <1>1, <1>11 DEF fleetVars
<1> QED
  BY <1>1, <1>2, <1>3, <1>4, <1>5, <1>6, <1>7, <1>8, <1>9, <1>10, <1>11
     DEF FleetNext, Assignment, Administration

-------------------------------------------------------------------------------
\* Only a commit binds a device, and it counts; a deregistration clears its node.
LEMMA StepLoads ==
  FleetTypeOK /\ Claims /\ Bindings /\ LoadCountsProvisions /\ [FleetNext]_fleetVars
    => LoadCountsProvisions'
<1> SUFFICES ASSUME FleetTypeOK, Claims, Bindings, LoadCountsProvisions, [FleetNext]_fleetVars
             PROVE  LoadCountsProvisions'
  OBVIOUS
<1>0. DOMAIN call = Devices /\ DOMAIN node = Nodes /\ DOMAIN home = Devices /\ None \notin Nodes
  BY FleetAssumption DEF FleetTypeOK
<1> DEFINE Same == /\ home' = home
                   /\ \A m \in Nodes : node'[m].load = node[m].load
                        /\ (node'[m].status \in Registered => node[m].status \in Registered)
<1>1. Same => LoadCountsProvisions'
  BY DEF LoadCountsProvisions
<1>2. ASSUME NEW d \in Devices, Count(d) \/ Select(d) \/ NoCapacity(d) \/ Delete(d)
      PROVE  Same
  BY <1>2 DEF Count, Select, NoCapacity, Delete
<1>3. ASSUME NEW d \in Devices, Claim(d) PROVE Same
  BY <1>3, ClaimEffect DEF Claim
<1>4. ASSUME NEW d \in Devices, Fail(d) PROVE Same
  BY <1>4 DEF Fail, FleetTypeOK
<1>5. ASSUME NEW n \in Nodes, NEW c \in Capacities, Register(n, c)
      PROVE  LoadCountsProvisions'
  <2>1. node'[n].load = 0 /\ {d \in Devices : home[d] = n} = {}
    BY <1>0, <1>5 DEF Register, Bindings, FleetTypeOK
  <2>2. home' = home /\ \A m \in Nodes \ {n} : node'[m] = node[m]
    BY <1>0, <1>5 DEF Register
  <2> QED
    BY <2>1, <2>2, FS_EmptySet DEF LoadCountsProvisions
<1>6. ASSUME NEW n \in Nodes, Deregister(n) PROVE LoadCountsProvisions'
  <2>1. node'[n].status = "gone" /\ \A m \in Nodes \ {n} : node'[m] = node[m]
    BY <1>0, <1>6 DEF Deregister
  <2>2. ASSUME NEW m \in Nodes \ {n}
        PROVE  {d \in Devices : home'[d] = m} = {d \in Devices : home[d] = m}
    BY <1>0, <1>6 DEF Deregister
  <2> QED
    BY <2>1, <2>2 DEF LoadCountsProvisions, Registered
<1>7. CASE PatchCommit
  <2>1. Same
    BY <1>7, PatchEffect DEF PatchCommit
  <2> QED
    BY <1>1, <2>1
<1>8. ASSUME NEW d \in Devices, Commit(d) PROVE LoadCountsProvisions'
  <2>1. PICK n \in Nodes : call[d].nodes = <<n>> /\ node[n].status \in Registered
    BY <1>8 DEF Commit, CallStep, Claims
  <2>2. /\ \A m \in Nodes \ {n} : node'[m] = node[m]
        /\ node'[n].load = node[n].load + 1
        /\ home' = [home EXCEPT ![d] = n]
    BY <1>0, <1>8, <2>1 DEF Commit, FleetTypeOK
  <2>3. home[d] = None
    BY <1>8 DEF Commit, CallStep, Bindings
  <2>4. ASSUME NEW m \in Nodes \ {n}
        PROVE  {e \in Devices : home'[e] = m} = {e \in Devices : home[e] = m}
    BY <1>0, <2>2, <2>3
  <2> DEFINE Before == {e \in Devices : home[e] = n}
  <2>5. {e \in Devices : home'[e] = n} = Before \cup {d} /\ d \notin Before
    BY <1>0, <2>2, <2>3
  <2>6. IsFiniteSet(Before)
    BY FleetAssumption, FS_Subset
  <2>7. Cardinality(Before \cup {d}) = Cardinality(Before) + 1
    BY <2>5, <2>6, FS_AddElement
  <2>8. node[n].load = Cardinality(Before)
    BY <2>1 DEF LoadCountsProvisions
  <2>9. node'[n].load = Cardinality({e \in Devices : home'[e] = n})
    BY <2>2, <2>5, <2>7, <2>8
  <2> QED
    BY <2>2, <2>4, <2>9 DEF LoadCountsProvisions
<1>9. ASSUME NEW n \in Nodes, NEW s \in Registered \cup {None},
             NEW c \in Capacities \cup {None}, PatchRead(n, s, c)
      PROVE Same
  BY <1>9 DEF PatchRead
<1>10. CASE PatchFails
  BY <1>1, <1>10 DEF PatchFails
<1>11. CASE UNCHANGED fleetVars
  BY <1>1, <1>11 DEF fleetVars
<1> QED
  BY <1>1, <1>2, <1>3, <1>4, <1>5, <1>6, <1>7, <1>8, <1>9, <1>10, <1>11
     DEF FleetNext, Assignment, Administration

\* A commit without a race is the last of the calls that counted.
LEMMA StepLimit ==
  FleetTypeOK /\ CountsAreCurrent /\ LimitUnlessRaced /\ [FleetNext]_fleetVars
    => CountsAreCurrent' /\ LimitUnlessRaced'
<1> SUFFICES ASSUME FleetTypeOK, CountsAreCurrent, LimitUnlessRaced, [FleetNext]_fleetVars
             PROVE  CountsAreCurrent' /\ LimitUnlessRaced'
  OBVIOUS
<1> DEFINE Good == CountsAreCurrent' /\ LimitUnlessRaced'
<1>0. DOMAIN call = Devices
  BY DEF FleetTypeOK
<1>1. IsFiniteSet(exists) /\ Cardinality(exists) \in Nat
  BY FleetAssumption, FS_Subset, FS_CardinalityType DEF FleetTypeOK
<1>2. ASSUME NEW d \in Devices, Count(d) PROVE Good
  BY <1>0, <1>2 DEF Count, CallStep, CountsAreCurrent, LimitUnlessRaced, Underway
<1>3. ASSUME NEW d \in Devices, exists' = exists, raced' = raced, call[d].step \in Underway,
             \A e \in Devices \ {d} : call'[e] = call[e]
      PROVE  Good
  BY <1>3 DEF CountsAreCurrent, LimitUnlessRaced
<1>4. ASSUME NEW d \in Devices, Select(d) \/ Claim(d) \/ NoCapacity(d) \/ Fail(d) PROVE Good
  <2>1. exists' = exists /\ raced' = raced /\ call[d].step \in Underway
    BY <1>4 DEF Select, Claim, NoCapacity, Fail, CallStep, Underway
  <2>2. \A e \in Devices \ {d} : call'[e] = call[e]
    BY <1>0, <1>4 DEF Select, Claim, NoCapacity, Fail, CallStep
  <2> QED
    BY <1>3, <2>1, <2>2
<1>5. ASSUME exists' = exists, raced' = raced, call' = call PROVE Good
  BY <1>5 DEF CountsAreCurrent, LimitUnlessRaced
<1>6. ASSUME NEW n \in Nodes, NEW s \in Registered \cup {None},
             NEW c \in Capacities \cup {None}, PatchRead(n, s, c) \/ Deregister(n)
      PROVE Good
  BY <1>5, <1>6 DEF PatchRead, Deregister
<1>7. ASSUME NEW n \in Nodes, NEW c \in Capacities, Register(n, c) PROVE Good
  BY <1>5, <1>7 DEF Register
<1>8. CASE PatchCommit \/ PatchFails
  BY <1>5, <1>8 DEF PatchCommit, PatchFails
<1>9. ASSUME NEW d \in Devices, Commit(d) PROVE Good
  <2>1. /\ exists' = exists \cup {d} /\ call[d].step = "commit" /\ call'[d].step = "done"
        /\ \A e \in Devices \ {d} : call'[e] = call[e]
        /\ raced' = (raced \/ \E e \in Devices \ {d} : call[e].step \in Underway)
    BY <1>0, <1>9 DEF Commit, CallStep
  <2>2. raced' \/ Cardinality(exists) < MaxDevices
    BY <2>1 DEF CountsAreCurrent, Underway
  <2>3. Cardinality(exists \cup {d}) =
          IF d \in exists THEN Cardinality(exists) ELSE Cardinality(exists) + 1
    BY <1>1, FS_AddElement
  <2>4. Cardinality(exists') \in Nat /\ Cardinality(exists') <= Cardinality(exists) + 1
    BY <1>1, <2>1, <2>3
  <2>5. LimitUnlessRaced'
    BY <1>1, <2>2, <2>4, FleetAssumption DEF LimitUnlessRaced
  <2>6. CountsAreCurrent'
    BY <2>1 DEF CountsAreCurrent, Underway
  <2> QED
    BY <2>5, <2>6
<1>10. ASSUME NEW d \in Devices, Delete(d) PROVE Good
  <2>1. exists' = exists \ {d} /\ d \in exists /\ call' = call /\ raced' = raced
    BY <1>10 DEF Delete
  <2>2. Cardinality(exists') = Cardinality(exists) - 1
    BY <1>1, <2>1, FS_RemoveElement
  <2> QED
    BY <1>1, <2>1, <2>2, FleetAssumption DEF CountsAreCurrent, LimitUnlessRaced
<1>11. CASE UNCHANGED fleetVars
  BY <1>5, <1>11 DEF fleetVars
<1> QED
  BY <1>2, <1>4, <1>6, <1>7, <1>8, <1>9, <1>10, <1>11 DEF FleetNext, Assignment, Administration

-------------------------------------------------------------------------------
\* Candidates were active when they were selected; whoever drains one records the calls
\* that still hold it.
LEMMA StepSelections ==
  FleetTypeOK /\ Claims /\ SelectionsAreActive /\ [FleetNext]_fleetVars => SelectionsAreActive'
<1> SUFFICES ASSUME FleetTypeOK, Claims, SelectionsAreActive, [FleetNext]_fleetVars
             PROVE  SelectionsAreActive'
  OBVIOUS
<1>0. DOMAIN call = Devices /\ DOMAIN node = Nodes
      /\ \A d \in Devices : call[d].nodes \in Seq(Nodes)
  BY DEF FleetTypeOK
<1> DEFINE Fine(m) == node[m].status \in {"active", "gone"}
           Lasting == /\ overtaken' = overtaken
                      /\ \A m \in Nodes : Fine(m) => node'[m].status \in {"active", "gone"}
<1>1. ASSUME Lasting, NEW d \in Devices, call'[d].nodes = call[d].nodes
      PROVE  d \in overtaken' \/ \A i \in DOMAIN call'[d].nodes :
                                   node'[call'[d].nodes[i]].status \in {"active", "gone"}
  <2>1. \A i \in DOMAIN call[d].nodes : call[d].nodes[i] \in Nodes
    BY <1>0
  <2> QED
    BY <1>1, <2>1 DEF SelectionsAreActive
<1>2. Lasting /\ call' = call => SelectionsAreActive'
  BY <1>1 DEF SelectionsAreActive
<1>3. ASSUME Lasting, NEW d \in Devices, \A e \in Devices \ {d} : call'[e] = call[e],
             \A i \in DOMAIN call'[d].nodes :
               d \in overtaken \/ node'[call'[d].nodes[i]].status \in {"active", "gone"}
      PROVE  SelectionsAreActive'
  BY <1>1, <1>3 DEF SelectionsAreActive
<1>4. ASSUME NEW d \in Devices, Count(d) \/ NoCapacity(d) PROVE SelectionsAreActive'
  <2>1. Lasting /\ call'[d].nodes = <<>> /\ \A e \in Devices \ {d} : call'[e] = call[e]
    BY <1>0, <1>4 DEF Count, NoCapacity, CallStep
  <2> QED
    BY <1>3, <2>1
<1>5. ASSUME NEW d \in Devices, Fail(d) PROVE SelectionsAreActive'
  <2>1. Lasting
    BY <1>5 DEF Fail, FleetTypeOK
  <2>2. call'[d].nodes = <<>> /\ \A e \in Devices \ {d} : call'[e] = call[e]
    BY <1>0, <1>5 DEF Fail, CallStep
  <2> QED
    BY <1>3, <2>1, <2>2
<1>6. ASSUME NEW d \in Devices, Select(d) PROVE SelectionsAreActive'
  <2>1. PICK nodes \in SetToSeqs(Candidates) : CallStep(d, "select", "claim", nodes)
    BY <1>6 DEF Select
  <2>2. \A i \in DOMAIN nodes : nodes[i] \in Candidates
    BY Candidates1 DEF Candidates
  <2>3. Lasting /\ node' = node
    BY <1>6 DEF Select
  <2>4. call'[d].nodes = nodes /\ \A e \in Devices \ {d} : call'[e] = call[e]
    BY <1>0, <2>1 DEF CallStep
  <2> QED
    BY <1>3, <2>2, <2>3, <2>4 DEF Candidates
<1>7. ASSUME NEW d \in Devices, Claim(d) PROVE SelectionsAreActive'
  <2> DEFINE s == call[d].nodes
             n == Head(s)
  <2>1. Lasting
    BY <1>7, ClaimEffect DEF Claim
  <2>2. \A e \in Devices \ {d} : call'[e] = call[e]
    BY <1>0, <1>7 DEF Claim, CallStep
  <2>3. s \in Seq(Nodes) /\ s # <<>> /\ call'[d].nodes \in {<<n>>, Tail(s)}
    BY <1>0, <1>7 DEF Claim, CallStep
  <2>4. ASSUME NEW i \in DOMAIN call'[d].nodes
        PROVE  \E j \in DOMAIN s : call'[d].nodes[i] = s[j] /\ s[j] \in Nodes
    <3>1. CASE call'[d].nodes = <<n>>
      <4>1. call'[d].nodes[i] = s[1] /\ 1 \in DOMAIN s /\ s[1] \in Nodes
        BY <2>3, <3>1
      <4> QED
        BY <4>1
    <3>2. CASE call'[d].nodes = Tail(s)
      <4>1. i + 1 \in DOMAIN s /\ Tail(s)[i] = s[i + 1] /\ s[i + 1] \in Nodes
        BY <2>3, <3>2
      <4> QED
        BY <3>2, <4>1
    <3> QED
      BY <2>3, <3>1, <3>2
  <2>5. \A i \in DOMAIN call'[d].nodes :
          d \in overtaken \/ node'[call'[d].nodes[i]].status \in {"active", "gone"}
    BY <2>1, <2>4 DEF SelectionsAreActive
  <2> QED
    BY <1>3, <2>1, <2>2, <2>5
<1>8. ASSUME NEW d \in Devices, Commit(d) PROVE SelectionsAreActive'
  <2>1. PICK n \in Nodes : call[d].nodes = <<n>>
    BY <1>8 DEF Commit, CallStep, Claims
  <2>2. Lasting
    BY <1>8, <2>1 DEF Commit, FleetTypeOK
  <2>3. call'[d].nodes = <<>> /\ \A e \in Devices \ {d} : call'[e] = call[e]
    BY <1>0, <1>8 DEF Commit, CallStep
  <2> QED
    BY <1>3, <2>2, <2>3
<1>9. ASSUME NEW n \in Nodes, NEW c \in Capacities, Register(n, c) PROVE SelectionsAreActive'
  BY <1>0, <1>2, <1>9 DEF Register, FleetTypeOK
<1>10. ASSUME NEW n \in Nodes, Deregister(n) PROVE SelectionsAreActive'
  BY <1>0, <1>2, <1>10 DEF Deregister
<1>11. CASE PatchCommit
  <2> DEFINE n == patch.node
  <2>1. \A m \in Nodes \ {n} : node'[m] = node[m]
    BY <1>11, PatchEffect
  <2>2. call' = call
    BY <1>11 DEF PatchCommit
  <2>3. CASE patch.status # "disabled"
    <3>1. node'[n].status = IF patch.status = None THEN node[n].status ELSE patch.status
      BY <1>0, <1>11 DEF PatchCommit, FleetTypeOK
    <3>2. patch.status \in {"active", None} /\ overtaken' = overtaken
      BY <1>11, <2>3 DEF PatchCommit, FleetTypeOK, Registered
    <3>3. Lasting
      <4> HIDE DEF n
      <4> QED
        BY <2>1, <3>1, <3>2
    <3> QED
      BY <1>2, <2>2, <3>3
  <2>4. CASE patch.status = "disabled"
    <3>1. overtaken' = overtaken \cup {d \in Devices : n \in ToSet(call[d].nodes)}
      BY <1>11, <2>4 DEF PatchCommit
    <3> SUFFICES ASSUME NEW d \in Devices, d \notin overtaken', NEW i \in DOMAIN call[d].nodes
                 PROVE  node'[call[d].nodes[i]].status \in {"active", "gone"}
      BY <2>2 DEF SelectionsAreActive
    <3>2. call[d].nodes[i] # n /\ d \notin overtaken
      BY <3>1 DEF ToSet
    <3>3. call[d].nodes[i] \in Nodes
      BY <1>0
    <3>4. node'[call[d].nodes[i]] = node[call[d].nodes[i]]
      BY <2>1, <3>2, <3>3
    <3> QED
      BY <3>2, <3>4 DEF SelectionsAreActive
  <2> QED
    BY <2>3, <2>4
<1>12. ASSUME NEW n \in Nodes, NEW s \in Registered \cup {None},
              NEW c \in Capacities \cup {None}, PatchRead(n, s, c)
       PROVE SelectionsAreActive'
  BY <1>2, <1>12 DEF PatchRead
<1>13. ASSUME NEW d \in Devices, Delete(d) PROVE SelectionsAreActive'
  BY <1>2, <1>13 DEF Delete
<1>14. CASE PatchFails
  BY <1>2, <1>14 DEF PatchFails
<1>15. CASE UNCHANGED fleetVars
  BY <1>2, <1>15 DEF fleetVars
<1> QED
  BY <1>4, <1>5, <1>6, <1>7, <1>8, <1>9, <1>10, <1>11, <1>12, <1>13, <1>14, <1>15
     DEF FleetNext, Assignment, Administration

-------------------------------------------------------------------------------
LEMMA StepFleetInv == FleetInv /\ [FleetNext]_fleetVars => FleetInv'
  BY StepTyped, StepOwned, StepBound, StepPatch, StepCapacity, StepLoads, StepLimit,
     StepSelections DEF FleetInv

LEMMA FleetInvariance == FleetSpec => []FleetInv
  BY InitFleetInv, StepFleetInv, PTL DEF FleetSpec

\* Every row, call and PATCH keeps its type, whatever the instance.
THEOREM TypeCorrect == FleetSpec => []FleetTypeOK
  BY FleetInvariance, PTL DEF FleetInv

\* A node's load is the number of provisions that were ever bound to it
\* (assign_node, provision_device, delete_device).
THEOREM LoadsCount == FleetSpec => []LoadCountsProvisions
  BY FleetInvariance, PTL DEF FleetInv

\* The books of the fleet balance: rows keep their types and every node its count.
THEOREM BooksBalance == FleetSpec => []LoadsAddUp
  BY TypeCorrect, LoadsCount, PTL DEF LoadsAddUp

\* No number of concurrent provisions pushes a node past its capacity (assign_node).
THEOREM CapacityHolds == FleetSpec => []CapacityUnlessSqueezed
  BY FleetInvariance, PTL DEF FleetInv

\* The plan's device limit is exceeded only by overlapping provisions
\* (_enforce_device_limit).
THEOREM LimitHolds == FleetSpec => []LimitUnlessRaced
  BY FleetInvariance, PTL DEF FleetInv

\* A drained node receives only devices that had selected it before (update_mqtt_node).
THEOREM DrainsHold == FleetSpec => DrainedUnlessOvertaken
<1> DEFINE D == \A d \in Devices, n \in Nodes :
                  home'[d] = n /\ home[d] # n => node[n].status = "active" \/ d \in overtaken
<1>1. ASSUME FleetInv, [FleetNext]_fleetVars PROVE [D]_fleetVars
  <2>0. None \notin Nodes /\ DOMAIN home = Devices
    BY <1>1, FleetAssumption DEF FleetInv, FleetTypeOK
  <2>1. home' = home => D
    OBVIOUS
  <2>2. ASSUME NEW d \in Devices, Commit(d) PROVE D
    <3>1. PICK n \in Nodes : call[d].nodes = <<n>> /\ node[n].status \in Registered
      BY <1>1, <2>2 DEF Commit, CallStep, FleetInv, Claims
    <3>2. home' = [home EXCEPT ![d] = n]
      BY <2>2, <3>1 DEF Commit
    <3>3. d \in overtaken \/ node[n].status \in {"active", "gone"}
      <4>1. 1 \in DOMAIN call[d].nodes /\ call[d].nodes[1] = n
        BY <3>1
      <4> QED
        BY <1>1, <4>1 DEF FleetInv, SelectionsAreActive
    <3> QED
      BY <2>0, <3>1, <3>2, <3>3 DEF Registered
  <2>3. ASSUME NEW n \in Nodes, Deregister(n) PROVE D
    BY <2>0, <2>3 DEF Deregister
  <2>4. ASSUME NEW d \in Devices,
               Count(d) \/ Select(d) \/ Claim(d) \/ NoCapacity(d) \/ Fail(d) \/ Delete(d)
        PROVE  home' = home
    BY <2>4 DEF Count, Select, Claim, NoCapacity, Fail, Delete
  <2>5. ASSUME NEW n \in Nodes, NEW c \in Capacities, Register(n, c) PROVE home' = home
    BY <2>5 DEF Register
  <2>6. ASSUME NEW n \in Nodes, NEW s \in Registered \cup {None},
               NEW c \in Capacities \cup {None}, PatchRead(n, s, c)
        PROVE home' = home
    BY <2>6 DEF PatchRead
  <2>7. PatchCommit \/ PatchFails => home' = home
    BY DEF PatchCommit, PatchFails
  <2> HIDE DEF D
  <2> QED
    BY <1>1, <2>1, <2>2, <2>3, <2>4, <2>5, <2>6, <2>7 DEF FleetNext, Assignment, Administration
<1> QED
  BY FleetInvariance, <1>1, PTL DEF FleetSpec, DrainedUnlessOvertaken

-------------------------------------------------------------------------------
(* The vault.  Whatever can still write an identity knows a committed row  *)
(* of it; once its deletion has committed without an overlap nothing can   *)
(* write it any more, so what the removals take away stays away.           *)

Born == {d \in Identities : row[d] \in {"committed", "deleted"}}

(* Writers know committed rows, and a deleted row is on its way out.       *)
Causal ==
  /\ \A c \in Collections : vault[c] \subseteq Born
  /\ sync.credentials \cup sync.devices \subseteq Born
  /\ \A op \in late : op.put => op.ids \subseteq Born
  /\ \A d \in Identities : mirror[d] # "none" => d \in Born
  /\ \A d \in Identities : removal[d] # "none" => row[d] = "deleted"

(* Nothing writes a deleted device, unless something did at its deletion.  *)
Quiet ==
  \A d \in Identities \ overlapped : row[d] = "deleted" => ~BeingWritten(d)

(* What has been removed is not there.                                     *)
Removed ==
  \A d \in Identities \ (overlapped \cup unremoved) :
    /\ removal[d] \in {"credential", "done"} => d \notin vault["devices"]
    /\ removal[d] = "done" => d \notin vault["credentials"]

VaultInv == TypeOK /\ Causal /\ Quiet /\ Removed

-------------------------------------------------------------------------------
\* A fault stays within the bound.
LEMMA FaultCounts ==
    ASSUME faults \in 0..MaxFaults, Fault
    PROVE  faults' \in 0..MaxFaults
<1>1. faults \in Nat /\ faults < MaxFaults /\ faults' = faults + 1
  BY FaultsAssumption DEF Fault
<1>2. MaxFaults \in Nat
  BY FaultsAssumption
<1> QED
  BY <1>1, <1>2

\* What a performed operation leaves in the vault, in late and in unremoved.
LEMMA Performed ==
    ASSUME TypeOK, NEW op \in Ops, Perform(op)
    PROVE  /\ vault' \in [Collections -> SUBSET Identities] /\ late' \subseteq Ops
           /\ faults' \in 0..MaxFaults /\ unremoved' \subseteq Identities
           /\ \A c \in Collections :
                vault'[c] \subseteq vault[c] \cup (IF op.put THEN op.ids ELSE {})
           /\ late' \subseteq late \cup {op}
           /\ unremoved \subseteq unremoved'
           /\ ~op.put => \A d \in op.ids : d \in unremoved' \/ d \notin vault'[op.collection]
<1>1. CASE Apply(op) /\ UNCHANGED <<late, faults, unremoved>>
  BY <1>1 DEF TypeOK, Apply, Ops
<1>2. CASE /\ Fault /\ late' \in {late, late \cup {op}} /\ UNCHANGED vault
           /\ unremoved' = IF op.put THEN unremoved ELSE unremoved \cup op.ids
  <2>1. faults' \in 0..MaxFaults
    BY <1>2, FaultCounts DEF TypeOK
  <2> QED
    BY <1>2, <2>1 DEF TypeOK, Ops
<1> QED
  BY <1>1, <1>2 DEF Perform

\* A write of devices that are in the database and not gone, by a call or the sync.
LEMMA PutKeeps ==
    ASSUME VaultInv, NEW ids \in SUBSET Born, NEW c \in Collections, Perform(Op(TRUE, c, ids)),
           \A d \in ids : BeingWritten(d),
           mirror' \in [Identities -> Progress], \A d \in Identities : mirror'[d] # "none" => d \in Born,
           \A d \in Identities : mirror[d] = "done" => mirror'[d] = "done",
           sync' \in [step : {"credentials", "devices", "write credentials", "write devices"},
                      credentials : SUBSET Identities, devices : SUBSET Identities],
           sync'.credentials \cup sync'.devices \subseteq sync.credentials \cup sync.devices,
           UNCHANGED <<row, removal, overlapped>>
    PROVE  VaultInv'
<1> DEFINE op == Op(TRUE, c, ids)
<1> USE DEF VaultInv
<1>1. op \in Ops /\ op.put /\ op.ids = ids /\ op.collection = c
  BY DEF Op, Ops, Born
<1> HIDE DEF op
<1>2. Perform(op)
  BY DEF op
<1>3. TypeOK'
  BY <1>1, <1>2, Performed DEF TypeOK
<1>4. Born' = Born
  BY DEF Born
<1>5. Causal'
  BY <1>1, <1>2, <1>4, Performed DEF Causal, TypeOK
<1>6. \A d \in Identities : BeingWritten(d)' => BeingWritten(d)
  BY <1>1, <1>2, Performed DEF BeingWritten
<1>7. Quiet'
  BY <1>6 DEF Quiet
<1>8. Removed'
  <2>1. ASSUME NEW d \in Identities \ (overlapped \cup unremoved), removal[d] \in {"credential", "done"}
        PROVE  \A k \in Collections : d \in vault'[k] => d \in vault[k]
    <3>1. d \notin ids
      BY <2>1 DEF Causal, Quiet
    <3> QED
      BY <1>1, <1>2, <3>1, Performed
  <2>2. unremoved \subseteq unremoved'
    BY <1>1, <1>2, Performed
  <2> QED
    BY <2>1, <2>2 DEF Removed, Collections
<1> QED
  BY <1>3, <1>5, <1>7, <1>8

\* A step that writes nothing to the vault keeps the invariant if it adds no writer.
LEMMA QuietSteps ==
    ASSUME VaultInv, TypeOK', UNCHANGED <<vault, removal, overlapped>>, unremoved \subseteq unremoved',
           late' \subseteq late,
           Born \subseteq Born', \A d \in Identities : row'[d] = "deleted" <=> row[d] = "deleted",
           \A d \in Identities : mirror'[d] # "none" => d \in Born',
           \A d \in Identities : mirror[d] = "done" => mirror'[d] = "done",
           sync'.credentials \cup sync'.devices
               \subseteq sync.credentials \cup sync.devices \cup Committed
    PROVE  VaultInv'
<1> USE DEF VaultInv
<1>1. Causal'
  BY DEF Causal, Born, Committed
<1>2. \A d \in Identities : row[d] = "deleted" /\ BeingWritten(d)' => BeingWritten(d)
  BY DEF BeingWritten, Committed
<1>3. Quiet'
  BY <1>2 DEF Quiet
<1>4. Removed'
  BY DEF Removed
<1> QED
  BY <1>1, <1>3, <1>4

LEMMA InitVaultInv == Init => VaultInv
<1> SUFFICES ASSUME Init PROVE VaultInv
  OBVIOUS
<1> USE DEF Init, Asleep
<1>1. TypeOK
  BY FaultsAssumption DEF TypeOK, Progress
<1>2. Causal
  BY DEF Causal, Collections
<1>3. Quiet /\ Removed
  BY DEF Quiet, Removed
<1> QED
  BY <1>1, <1>2, <1>3 DEF VaultInv

-------------------------------------------------------------------------------
LEMMA StepProvision ==
    ASSUME VaultInv, NEW d \in Identities,
           \/ Provision(d) \/ ProvisionCommitted(d) \/ ProvisionFails(d)
           \/ MirrorDevice(d) \/ MirrorCredential(d) \/ MirrorAbandoned(d)
    PROVE  VaultInv'
<1> USE DEF VaultInv
<1>1. CASE Provision(d) \/ ProvisionFails(d)
  <2> USE <1>1 DEF Provision, ProvisionFails
  <2>1. TypeOK'
    BY DEF TypeOK
  <2>2. Born' = Born /\ \A e \in Identities : row'[e] = "deleted" <=> row[e] = "deleted"
    BY DEF Born, TypeOK
  <2> QED
    BY <2>1, <2>2, QuietSteps DEF Causal
<1>2. CASE ProvisionCommitted(d)
  <2> USE <1>2 DEF ProvisionCommitted
  <2>1. TypeOK'
    BY DEF TypeOK, Progress
  <2>2. Born' = Born \cup {d} /\ \A e \in Identities : row'[e] = "deleted" <=> row[e] = "deleted"
    BY DEF Born, TypeOK
  <2>3. mirror[d] = "none"
    BY DEF Causal, Born
  <2>4. \A e \in Identities : /\ mirror'[e] # "none" => e \in Born'
                              /\ mirror[e] = "done" => mirror'[e] = "done"
    BY <2>2, <2>3 DEF Causal, TypeOK
  <2> QED
    BY <2>1, <2>2, <2>4, QuietSteps
<1>3. ASSUME NEW c \in Collections, NEW to \in Progress \ {"none"}, mirror[d] \in {"device", "credential"},
             mirror' = [mirror EXCEPT ![d] = to], Perform(Op(TRUE, c, {d})),
             UNCHANGED <<row, removal, sync, overlapped>>
      PROVE  VaultInv'
  <2>1. {d} \in SUBSET Born
    BY <1>3 DEF Causal
  <2>2. \A e \in {d} : BeingWritten(e)
    BY <1>3 DEF BeingWritten
  <2>3. mirror' \in [Identities -> Progress] /\ \A e \in Identities : mirror'[e] # "none" => e \in Born
    BY <1>3, <2>1 DEF TypeOK, Causal
  <2>4. \A e \in Identities : mirror[e] = "done" => mirror'[e] = "done"
    BY <1>3 DEF TypeOK
  <2>5. sync' \in [step : {"credentials", "devices", "write credentials", "write devices"},
                   credentials : SUBSET Identities, devices : SUBSET Identities]
    BY <1>3 DEF TypeOK
  <2> QED
    BY <1>3, <2>1, <2>2, <2>3, <2>4, <2>5, PutKeeps
<1>4. CASE MirrorDevice(d)
  BY <1>3, <1>4 DEF MirrorDevice, Collections, Progress
<1>5. CASE MirrorCredential(d)
  BY <1>3, <1>5 DEF MirrorCredential, Collections, Progress
<1>6. CASE MirrorAbandoned(d)
  <2> USE <1>6 DEF MirrorAbandoned
  <2>1. TypeOK'
    BY FaultCounts DEF TypeOK, Progress
  <2>2. Born' = Born
    BY DEF Born
  <2>3. \A e \in Identities : /\ mirror'[e] # "none" => e \in Born'
                              /\ mirror[e] = "done" => mirror'[e] = "done"
    BY <2>2 DEF Causal, TypeOK
  <2> QED
    BY <2>1, <2>2, <2>3, QuietSteps
<1> QED
  BY <1>1, <1>2, <1>4, <1>5, <1>6

LEMMA StepDeletion ==
    ASSUME VaultInv, NEW d \in Identities,
           DeletionCommitted(d) \/ RemoveDevice(d) \/ RemoveCredential(d) \/ RemovalAbandoned(d)
    PROVE  VaultInv'
<1> USE DEF VaultInv
<1>1. CASE DeletionCommitted(d)
  <2> USE <1>1 DEF DeletionCommitted
  <2>1. TypeOK'
    BY DEF TypeOK, Progress
  <2>2. Born' = Born
    BY DEF Born, TypeOK
  <2>3. Causal'
    BY <2>2 DEF Causal, TypeOK
  <2>4. \A e \in Identities : BeingWritten(e)' <=> BeingWritten(e)
    BY DEF BeingWritten
  <2>5. Quiet'
    BY <2>4 DEF Quiet, TypeOK
  <2>6. Removed'
    BY DEF Removed, TypeOK
  <2> QED
    BY <2>1, <2>3, <2>5, <2>6
<1>2. ASSUME NEW c \in Collections, NEW to \in Progress \ {"none"}, removal[d] \in {"device", "credential"},
             removal' = [removal EXCEPT ![d] = to], Perform(Op(FALSE, c, {d})),
             UNCHANGED <<row, mirror, sync, overlapped>>,
             \/ c = "devices" /\ removal[d] = "device" /\ to = "credential"
             \/ c = "credentials" /\ removal[d] = "credential" /\ to = "done"
      PROVE  VaultInv'
  <2> DEFINE op == Op(FALSE, c, {d})
  <2>1. op \in Ops /\ ~op.put /\ op.ids = {d} /\ op.collection = c
    BY DEF Op, Ops
  <2> HIDE DEF op
  <2>2. Perform(op)
    BY <1>2 DEF op
  <2>3. TypeOK'
    <3>1. /\ vault' \in [Collections -> SUBSET Identities] /\ late' \subseteq Ops
          /\ faults' \in 0..MaxFaults /\ unremoved' \subseteq Identities
      BY <2>1, <2>2, Performed
    <3>2. removal' \in [Identities -> Progress]
      BY <1>2 DEF TypeOK
    <3> QED
      BY <1>2, <3>1, <3>2 DEF TypeOK
  <2>4. Born' = Born
    BY <1>2 DEF Born
  <2>5. Causal'
    <3>1. \A k \in Collections : vault'[k] \subseteq vault[k]
      BY <2>1, <2>2, Performed
    <3>2. \A o \in late' : o.put => o \in late
      BY <2>1, <2>2, Performed
    <3>3. \A e \in Identities : removal'[e] # "none" => removal[e] # "none"
      BY <1>2 DEF TypeOK
    <3> QED
      BY <1>2, <2>4, <3>1, <3>2, <3>3 DEF Causal
  <2>6. \A e \in Identities : BeingWritten(e)' => BeingWritten(e)
    BY <1>2, <2>1, <2>2, Performed DEF BeingWritten
  <2>7. Quiet'
    BY <1>2, <2>6 DEF Quiet
  <2>8. \A k \in Collections : vault'[k] \subseteq vault[k]
    BY <2>1, <2>2, Performed
  <2>9. d \in unremoved' \/ d \notin vault'[c]
    BY <2>1, <2>2, Performed
  <2>10. unremoved \subseteq unremoved' /\ \A e \in Identities \ {d} : removal'[e] = removal[e]
    <3>1. unremoved \subseteq unremoved'
      BY <2>1, <2>2, Performed
    <3>2. \A e \in Identities \ {d} : removal'[e] = removal[e]
      BY <1>2 DEF TypeOK
    <3> QED
      BY <3>1, <3>2
  <2>11. removal'[d] = to
    BY <1>2 DEF TypeOK
  <2>12. Removed'
    BY <1>2, <2>8, <2>9, <2>10, <2>11 DEF Removed, Collections
  <2> QED
    BY <2>3, <2>5, <2>7, <2>12
<1>3. CASE RemoveDevice(d)
  BY <1>2, <1>3 DEF RemoveDevice, Collections, Progress
<1>4. CASE RemoveCredential(d)
  BY <1>2, <1>4 DEF RemoveCredential, Collections, Progress
<1>5. CASE RemovalAbandoned(d)
  <2> USE <1>5 DEF RemovalAbandoned
  <2>1. TypeOK'
    BY FaultCounts DEF TypeOK, Progress
  <2>2. Causal'
    BY DEF Causal, Born, TypeOK
  <2>3. Quiet'
    BY DEF Quiet, BeingWritten
  <2>4. Removed'
    BY DEF Removed, TypeOK
  <2> QED
    BY <2>1, <2>2, <2>3, <2>4
<1> QED
  BY <1>1, <1>3, <1>4, <1>5

LEMMA StepSync ==
    ASSUME VaultInv, Sync \/ SyncRestart
    PROVE  VaultInv'
<1> USE DEF VaultInv
<1>1. Committed \subseteq Identities
  BY DEF Committed
<1>2. CASE SyncReadCredentials \/ SyncReadDevices
  <2> USE <1>2 DEF SyncReadCredentials, SyncReadDevices
  <2>1. TypeOK'
    <3>1. CASE SyncReadCredentials
      BY <1>1, <3>1 DEF TypeOK
    <3>2. CASE SyncReadDevices
      BY <1>1, <3>2 DEF TypeOK
    <3> QED
      BY <3>1, <3>2
  <2>2. sync'.credentials \cup sync'.devices
          \subseteq sync.credentials \cup sync.devices \cup Committed
    <3>1. sync \in [step : {"credentials", "devices", "write credentials", "write devices"},
                    credentials : SUBSET Identities, devices : SUBSET Identities]
      BY DEF TypeOK
    <3>2. CASE SyncReadCredentials
      BY <3>1, <3>2
    <3>3. CASE SyncReadDevices
      BY <3>1, <3>3
    <3> QED
      BY <3>2, <3>3
  <2>3. Born' = Born
    BY DEF Born
  <2> QED
    BY <2>1, <2>2, <2>3, QuietSteps DEF Causal
<1>3. ASSUME NEW c \in Collections, NEW ids \in SUBSET (sync.credentials \cup sync.devices),
             Perform(Op(TRUE, c, ids)), UNCHANGED <<row, mirror, removal, overlapped>>,
             sync' \in [step : {"credentials", "devices", "write credentials", "write devices"},
                        credentials : SUBSET Identities, devices : SUBSET Identities],
             sync'.credentials \cup sync'.devices \subseteq sync.credentials \cup sync.devices
      PROVE  VaultInv'
  <2>1. ids \in SUBSET Born /\ \A e \in ids : BeingWritten(e)
    BY <1>3 DEF Causal, BeingWritten
  <2>2. mirror' \in [Identities -> Progress] /\ \A e \in Identities : mirror'[e] # "none" => e \in Born
    BY <1>3 DEF TypeOK, Causal
  <2> QED
    BY <1>3, <2>1, <2>2, PutKeeps
<1>4. CASE SyncWriteCredentials
  BY <1>3, <1>4 DEF SyncWriteCredentials, Collections, TypeOK
<1>5. CASE SyncWriteDevices
  BY <1>3, <1>5 DEF SyncWriteDevices, Collections, TypeOK, Asleep
<1>6. CASE SyncRestart
  <2> USE <1>6 DEF SyncRestart, Asleep
  <2>1. TypeOK'
    BY FaultCounts DEF TypeOK
  <2>2. Born' = Born
    BY DEF Born
  <2> QED
    BY <2>1, <2>2, QuietSteps DEF Causal
<1> QED
  BY <1>2, <1>4, <1>5, <1>6 DEF Sync

\* A thread that finishes late writes what BeingWritten knew of.
LEMMA StepLate == VaultInv /\ LateEffect => VaultInv'
<1> SUFFICES ASSUME VaultInv, NEW op \in late, Apply(op), late' = late \ {op},
                    UNCHANGED <<row, mirror, removal, sync, faults, unremoved, overlapped>>
             PROVE  VaultInv'
  BY DEF LateEffect
<1> USE DEF VaultInv
<1>1. op \in Ops
  BY DEF TypeOK
<1>2. /\ vault' \in [Collections -> SUBSET Identities]
      /\ \A c \in Collections : vault'[c] \subseteq vault[c] \cup (IF op.put THEN op.ids ELSE {})
  BY <1>1 DEF Apply, Ops, TypeOK
<1>3. TypeOK'
  BY <1>2 DEF TypeOK
<1>4. Causal'
  BY <1>2 DEF Causal, Born
<1>5. Quiet'
  BY DEF Quiet, BeingWritten
<1>6. ASSUME NEW d \in Identities \ (overlapped \cup unremoved), removal[d] \in {"credential", "done"}
      PROVE  \A c \in Collections : d \in vault'[c] => d \in vault[c]
  <2>1. op.put => d \notin op.ids
    BY <1>6 DEF Causal, Quiet, BeingWritten
  <2> QED
    BY <1>2, <2>1
<1>7. Removed'
  BY <1>6 DEF Removed, Collections
<1> QED
  BY <1>3, <1>4, <1>5, <1>7

LEMMA StepVaultInv == VaultInv /\ [Next]_vars => VaultInv'
<1> SUFFICES ASSUME VaultInv, [Next]_vars PROVE VaultInv'
  OBVIOUS
<1>1. CASE UNCHANGED vars
  BY <1>1 DEF vars, VaultInv, TypeOK, Causal, Born, Quiet, BeingWritten, Removed
<1> QED
  BY <1>1, StepProvision, StepDeletion, StepSync, StepLate DEF Next

LEMMA VaultInvariance == Spec => []VaultInv
<1>1. Init => VaultInv
  BY InitVaultInv
<1>2. VaultInv /\ [Next]_vars => VaultInv'
  BY StepVaultInv
<1> QED
  BY <1>1, <1>2, PTL DEF Spec

\* The vault holds only what was committed, and a finished deletion leaves nothing
\* behind unless a write overlapped it or a removal was lost (provision_device,
\* delete_device, resync_all).
THEOREM FollowsRows == Spec => []VaultFollowsRows
<1>1. VaultInv => VaultFollowsRows
  <2> SUFFICES ASSUME VaultInv PROVE VaultFollowsRows
    OBVIOUS
  <2>1. OnlyCommittedIsMirrored
    BY DEF VaultInv, Causal, OnlyCommittedIsMirrored, Born
  <2>2. GhostsUnlessOverlapped
    BY DEF VaultInv, Removed, GhostsUnlessOverlapped, Collections
  <2> QED
    BY <2>1, <2>2 DEF VaultInv, VaultFollowsRows
<1> QED
  BY <1>1, VaultInvariance, PTL
===============================================================================
