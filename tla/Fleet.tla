--------------------------------- MODULE Fleet ---------------------------------
(***************************************************************************)
(* Devices and the MQTT nodes they are bound to.  A provision counts the   *)
(* devices of its organization, selects candidate nodes, claims one by a   *)
(* guarded UPDATE and commits device and claim together; the claimed row   *)
(* stays locked until then.  An administrator registers, drains, resizes   *)
(* and removes nodes in transactions of his own.  READ COMMITTED: what a   *)
(* call selects may be outdated when it acts.                              *)
(***************************************************************************)
EXTENDS Integers, FiniteSets, Sequences, SequencesExt

CONSTANTS
  Devices,      \* devices of one Free organization, one provision each
  Nodes,        \* rows mqtt_nodes may get
  MaxDevices,   \* FREE_LIMITS.max_devices
  Capacities,   \* capacities an administrator may give a node
  None          \* no node, no lock, no PATCH, a field left out

ASSUME FleetAssumption ==
  /\ IsFiniteSet(Devices) /\ IsFiniteSet(Nodes)
  /\ MaxDevices \in Nat /\ Capacities \subseteq Nat \ {0}
  /\ None \notin Devices \cup Nodes \cup Capacities

VARIABLES
  exists,     \* committed rows of devices
  home,       \* devices.node_id; of a deleted device, the node it had
  call,       \* call[d]: step of provision_device and the candidates left
  node,       \* node[n]: row of mqtt_nodes and the call that has it locked
  patch,      \* the PATCH under way: its changes and the load it read, or None
  raced,      \* history: two provisions overlapped between count and commit
  squeezed,   \* history: nodes resized on an outdated load
  overtaken   \* history: devices whose node was drained after its selection

fleetVars == <<exists, home, call, node, patch, raced, squeezed, overtaken>>

Registered == {"active", "disabled"}
Steps == {"start", "select", "claim", "commit", "done", "failed"}
Underway == {"select", "claim", "commit"}

\* Rows, calls and PATCHes have their type.
FleetTypeOK ==
  /\ exists \subseteq Devices
  /\ home \in [Devices -> Nodes \cup {None}]
  /\ call \in [Devices -> [step : Steps, nodes : Seq(Nodes)]]
  /\ node \in [Nodes -> [status : Registered \cup {"absent", "gone"}, capacity : Nat,
                         load : Nat, by : Devices \cup {None}]]
  /\ patch \in [node : Nodes, status : Registered \cup {None},
                capacity : Capacities \cup {None}, load : Nat] \cup {None}
  /\ raced \in BOOLEAN /\ squeezed \subseteq Nodes /\ overtaken \subseteq Devices

FleetInit ==
  /\ exists = {} /\ home = [d \in Devices |-> None]
  /\ call = [d \in Devices |-> [step |-> "start", nodes |-> <<>>]]
  /\ node = [n \in Nodes |-> [status |-> "absent", capacity |-> 0, load |-> 0, by |-> None]]
  /\ patch = None /\ raced = FALSE /\ squeezed = {} /\ overtaken = {}

-------------------------------------------------------------------------------
(* provision_device and assign_node.                                        *)

CallStep(d, from, to, nodes) ==
  /\ call[d].step = from
  /\ call' = [call EXCEPT ![d] = [step |-> to, nodes |-> nodes]]

\* Mutant: the limit itself is admitted.
CountAdmitsLimit(d) ==
  /\ CallStep(d, "start", IF Cardinality(exists) <= MaxDevices THEN "select" ELSE "failed", <<>>)
  /\ UNCHANGED <<exists, home, node, patch, raced, squeezed, overtaken>>

\* _enforce_device_limit: rows of open transactions are not counted.
Count(d) ==
  /\ CallStep(d, "start", IF Cardinality(exists) < MaxDevices THEN "select" ELSE "failed", <<>>)
  /\ UNCHANGED <<exists, home, node, patch, raced, squeezed, overtaken>>

\* Active nodes with room, as committed.
Candidates == {n \in Nodes : node[n].status = "active" /\ node[n].load < node[n].capacity}

\* Mutant: drained nodes are candidates too.
SelectAny(d) ==
  /\ \E nodes \in SetToSeqs({n \in Nodes : node[n].status \in Registered
                                           /\ node[n].load < node[n].capacity}) :
       /\ \A i, j \in DOMAIN nodes : i < j => node[nodes[i]].load <= node[nodes[j]].load
       /\ CallStep(d, "select", "claim", nodes)
  /\ UNCHANGED <<exists, home, node, patch, raced, squeezed, overtaken>>

\* The device row is flushed, then the active nodes with room are selected,
\* least loaded first.
Select(d) ==
  /\ \E nodes \in SetToSeqs(Candidates) :
       /\ \A i, j \in DOMAIN nodes : i < j => node[nodes[i]].load <= node[nodes[j]].load
       /\ CallStep(d, "select", "claim", nodes)
  /\ UNCHANGED <<exists, home, node, patch, raced, squeezed, overtaken>>

\* The WHERE of the guarded UPDATE, for a row that still exists.
HasRoom(n) == node[n].status \in Registered /\ node[n].load < node[n].capacity

\* Mutant: the UPDATE has no guard.
ClaimUnguarded(d) ==
  /\ call[d].nodes # <<>>
  /\ LET n == Head(call[d].nodes) IN
       /\ node[n].by = None /\ node[n].status \in Registered
       /\ CallStep(d, "claim", "commit", <<n>>)
       /\ node' = [node EXCEPT ![n].by = d]
  /\ UNCHANGED <<exists, home, patch, raced, squeezed, overtaken>>

\* The guarded UPDATE of the next candidate waits for the row, then evaluates its
\* WHERE on the committed row: the room is checked again, the status is not.
Claim(d) ==
  /\ call[d].nodes # <<>>
  /\ LET n == Head(call[d].nodes) IN
       /\ node[n].by = None
       /\ IF HasRoom(n)
          THEN /\ CallStep(d, "claim", "commit", <<n>>)
               /\ node' = [node EXCEPT ![n].by = d]
          ELSE /\ CallStep(d, "claim", "claim", Tail(call[d].nodes))
               /\ UNCHANGED node
  /\ UNCHANGED <<exists, home, patch, raced, squeezed, overtaken>>

\* NoCapacityError rolls the device row back.
NoCapacity(d) ==
  /\ call[d].nodes = <<>>
  /\ CallStep(d, "claim", "failed", <<>>)
  /\ UNCHANGED <<exists, home, node, patch, raced, squeezed, overtaken>>

\* Mutant: the claim is committed, but not for this device's node.
CommitUncounted(d) ==
  /\ CallStep(d, "commit", "done", <<>>)
  /\ LET n == Head(call[d].nodes) IN
       /\ exists' = exists \cup {d} /\ home' = [home EXCEPT ![d] = n]
       /\ node' = [node EXCEPT ![n].by = None]
  /\ raced' = (raced \/ \E e \in Devices \ {d} : call[e].step \in Underway)
  /\ UNCHANGED <<patch, squeezed, overtaken>>

\* Device, credential, log entry and claim become visible; the row is unlocked.
Commit(d) ==
  /\ CallStep(d, "commit", "done", <<>>)
  /\ LET n == Head(call[d].nodes) IN
       /\ exists' = exists \cup {d} /\ home' = [home EXCEPT ![d] = n]
       /\ node' = [node EXCEPT ![n].load = @ + 1, ![n].by = None]
  /\ raced' = (raced \/ \E e \in Devices \ {d} : call[e].step \in Underway)
  /\ UNCHANGED <<patch, squeezed, overtaken>>

\* Any statement may fail, or the process die: claim and device are rolled back.
Fail(d) ==
  /\ call[d].step \in Underway
  /\ CallStep(d, call[d].step, "failed", <<>>)
  /\ node' = [n \in Nodes |-> IF node[n].by = d THEN [node[n] EXCEPT !.by = None] ELSE node[n]]
  /\ UNCHANGED <<exists, home, patch, raced, squeezed, overtaken>>

(* delete_device up to its commit.  The node's count is left as it is.       *)
Delete(d) ==
  /\ d \in exists
  /\ exists' = exists \ {d}
  /\ UNCHANGED <<home, call, node, patch, raced, squeezed, overtaken>>

-------------------------------------------------------------------------------
(* The administrator's endpoints.                                           *)

Register(n, capacity) ==
  /\ node[n].status = "absent"
  /\ node' = [node EXCEPT ![n].status = "active", ![n].capacity = capacity]
  /\ UNCHANGED <<exists, home, call, patch, raced, squeezed, overtaken>>

\* DELETE waits for a claim to end; its devices keep running with no node.
Deregister(n) ==
  /\ node[n].status \in Registered /\ node[n].by = None
  /\ node' = [node EXCEPT ![n] = [status |-> "gone", capacity |-> 0, load |-> 0, by |-> None]]
  /\ home' = [d \in Devices |-> IF home[d] = n THEN None ELSE home[d]]
  /\ UNCHANGED <<exists, call, patch, raced, squeezed, overtaken>>

\* PATCH, read and check: fields left out, or equal to the row, change nothing.
PatchRead(n, status, capacity) ==
  /\ patch = None /\ node[n].status \in Registered
  /\ node[n].status # status /\ node[n].capacity # capacity
  /\ status # None \/ capacity # None
  /\ capacity # None => capacity >= node[n].load
  /\ patch' = [node |-> n, status |-> status, capacity |-> capacity, load |-> node[n].load]
  /\ UNCHANGED <<exists, home, call, node, raced, squeezed, overtaken>>

\* PATCH, the UPDATE of the changed columns: it waits for a claim to end.
PatchCommit ==
  /\ patch # None
  /\ LET n == patch.node
         row == node[n]
     IN  /\ row.by = None /\ row.status \in Registered
         /\ node' = [node EXCEPT
              ![n].status = IF patch.status = None THEN @ ELSE patch.status,
              ![n].capacity = IF patch.capacity = None THEN @ ELSE patch.capacity]
         /\ squeezed' = IF patch.capacity # None /\ row.load # patch.load
                        THEN squeezed \cup {n} ELSE squeezed
         /\ overtaken' = IF patch.status # "disabled" THEN overtaken
                         ELSE overtaken \cup {d \in Devices : n \in ToSet(call[d].nodes)}
  /\ patch' = None
  /\ UNCHANGED <<exists, home, call, raced>>

\* The request is refused or fails, for one because the node was deregistered.
PatchFails ==
  /\ patch # None /\ patch' = None
  /\ UNCHANGED <<exists, home, call, node, raced, squeezed, overtaken>>

-------------------------------------------------------------------------------
\* The steps that touch no device row.
Assignment ==
  \E d \in Devices : Count(d) \/ Select(d) \/ Claim(d) \/ NoCapacity(d) \/ Fail(d)
Administration ==
  \/ \E n \in Nodes : \/ \E c \in Capacities : Register(n, c)
                      \/ Deregister(n)
                      \/ \E s \in Registered \cup {None}, c \in Capacities \cup {None} :
                           PatchRead(n, s, c)
  \/ PatchCommit \/ PatchFails

FleetNext ==
  \/ Assignment \/ Administration
  \/ \E d \in Devices : Commit(d) \/ Delete(d)

FleetSpec == FleetInit /\ [][FleetNext]_fleetVars

-------------------------------------------------------------------------------
\* The load of a node is the number of provisions that were ever bound to it: no
\* failed, refused or raced provision leaves a claim behind, none goes uncounted
\* (node_assignment), and deletions do not give theirs back (delete_device).
LoadCountsProvisions ==
  \A n \in Nodes : node[n].status \in Registered =>
    node[n].load = Cardinality({d \in Devices : home[d] = n})

\* The books of the fleet balance in every interleaving.
LoadsAddUp == FleetTypeOK /\ LoadCountsProvisions

\* Concurrent provisions never push a node past its capacity (assign_node's guarded
\* UPDATE); only a resize that was checked against an outdated load can.
CapacityUnlessSqueezed ==
  \A n \in Nodes : n \notin squeezed => node[n].load <= node[n].capacity

\* A Free organization has more devices than its plan allows only if two provisions
\* overlapped between their count and their commit (_enforce_device_limit).
LimitUnlessRaced == raced \/ Cardinality(exists) <= MaxDevices

\* A drained node gets a new device only from a provision that had selected it before
\* the drain: the claim does not look at the status again (assign_node).
DrainedUnlessOvertaken ==
  [][\A d \in Devices, n \in Nodes :
       home'[d] = n /\ home[d] # n => node[n].status = "active" \/ d \in overtaken]_fleetVars
================================================================================
