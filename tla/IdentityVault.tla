----------------------------- MODULE IdentityVault -----------------------------
(***************************************************************************)
(* The off-site mirror of devices and credentials.  Provisions and         *)
(* deletions write to it after their commit, best effort; the sync worker  *)
(* upserts whatever it read from the database and never deletes.  A vault  *)
(* operation may be lost, or outlive its timeout in a worker thread and    *)
(* take effect later.  A device and its credential have one name here.     *)
(***************************************************************************)
EXTENDS Integers

CONSTANTS
  Identities, \* devices with their credentials, each provisioned at most once
  MaxFaults   \* bound on lost or late operations and on crashes after a commit

ASSUME FaultsAssumption == MaxFaults \in Nat

VARIABLES
  row,         \* row[d]: the rows of d in the database, "open" until the commit
  vault,       \* vault[c]: documents in collection c
  mirror,      \* mirror[d]: what provision_device has yet to write
  removal,     \* removal[d]: what delete_device has yet to remove
  sync,        \* step of resync_all and the rows it read and has not written
  late,        \* operations that timed out and still run in their thread
  faults,      \* faults so far
  unremoved,   \* history: devices with a removal that was lost or late
  overlapped   \* history: devices deleted while a write of them was under way

vars == <<row, vault, mirror, removal, sync, late, faults, unremoved, overlapped>>

Committed == {d \in Identities : row[d] = "committed"}

Collections == {"devices", "credentials"}
Op(put, collection, ids) == [put |-> put, collection |-> collection, ids |-> ids]
Ops == [put : BOOLEAN, collection : Collections, ids : SUBSET Identities]
Progress == {"none", "device", "credential", "done"}

\* Documents, calls, the sync and the late operations have their type.
TypeOK ==
  /\ row \in [Identities -> {"none", "open", "committed", "deleted"}]
  /\ vault \in [Collections -> SUBSET Identities]
  /\ mirror \in [Identities -> Progress] /\ removal \in [Identities -> Progress]
  /\ sync \in [step : {"credentials", "devices", "write credentials", "write devices"},
               credentials : SUBSET Identities, devices : SUBSET Identities]
  /\ late \subseteq Ops /\ faults \in 0..MaxFaults
  /\ unremoved \subseteq Identities /\ overlapped \subseteq Identities

Asleep == [step |-> "credentials", credentials |-> {}, devices |-> {}]

Init ==
  /\ row = [d \in Identities |-> "none"]
  /\ vault = [c \in Collections |-> {}]
  /\ mirror = [d \in Identities |-> "none"] /\ removal = [d \in Identities |-> "none"]
  /\ sync = Asleep /\ late = {} /\ faults = 0 /\ unremoved = {} /\ overlapped = {}

-------------------------------------------------------------------------------
(* One vault operation, _run: it succeeds, is lost, or runs on as late.      *)

Apply(op) ==
  vault' = [vault EXCEPT ![op.collection] = IF op.put THEN @ \cup op.ids ELSE @ \ op.ids]

Fault == faults < MaxFaults /\ faults' = faults + 1

Perform(op) ==
  \/ Apply(op) /\ UNCHANGED <<late, faults, unremoved>>
  \/ /\ Fault /\ late' \in {late, late \cup {op}} /\ UNCHANGED vault
     /\ unremoved' = IF op.put THEN unremoved ELSE unremoved \cup op.ids

\* A thread whose caller gave up finishes its operation.
LateEffect ==
  \E op \in late :
    /\ Apply(op) /\ late' = late \ {op}
    /\ UNCHANGED <<row, mirror, removal, sync, faults, unremoved, overlapped>>

-------------------------------------------------------------------------------
(* provision_device: its transaction, then the mirror writes.               *)

Provision(d) ==
  /\ row[d] = "none" /\ row' = [row EXCEPT ![d] = "open"]
  /\ UNCHANGED <<vault, mirror, removal, sync, late, faults, unremoved, overlapped>>

ProvisionCommitted(d) ==
  /\ row[d] = "open" /\ row' = [row EXCEPT ![d] = "committed"]
  /\ mirror' = [mirror EXCEPT ![d] = "device"]
  /\ UNCHANGED <<vault, removal, sync, late, faults, unremoved, overlapped>>

\* No plan, no capacity or any other error: the transaction is rolled back.
ProvisionFails(d) ==
  /\ row[d] = "open" /\ row' = [row EXCEPT ![d] = "none"]
  /\ UNCHANGED <<vault, mirror, removal, sync, late, faults, unremoved, overlapped>>

MirrorDevice(d) ==
  /\ mirror[d] = "device" /\ mirror' = [mirror EXCEPT ![d] = "credential"]
  /\ Perform(Op(TRUE, "devices", {d}))
  /\ UNCHANGED <<row, removal, sync, overlapped>>

MirrorCredential(d) ==
  /\ mirror[d] = "credential" /\ mirror' = [mirror EXCEPT ![d] = "done"]
  /\ Perform(Op(TRUE, "credentials", {d}))
  /\ UNCHANGED <<row, removal, sync, overlapped>>

\* The process dies after the commit, or a refresh of the row fails.
MirrorAbandoned(d) ==
  /\ mirror[d] \in {"device", "credential"} /\ mirror' = [mirror EXCEPT ![d] = "done"]
  /\ Fault
  /\ UNCHANGED <<row, vault, removal, sync, late, unremoved, overlapped>>

-------------------------------------------------------------------------------
(* delete_device: its commit, then the removals.                            *)

BeingWritten(d) ==
  \/ mirror[d] # "done" \/ d \in sync.credentials \cup sync.devices
  \/ \E op \in late : op.put /\ d \in op.ids

DeletionCommitted(d) ==
  /\ row[d] = "committed" /\ row' = [row EXCEPT ![d] = "deleted"]
  /\ removal' = [removal EXCEPT ![d] = "device"]
  /\ overlapped' = IF BeingWritten(d) THEN overlapped \cup {d} ELSE overlapped
  /\ UNCHANGED <<vault, mirror, sync, late, faults, unremoved>>

RemoveDevice(d) ==
  /\ removal[d] = "device" /\ removal' = [removal EXCEPT ![d] = "credential"]
  /\ Perform(Op(FALSE, "devices", {d}))
  /\ UNCHANGED <<row, mirror, sync, overlapped>>

\* Mutant: the credential is forgotten.
RemoveCredentialForgotten(d) ==
  /\ removal[d] = "credential" /\ removal' = [removal EXCEPT ![d] = "done"]
  /\ UNCHANGED <<row, vault, mirror, sync, late, faults, unremoved, overlapped>>

RemoveCredential(d) ==
  /\ removal[d] = "credential" /\ removal' = [removal EXCEPT ![d] = "done"]
  /\ Perform(Op(FALSE, "credentials", {d}))
  /\ UNCHANGED <<row, mirror, sync, overlapped>>

RemovalAbandoned(d) ==
  /\ removal[d] \in {"device", "credential"} /\ removal' = [removal EXCEPT ![d] = "done"]
  /\ Fault /\ unremoved' = unremoved \cup {d}
  /\ UNCHANGED <<row, vault, mirror, sync, late, overlapped>>

-------------------------------------------------------------------------------
(* resync_all: two SELECTs, then two bulk upserts.                          *)

SyncReadCredentials ==
  /\ sync.step = "credentials"
  /\ sync' = [sync EXCEPT !.step = "devices", !.credentials = Committed]
  /\ UNCHANGED <<row, vault, mirror, removal, late, faults, unremoved, overlapped>>

SyncReadDevices ==
  /\ sync.step = "devices"
  /\ sync' = [sync EXCEPT !.step = "write credentials", !.devices = Committed]
  /\ UNCHANGED <<row, vault, mirror, removal, late, faults, unremoved, overlapped>>

\* Mutant: nothing but the devices is written.
SyncSkipsCredentials ==
  /\ sync.step = "write credentials"
  /\ sync' = [sync EXCEPT !.step = "write devices", !.credentials = {}]
  /\ UNCHANGED <<row, vault, mirror, removal, late, faults, unremoved, overlapped>>

SyncWriteCredentials ==
  /\ sync.step = "write credentials"
  /\ sync' = [sync EXCEPT !.step = "write devices", !.credentials = {}]
  /\ Perform(Op(TRUE, "credentials", sync.credentials))
  /\ UNCHANGED <<row, mirror, removal, overlapped>>

SyncWriteDevices ==
  /\ sync.step = "write devices" /\ sync' = Asleep
  /\ Perform(Op(TRUE, "devices", sync.devices))
  /\ UNCHANGED <<row, mirror, removal, overlapped>>

\* A SELECT raises, or the worker dies and is restarted.
SyncRestart ==
  /\ sync # Asleep /\ sync' = Asleep /\ Fault
  /\ UNCHANGED <<row, vault, mirror, removal, late, unremoved, overlapped>>

-------------------------------------------------------------------------------
Sync ==
  \/ SyncReadCredentials \/ SyncReadDevices
  \/ SyncWriteCredentials \/ SyncWriteDevices

Next ==
  \/ \E d \in Identities :
       \/ Provision(d) \/ ProvisionCommitted(d) \/ ProvisionFails(d)
       \/ MirrorDevice(d) \/ MirrorCredential(d) \/ MirrorAbandoned(d)
       \/ DeletionCommitted(d) \/ RemoveDevice(d) \/ RemoveCredential(d) \/ RemovalAbandoned(d)
  \/ Sync \/ SyncRestart \/ LateEffect

Spec == Init /\ [][Next]_vars

\* The worker runs a full sync on an interval, and supervisord restarts it.
FairSpec == Spec /\ WF_vars(Sync)

-------------------------------------------------------------------------------
\* Nothing is mirrored that was never committed (identity_vault, "written after the
\* Postgres commit").
OnlyCommittedIsMirrored ==
  \A c \in Collections : \A d \in vault[c] : row[d] \in {"committed", "deleted"}

\* A deletion that has finished leaves nothing in the vault, unless a write of the
\* device was under way when it committed, or a removal was lost or late: the sync
\* never deletes, so such a ghost stays (resync_all).
GhostsUnlessOverlapped ==
  \A d \in Identities : removal[d] = "done" /\ (\E c \in Collections : d \in vault[c]) =>
    d \in overlapped \cup unremoved

\* The mirror follows the rows in both directions.
VaultFollowsRows == TypeOK /\ OnlyCommittedIsMirrored /\ GhostsUnlessOverlapped

\* Whatever was lost, the vault ends up with every device and its credential: the sync
\* is "complete regardless of which code paths created the rows" (identity_vault).
EveryDeviceMirrored ==
  <>[](\A d \in Committed, c \in Collections : d \in vault[c])
================================================================================
