---------------------------- MODULE DataLifetime ----------------------------
(***************************************************************************)
(* How long telemetry lives: the retention of raw rows by plan             *)
(* (src/app/workers/data_retention.py), the rollups made from them         *)
(* (src/app/workers/downsampler.py, the materialized views of the first    *)
(* migration), and the plan of each organization, which subscriptions      *)
(* change.  The clock ticks; a row is an organization and the tick of its  *)
(* timestamp.                                                              *)
(***************************************************************************)
EXTENDS Integers, Sequences, SequencesExt

CONSTANTS Orgs,
          Window,      \* raw_max_age of each plan, in ticks
          Views,       \* the rollups, in the order of DEFAULT_AGGREGATES
          Cadence,     \* cadence of each view, in ticks
          Lateness,    \* how old a row may be when the batch writer inserts it
          MaxNow, MaxRows, MaxChanges, MaxFailures   \* bounds of the exploration

Plans == {"free", "pro"}
ViewNames == Range(Views)
Never == -1

ASSUME DataLifetimeAssumption ==
    /\ Window \in [Plans -> Nat] /\ Window["free"] <= Window["pro"]
    /\ Cadence \in [ViewNames -> Nat \ {0}]
    /\ {Lateness, MaxNow, MaxRows, MaxChanges, MaxFailures} \subseteq Nat

VARIABLES now,
          plan,      \* organizations.plan
          raw,       \* rows of telemetry
          view,      \* rows of each materialized view
          refreshed, \* last_refreshed of the downsampler, in its memory
          round,     \* the views the downsampler has to refresh in this loop, and its now
          sweep,     \* the purges the retention worker has to do: [orgs, cutoff]
          spent,     \* bounds of the exploration
          crossed    \* history: organizations whose plan changed under the sweep

lifetimeVars == <<now, plan, raw, view, refreshed, round, sweep, spent, crossed>>

NoRound == [todo |-> <<>>, at |-> 0]
NoSweep == [orgs |-> {}, cutoff |-> [o \in Orgs |-> 0]]

(* policy_for_plan: a plan that is not known gets the Free policy.         *)
PolicyFor(p) == IF p = "pro" THEN Window["pro"] ELSE Window["free"]

WorkerFault == spent.faults < MaxFailures /\ spent' = [spent EXCEPT !.faults = @ + 1]

-----------------------------------------------------------------------------
Tick ==
    /\ now < MaxNow
    /\ now' = now + 1
    /\ UNCHANGED <<plan, raw, view, refreshed, round, sweep, spent, crossed>>

(* The batch writer inserts a row, of now or late.                         *)
InsertRow == \E o \in Orgs, t \in now - Lateness .. now :
    /\ spent.rows < MaxRows /\ t >= 0
    /\ raw' = raw \union {<<o, t>>}
    /\ spent' = [spent EXCEPT !.rows = @ + 1]
    /\ UNCHANGED <<now, plan, view, refreshed, round, sweep, crossed>>

(* A subscription is activated or ends.                                    *)
ChangePlan == \E o \in Orgs : \E p \in Plans \ {plan[o]} :
    /\ spent.changes < MaxChanges
    /\ plan' = [plan EXCEPT ![o] = p]
    /\ spent' = [spent EXCEPT !.changes = @ + 1]
    /\ crossed' = crossed \union ({o} \intersect sweep.orgs)
    /\ UNCHANGED <<now, raw, view, refreshed, round, sweep>>

-----------------------------------------------------------------------------
(* The downsampler.                                                        *)

(* due_aggregates: a view never refreshed, or not for its cadence.         *)
IsDue(v) == refreshed[v] = Never \/ now - refreshed[v] >= Cadence[v]
StartRound ==
    /\ round = NoRound
    /\ \E v \in ViewNames : IsDue(v)
    /\ round' = [todo |-> SelectSeq(Views, IsDue), at |-> now]
    /\ UNCHANGED <<now, plan, raw, view, refreshed, sweep, spent, crossed>>

(* refresh_aggregate recomputes the whole view from the raw rows; the view *)
(* is then stamped with the now of the loop.                               *)
RefreshView ==
    /\ round.todo # <<>>
    /\ LET v == Head(round.todo)
       IN  /\ view' = [view EXCEPT ![v] = raw]
           /\ refreshed' = [refreshed EXCEPT ![v] = round.at]
    /\ round' = IF Len(round.todo) = 1 THEN NoRound ELSE [round EXCEPT !.todo = Tail(@)]
    /\ UNCHANGED <<now, plan, raw, sweep, spent, crossed>>

(* The database is unavailable: the views that are left stay due.          *)
(* Mutant: they are stamped all the same.                                  *)
RefreshFailsStamped ==
    /\ round.todo # <<>>
    /\ WorkerFault
    /\ refreshed' = [v \in ViewNames |-> IF v \in Range(round.todo) THEN round.at ELSE refreshed[v]]
    /\ round' = NoRound
    /\ UNCHANGED <<now, plan, raw, view, sweep, crossed>>
RefreshFails ==
    /\ round.todo # <<>>
    /\ WorkerFault
    /\ round' = NoRound
    /\ UNCHANGED <<now, plan, raw, view, refreshed, sweep, crossed>>

(* Any other error ends the process; the next one remembers nothing.       *)
DownsamplerRestarts ==
    /\ WorkerFault
    /\ round' = NoRound
    /\ refreshed' = [v \in ViewNames |-> Never]
    /\ UNCHANGED <<now, plan, raw, view, sweep, crossed>>

-----------------------------------------------------------------------------
(* The retention worker.                                                   *)

(* load_org_plans and plan_purge_ops; the cutoffs are those of one now.    *)
(* Mutant: the cutoff is one tick late.                                    *)
LoadOrgsLate ==
    /\ sweep = NoSweep
    /\ sweep' = [orgs |-> Orgs, cutoff |-> [o \in Orgs |-> now - PolicyFor(plan[o]) + 1]]
    /\ crossed' = {}
    /\ UNCHANGED <<now, plan, raw, view, refreshed, round, spent>>
LoadOrgs ==
    /\ sweep = NoSweep
    /\ sweep' = [orgs |-> Orgs, cutoff |-> [o \in Orgs |-> now - PolicyFor(plan[o])]]
    /\ crossed' = {}
    /\ UNCHANGED <<now, plan, raw, view, refreshed, round, spent>>

(* delete_expired: one statement and one transaction per organization.     *)
Purge == \E o \in sweep.orgs :
    /\ raw' = {r \in raw : r[1] = o => r[2] >= sweep.cutoff[o]}
    /\ sweep' = IF sweep.orgs = {o} THEN NoSweep ELSE [sweep EXCEPT !.orgs = @ \ {o}]
    /\ UNCHANGED <<now, plan, view, refreshed, round, spent, crossed>>

(* Unavailable, or a crash and a restart by the supervisor: the sweep is   *)
(* begun again from the list of organizations.                             *)
(* Mutant: the organizations that are left wait for a sweep that never     *)
(* comes.                                                                  *)
PurgeGivesUp ==
    /\ sweep.orgs # {}
    /\ WorkerFault
    /\ sweep' = [sweep EXCEPT !.orgs = {}]
    /\ UNCHANGED <<now, plan, raw, view, refreshed, round, crossed>>
PurgeFails ==
    /\ sweep.orgs # {}
    /\ WorkerFault
    /\ sweep' = NoSweep
    /\ UNCHANGED <<now, plan, raw, view, refreshed, round, crossed>>

-----------------------------------------------------------------------------
LifetimeInit ==
    /\ now = 0
    /\ plan \in [Orgs -> Plans]
    /\ raw = {}
    /\ view = [v \in ViewNames |-> {}]
    /\ refreshed = [v \in ViewNames |-> Never]
    /\ round = NoRound /\ sweep = NoSweep
    /\ spent = [rows |-> 0, changes |-> 0, faults |-> 0]
    /\ crossed = {}

Downsample == StartRound \/ RefreshView
Retain == LoadOrgs \/ Purge

LifetimeNext ==
    \/ Tick \/ InsertRow \/ ChangePlan
    \/ Downsample \/ RefreshFails \/ DownsamplerRestarts
    \/ Retain \/ PurgeFails

(* Time passes, and both workers loop for ever.                            *)
LifetimeSpec ==
    /\ LifetimeInit /\ [][LifetimeNext]_lifetimeVars
    /\ WF_lifetimeVars(Tick) /\ WF_lifetimeVars(Downsample) /\ WF_lifetimeVars(Retain)

-----------------------------------------------------------------------------
(* Properties.                                                             *)

LifetimeTypeOK ==
    /\ now \in 0 .. MaxNow /\ plan \in [Orgs -> Plans]
    /\ raw \subseteq Orgs \X (0 .. now)
    /\ view \in [ViewNames -> SUBSET (Orgs \X (0 .. now))]
    /\ refreshed \in [ViewNames -> Never .. now]
    /\ sweep.orgs \subseteq Orgs /\ crossed \subseteq Orgs

(* A sweep deletes no row that the plan of the moment still keeps, unless  *)
(* the plan changed after the sweep had loaded it (purge_expired_telemetry *)
(* works on the plans and the now it was called with).                     *)
RowsKeptForPlan ==
    /\ []LifetimeTypeOK
    /\ [][\A r \in raw \ raw' : r[2] < now - PolicyFor(plan[r[1]]) \/ r[1] \in crossed]_lifetimeVars

(* A row that is older than the plan allows does not stay, although the    *)
(* database fails, the worker restarts and rows come late (run, of         *)
(* data_retention).                                                        *)
ExpiredRowsGo == []<>(\A r \in raw : r[2] >= now - PolicyFor(plan[r[1]]))

(* A stored row reaches every rollup or is purged first, although refreshes*)
(* fail and the worker restarts (run, of downsampler).  The clock of the   *)
(* exploration stops, so a row counts whose cadence ends before that.      *)
RollupsFollow == []<>(\A r \in raw : \A v \in ViewNames :
                        r[2] + Lateness + Cadence[v] <= MaxNow => r \in view[v])
=============================================================================
