---------------------------- MODULE MessageQuota ----------------------------
(***************************************************************************)
(* The monthly message quota of an organization                            *)
(* (src/app/services/quota_service.py, plan_limits.py): the tail of        *)
(* handle_telemetry, with the plan cached in Redis, the counter of the     *)
(* month and the upgrade prompt.  The listener handles one message at a    *)
(* time; what comes before the count is in IngestPipeline.                 *)
(***************************************************************************)
EXTENDS Integers

CONSTANTS Limit,       \* max_messages_per_month of the metered plan
          MonthLength, \* ticks of a billing month
          PlanTTL,     \* ticks the cached plan lives
          MaxNow, MaxMessages, MaxChanges, MaxFaults   \* bounds of the exploration

Plans == {"free", "pro"}
NoPlan == "none"
Months == 0 .. MaxNow \div MonthLength

ASSUME MessageQuotaAssumption ==
    /\ Limit \in Nat /\ Limit > 1
    /\ MonthLength \in Nat \ {0} /\ PlanTTL \in Nat \ {0}
    /\ {MaxNow, MaxMessages, MaxChanges, MaxFaults} \subseteq Nat

VARIABLES now,
          plan,      \* organizations.plan
          cache,     \* the plan cached in Redis and the tick at which it expires
          msg,       \* the message the listener is counting
          counter,   \* quota:{org}:{yyyymm} of each month; 0: no such key
          expiring,  \* months whose key carries an expiry
          spent,     \* bounds of the exploration
          metered, prompts, stale, excused   \* history

vars == <<now, plan, cache, msg, counter, expiring, spent, metered, prompts, stale, excused>>

MonthOf(t) == t \div MonthLength
NoMsg == [step |-> "none", plan |-> NoPlan, month |-> 0, count |-> 0]
NotCached == [plan |-> NoPlan, until |-> 0]

(* is_metered: anything but Pro counts against the allowance.              *)
IsMetered(p) == p # "pro"

Fault == spent.faults < MaxFaults /\ spent' = [spent EXCEPT !.faults = @ + 1]

-----------------------------------------------------------------------------
(* Time and the plan.                                                      *)

(* Redis drops the keys whose expiry has come.                             *)
Tick ==
    /\ now < MaxNow
    /\ now' = now + 1
    /\ cache' = IF cache.until <= now + 1 THEN NotCached ELSE cache
    /\ stale' = IF cache' = NotCached THEN 0 ELSE stale
    /\ LET over == {m \in expiring : m < MonthOf(now + 1)}
       IN  /\ counter' = [m \in Months |-> IF m \in over THEN 0 ELSE counter[m]]
           /\ expiring' = expiring \ over
    /\ UNCHANGED <<plan, msg, spent, metered, prompts, excused>>

(* A subscription is activated or ends.  History: stale is when the cached *)
(* plan must be gone: its lifetime after the change, or after it was       *)
(* cached too late.                                                        *)
ChangePlan ==
    /\ spent.changes < MaxChanges
    /\ plan' \in Plans \ {plan}
    /\ spent' = [spent EXCEPT !.changes = @ + 1]
    /\ stale' = IF cache = NotCached THEN 0 ELSE now + PlanTTL
    /\ UNCHANGED <<now, cache, msg, counter, expiring, metered, prompts, excused>>

-----------------------------------------------------------------------------
(* The listener: handle_telemetry ends with the quota.                     *)

(* resolve_org_plan looks in the cache; a cache that fails is a miss.      *)
Receive ==
    /\ msg = NoMsg /\ spent.messages < MaxMessages
    /\ \/ /\ cache # NotCached
          /\ msg' = [NoMsg EXCEPT !.step = "count", !.plan = cache.plan]
          /\ spent' = [spent EXCEPT !.messages = @ + 1]
       \/ /\ cache = NotCached
          /\ msg' = [NoMsg EXCEPT !.step = "load"]
          /\ spent' = [spent EXCEPT !.messages = @ + 1]
       \/ /\ cache # NotCached /\ spent.faults < MaxFaults
          /\ msg' = [NoMsg EXCEPT !.step = "load"]
          /\ spent' = [spent EXCEPT !.messages = @ + 1, !.faults = @ + 1]
    /\ UNCHANGED <<now, plan, cache, counter, expiring, metered, prompts, stale, excused>>

(* _load_org_plan_from_db; a failure yields None, which is metered.        *)
LoadPlan ==
    /\ msg.step = "load"
    /\ msg' = [msg EXCEPT !.step = "cache", !.plan = plan]
    /\ UNCHANGED <<now, plan, cache, counter, expiring, spent, metered, prompts, stale, excused>>
LoadPlanFails ==
    /\ msg.step = "load"
    /\ Fault
    /\ msg' = [msg EXCEPT !.step = "count"]
    /\ UNCHANGED <<now, plan, cache, counter, expiring, metered, prompts, stale, excused>>

CachePlan ==
    /\ msg.step = "cache"
    /\ cache' = [plan |-> msg.plan, until |-> now + PlanTTL]
    /\ stale' = IF msg.plan = plan THEN 0 ELSE now + PlanTTL
    /\ msg' = [msg EXCEPT !.step = "count"]
    /\ UNCHANGED <<now, plan, counter, expiring, spent, metered, prompts, excused>>

CachePlanFails ==
    /\ msg.step = "cache"
    /\ Fault
    /\ msg' = [msg EXCEPT !.step = "count"]
    /\ UNCHANGED <<now, plan, cache, counter, expiring, metered, prompts, stale, excused>>

(* count_telemetry_message: nothing for Pro; else the month is that of the *)
(* clock of the listener.                                                  *)
(* Mutant: every count that finds the plan cached renews the entry.        *)
StampAndRenew ==
    /\ msg.step = "count"
    /\ msg' = IF IsMetered(msg.plan) THEN [msg EXCEPT !.step = "incr", !.month = MonthOf(now)] ELSE NoMsg
    /\ cache' = IF cache = NotCached THEN cache ELSE [cache EXCEPT !.until = now + PlanTTL]
    /\ UNCHANGED <<now, plan, counter, expiring, spent, metered, prompts, stale, excused>>
Stamp ==
    /\ msg.step = "count"
    /\ msg' = IF IsMetered(msg.plan) THEN [msg EXCEPT !.step = "incr", !.month = MonthOf(now)] ELSE NoMsg
    /\ UNCHANGED <<now, plan, cache, counter, expiring, spent, metered, prompts, stale, excused>>

(* INCR.  History: an INCR that comes after the end of its month counts in *)
(* a key that is gone.                                                     *)
Increment ==
    /\ msg.step = "incr"
    /\ counter' = [counter EXCEPT ![msg.month] = @ + 1]
    /\ msg' = [msg EXCEPT !.step = "expire", !.count = counter[msg.month] + 1]
    /\ metered' = [metered EXCEPT ![msg.month] = @ + 1]
    /\ excused' = IF msg.month < MonthOf(now) THEN excused \union {msg.month} ELSE excused
    /\ UNCHANGED <<now, plan, cache, expiring, spent, prompts, stale>>

(* EXPIREAT the end of the month: at once when that is past.  Its failure  *)
(* changes nothing else.                                                   *)
Expire(works) ==
    /\ IF ~works THEN UNCHANGED <<counter, expiring>>
       ELSE IF msg.month < MonthOf(now)
            THEN counter' = [counter EXCEPT ![msg.month] = 0] /\ expiring' = expiring \ {msg.month}
            ELSE expiring' = expiring \union {msg.month} /\ UNCHANGED counter
    /\ UNCHANGED <<now, plan, cache, metered, prompts, stale, excused>>
(* Mutant: the prompt is sent from the allowance on.                       *)
SetExpiryPromptOften ==
    /\ msg.step = "expire"
    /\ msg' = IF msg.count >= Limit THEN [msg EXCEPT !.step = "prompt"] ELSE NoMsg
    /\ \/ Expire(TRUE) /\ UNCHANGED spent
       \/ Expire(FALSE) /\ Fault
SetExpiry ==
    /\ msg.step = "expire"
    /\ msg' = IF msg.count = Limit THEN [msg EXCEPT !.step = "prompt"] ELSE NoMsg
    /\ \/ Expire(TRUE) /\ UNCHANGED spent
       \/ Expire(FALSE) /\ Fault

(* _emit_upgrade_prompt; a publish that fails is only logged.              *)
EmitPrompt ==
    /\ msg.step = "prompt"
    /\ prompts' = [prompts EXCEPT ![msg.month] = @ + 1]
    /\ msg' = NoMsg
    /\ UNCHANGED <<now, plan, cache, counter, expiring, spent, metered, stale, excused>>

(* The publish fails, or the listener dies, at any step of the count.      *)
LoseCount ==
    /\ msg # NoMsg
    /\ Fault
    /\ excused' = IF msg.step \in {"expire", "prompt"}
                  THEN excused \union {msg.month} ELSE excused
    /\ msg' = NoMsg
    /\ UNCHANGED <<now, plan, cache, counter, expiring, metered, prompts, stale>>

-----------------------------------------------------------------------------
Init ==
    /\ now = 0
    /\ plan \in Plans
    /\ cache = NotCached /\ msg = NoMsg
    /\ counter = [m \in Months |-> 0] /\ expiring = {}
    /\ spent = [messages |-> 0, changes |-> 0, faults |-> 0]
    /\ metered = [m \in Months |-> 0] /\ prompts = [m \in Months |-> 0]
    /\ stale = 0 /\ excused = {}

Count == LoadPlan \/ LoadPlanFails \/ CachePlan \/ CachePlanFails \/ Stamp \/ Increment \/ SetExpiry \/ EmitPrompt

Next == Tick \/ ChangePlan \/ Receive \/ Count \/ LoseCount

Spec == Init /\ [][Next]_vars

-----------------------------------------------------------------------------
(* Properties.                                                             *)

TypeOK ==
    /\ now \in 0 .. MaxNow /\ plan \in Plans
    /\ cache \in [plan : Plans \union {NoPlan}, until : 0 .. MaxNow + PlanTTL]
    /\ msg.step \in {"none", "load", "cache", "count", "incr", "expire", "prompt"}
    /\ counter \in [Months -> 0 .. MaxMessages] /\ expiring \subseteq {m \in Months : counter[m] > 0}

(* count_telemetry_message prompts a month exactly once, when its metered  *)
(* messages reach the allowance and never before, however the counter      *)
(* expires; unless the call that reached it was cut off, or a message was  *)
(* counted after the end of its month.                                     *)
PromptedOnceUnlessCut ==
    /\ TypeOK
    /\ \A m \in Months :
          /\ prompts[m] <= 1
          /\ prompts[m] = 1 => metered[m] >= Limit
          /\ metered[m] >= Limit => \/ prompts[m] = 1
                                    \/ msg.step \in {"expire", "prompt"} /\ msg.month = m
                                    \/ m \in excused

(* "Short enough that an upgrade/downgrade takes effect quickly": a cached *)
(* plan that is not the plan any more is gone once its lifetime has passed *)
(* since the change, however many messages use it; or since the moment it  *)
(* was cached, when the change came between its reading and its caching.   *)
StalePlanExpires == cache.plan \in Plans \ {plan} => now < stale
=============================================================================
