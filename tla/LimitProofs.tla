----------------------------- MODULE LimitProofs -----------------------------
(***************************************************************************)
(* The promises of the monthly quota for every allowance, month and        *)
(* lifetime of the cached plan, and those of the rate limiter for any      *)
(* requests, keys and policies, any lag between the clocks and any order   *)
(* of the scripts.                                                         *)
(*                                                                         *)
(* While a month runs its counter is the number of metered messages.  When *)
(* it is over the counter stays or is dropped, and one message at most,    *)
(* stamped before the end, is still counted in it.                         *)
(***************************************************************************)
EXTENDS MessageQuota, RateLimit, TLAPS

Steps == {"none", "load", "cache", "count", "incr", "expire", "prompt"}
Counting == {"incr", "expire", "prompt"}
Uncounted == {"load", "cache", "count", "incr"}

Messages == [step : Steps, plan : Plans \union {NoPlan}, month : Months, count : Nat]

Typed ==
    /\ now \in 0 .. MaxNow /\ plan \in Plans
    /\ cache \in [plan : Plans \union {NoPlan}, until : Nat]
    /\ msg \in Messages
    /\ counter \in [Months -> Nat] /\ metered \in [Months -> Nat] /\ prompts \in [Months -> Nat]
    /\ expiring \subseteq {m \in Months : counter[m] > 0}
    /\ spent \in [messages : 0 .. MaxMessages, changes : Nat, faults : Nat]
    /\ stale \in Nat /\ excused \subseteq Months

(* Every count is of a message received.                                   *)
CountsReceived ==
    \A m \in Months :
        counter[m] + (IF msg.step \in Uncounted THEN 1 ELSE 0) <= spent.messages

(* The cached plan lives its lifetime, and when it is not the plan any     *)
(* more, no longer than stale says.                                        *)
CacheDies ==
    /\ cache = NotCached \/ (cache.plan \in Plans /\ now < cache.until
                             /\ cache.until <= now + PlanTTL)
    /\ cache.plan \in Plans \ {plan} => cache.until <= stale
    /\ msg.step = "cache" => msg.plan \in Plans

Tallied ==
    /\ \A m \in Months : m >= MonthOf(now) => counter[m] = metered[m]
    /\ msg.step \in Counting => msg.month <= MonthOf(now)
    /\ msg.step = "incr" => counter[msg.month] \in {0, metered[msg.month]}
    /\ msg.step = "expire" =>
         /\ metered[msg.month] >= 1
         /\ msg.count = metered[msg.month] \/ (msg.month \in excused /\ msg.count = 1)
    /\ msg.step = "prompt" => metered[msg.month] = Limit

Reaching(m) ==
    msg.month = m /\ (msg.step = "prompt" \/ (msg.step = "expire" /\ msg.count = Limit))

Prompted ==
    \A m \in Months :
        /\ prompts[m] <= 1
        /\ prompts[m] = 1 => metered[m] >= Limit /\ ~Reaching(m)
        /\ metered[m] >= Limit => prompts[m] = 1 \/ Reaching(m) \/ m \in excused

QuotaInv == Typed /\ CountsReceived /\ CacheDies /\ Tallied /\ Prompted

-----------------------------------------------------------------------------
LEMMA MonthFacts ==
    ASSUME NEW t \in Nat
    PROVE  /\ MonthOf(t) \in Nat
           /\ MonthOf(t) <= MonthOf(t + 1)
           /\ t <= MaxNow => MonthOf(t) \in Months
<1>1. \A a, b \in Nat : a <= b => a \div MonthLength \in Nat
                                 /\ a \div MonthLength <= b \div MonthLength
  <2> SUFFICES ASSUME NEW a \in Nat, NEW b \in Nat, a <= b
               PROVE  a \div MonthLength \in Nat /\ a \div MonthLength <= b \div MonthLength
    OBVIOUS
  <2>1. MonthLength \in Nat \ {0}
    BY MessageQuotaAssumption
  <2> DEFINE p == a \div MonthLength
             q == b \div MonthLength
  <2>2. /\ p \in Nat /\ MonthLength * p <= a
        /\ q \in Nat /\ b < MonthLength * (q + 1)
    BY <2>1, SMT
  <2> HIDE DEF p, q
  <2>3. MonthLength * p < MonthLength * (q + 1)
    BY <2>1, <2>2, SMT
  <2>4. ASSUME q + 1 <= p PROVE FALSE
    <3>1. MonthLength * (p - (q + 1)) >= 0
      BY <2>1, <2>2, <2>4, SMT
    <3>2. MonthLength * (p - (q + 1)) = MonthLength * p - MonthLength * (q + 1)
      BY <2>1, <2>2, SMT
    <3> QED
      BY <2>1, <2>2, <2>3, <3>1, <3>2, SMT
  <2>5. p <= q
    BY <2>2, <2>4
  <2> QED
    BY <2>2, <2>5 DEF p, q
<1>2. MaxNow \in Nat
  BY MessageQuotaAssumption
<1>3. t \div MonthLength \in Nat /\ t \div MonthLength <= (t + 1) \div MonthLength
  BY <1>1
<1>4. t <= MaxNow =>
        t \div MonthLength <= MaxNow \div MonthLength /\ MaxNow \div MonthLength \in Nat
  BY <1>1, <1>2
<1> QED
  BY <1>3, <1>4 DEF MonthOf, Months

LEMMA Constants == Limit \in Nat /\ Limit > 1 /\ PlanTTL \in Nat \ {0} /\ MaxNow \in Nat
                   /\ MaxMessages \in Nat /\ MaxChanges \in Nat /\ MaxFaults \in Nat
                   /\ Months \subseteq Nat /\ 0 \in Months
<1>1. MonthOf(MaxNow) \in Nat
  BY MonthFacts, MessageQuotaAssumption
<1>2. Months \subseteq Nat
  BY DEF Months
<1>3. MaxNow \in Nat /\ MaxMessages \in Nat /\ MaxChanges \in Nat /\ MaxFaults \in Nat
  BY MessageQuotaAssumption
<1>4. Limit \in Nat /\ Limit > 1 /\ PlanTTL \in Nat \ {0}
  BY MessageQuotaAssumption
<1>5. 0 \in Months
  BY <1>1, <1>3 DEF MonthOf, Months
<1> QED
  BY <1>2, <1>3, <1>4, <1>5

LEMMA InitQuotaInv == Init => QuotaInv
<1> SUFFICES ASSUME Init PROVE QuotaInv
  OBVIOUS
<1> USE Constants DEF Init, NoMsg, NotCached, NoPlan, Plans
<1>1. Typed
  <2>1. msg \in Messages /\ cache \in [plan : Plans \union {NoPlan}, until : Nat]
    BY DEF Messages, Steps
  <2>2. spent \in [messages : 0 .. MaxMessages, changes : Nat, faults : Nat]
    OBVIOUS
  <2>3. now \in 0 .. MaxNow /\ plan \in Plans /\ stale \in Nat
    OBVIOUS
  <2>4. counter \in [Months -> Nat] /\ metered \in [Months -> Nat] /\ prompts \in [Months -> Nat]
    OBVIOUS
  <2> QED
    BY <2>1, <2>2, <2>3, <2>4 DEF Typed
<1>2. CountsReceived
  BY DEF CountsReceived, Uncounted
<1>3. CacheDies
  BY DEF CacheDies
<1>4. Tallied
  BY DEF Tallied, Counting
<1>5. Prompted
  BY DEF Prompted, Reaching
<1> QED
  BY <1>1, <1>2, <1>3, <1>4, <1>5 DEF QuotaInv

-----------------------------------------------------------------------------
(* A step keeps each part of the invariant.                                *)

LEMMA Updates ==
    ASSUME NEW q \in Messages, NEW s \in Steps
    PROVE  /\ [q EXCEPT !.step = s] \in Messages
           /\ \A p \in Plans : [q EXCEPT !.step = s, !.plan = p] \in Messages
           /\ \A m \in Months : [q EXCEPT !.step = s, !.month = m] \in Messages
           /\ \A n \in Nat : [q EXCEPT !.step = s, !.count = n] \in Messages
           /\ NoMsg \in Messages
           /\ q.month \in Months /\ q.plan \in Plans \union {NoPlan} /\ q.count \in Nat
  BY Constants DEF Messages, NoMsg, Steps, NoPlan

LEMMA Basics ==
    ASSUME QuotaInv
    PROVE  /\ now \in Nat /\ MonthOf(now) \in Months /\ MonthOf(now) \in Nat
           /\ MonthOf(now + 1) \in Nat /\ MonthOf(now) <= MonthOf(now + 1)
           /\ msg.month \in Months /\ msg.month \in Nat /\ msg.count \in Nat
           /\ \A m \in Months : m \in Nat /\ counter[m] \in Nat /\ metered[m] \in Nat
                               /\ prompts[m] \in Nat
<1>1. now \in Nat /\ now <= MaxNow
  BY Constants DEF QuotaInv, Typed
<1>2. now + 1 \in Nat
  BY <1>1
<1>3. msg.month \in Months /\ msg.count \in Nat
  BY DEF QuotaInv, Typed, Messages
<1>4. \A m \in Months : m \in Nat
  BY Constants
<1>5. \A m \in Months : counter[m] \in Nat /\ metered[m] \in Nat /\ prompts[m] \in Nat
  BY DEF QuotaInv, Typed
<1>6. MonthOf(now) \in Months /\ MonthOf(now) \in Nat /\ MonthOf(now) <= MonthOf(now + 1)
  BY <1>1, MonthFacts
<1>7. MonthOf(now + 1) \in Nat
  BY <1>2, MonthFacts
<1> QED
  BY <1>1, <1>3, <1>4, <1>5, <1>6, <1>7

LEMMA StepTyped == QuotaInv /\ [Next]_vars => Typed'
<1> SUFFICES ASSUME QuotaInv, [Next]_vars PROVE Typed'
  OBVIOUS
<1> USE DEF QuotaInv, Typed
<1>a. msg.month \in Months /\ msg.plan \in Plans \union {NoPlan} /\ msg.count \in Nat
      /\ cache.plan \in Plans \union {NoPlan} /\ msg.step \in Steps
  BY DEF Messages
<1>b. NoMsg \in Messages /\ \A s \in Steps : [msg EXCEPT !.step = s] \in Messages
  <2>1. NoMsg \in Messages
    BY Constants DEF Messages, NoMsg, Steps, NoPlan
  <2>2. ASSUME NEW s \in Steps PROVE [msg EXCEPT !.step = s] \in Messages
    BY Updates
  <2> QED
    BY <2>1, <2>2
<1>c. /\ [NoMsg EXCEPT !.step = "load"] \in Messages
      /\ [NoMsg EXCEPT !.step = "count", !.plan = cache.plan] \in Messages
  BY <1>a, <1>b DEF Messages, Steps
<1>1. CASE Tick
  <2>1. now' \in 0 .. MaxNow /\ cache' \in [plan : Plans \union {NoPlan}, until : Nat]
    BY <1>1, Constants DEF Tick, NotCached, NoPlan
  <2>2. counter' \in [Months -> Nat] /\ expiring' \subseteq {m \in Months : counter'[m] > 0}
    BY <1>1 DEF Tick
  <2>3. stale' \in Nat
    BY <1>1 DEF Tick
  <2> QED
    BY <1>1, <2>1, <2>2, <2>3 DEF Tick
<1>2. CASE ChangePlan
  BY <1>2, Constants DEF ChangePlan
<1>3. CASE Receive
  <2>1. msg' \in Messages
    BY <1>c, <1>3 DEF Receive
  <2>2. spent' \in [messages : 0 .. MaxMessages, changes : Nat, faults : Nat]
    <3>1. /\ spent.messages < MaxMessages
          /\ \/ spent' = [spent EXCEPT !.messages = @ + 1]
             \/ spent' = [spent EXCEPT !.messages = @ + 1, !.faults = @ + 1]
      BY <1>3 DEF Receive
    <3>2. spent.messages \in 0 .. MaxMessages /\ MaxMessages \in Nat
      BY Constants
    <3>3. spent.messages + 1 \in 0 .. MaxMessages
      BY <3>1, <3>2
    <3>4. spent.changes \in Nat /\ spent.faults + 1 \in Nat /\ spent.faults \in Nat
      OBVIOUS
    <3>5. CASE spent' = [spent EXCEPT !.messages = @ + 1]
      BY <3>3, <3>4, <3>5
    <3>6. CASE spent' = [spent EXCEPT !.messages = @ + 1, !.faults = @ + 1]
      BY <3>3, <3>4, <3>6
    <3> QED
      BY <3>1, <3>5, <3>6
  <2> QED
    BY <1>3, <2>1, <2>2 DEF Receive
<1>4. CASE LoadPlan \/ LoadPlanFails \/ CachePlan \/ CachePlanFails
  <2>1. msg' \in Messages
    <3>1. CASE LoadPlan
      <4>1. msg' = [msg EXCEPT !.step = "cache", !.plan = plan]
        BY <3>1 DEF LoadPlan
      <4> QED
        BY <4>1, Updates DEF Steps
    <3>2. CASE LoadPlanFails \/ CachePlan \/ CachePlanFails
      BY <1>b, <3>2 DEF LoadPlanFails, CachePlan, CachePlanFails, Steps
    <3> QED
      BY <1>4, <3>1, <3>2
  <2>2. spent' \in [messages : 0 .. MaxMessages, changes : Nat, faults : Nat]
    BY <1>4 DEF LoadPlan, LoadPlanFails, CachePlan, CachePlanFails, Fault
  <2>3. cache' \in [plan : Plans \union {NoPlan}, until : Nat] /\ stale' \in Nat
    BY <1>a, <1>4, Constants DEF LoadPlan, LoadPlanFails, CachePlan, CachePlanFails
  <2> QED
    BY <1>4, <2>1, <2>2, <2>3 DEF LoadPlan, LoadPlanFails, CachePlan, CachePlanFails
<1>5. CASE Stamp
  <2>1. MonthOf(now) \in Months
    BY MonthFacts, Constants
  <2>2. msg' = NoMsg \/ msg' = [msg EXCEPT !.step = "incr", !.month = MonthOf(now)]
    BY <1>5 DEF Stamp
  <2>3. [msg EXCEPT !.step = "incr", !.month = MonthOf(now)] \in Messages
    BY <2>1, Updates DEF Steps
  <2>4. msg' \in Messages
    BY <1>b, <2>2, <2>3
  <2> QED
    BY <1>5, <2>4 DEF Stamp
<1>6. CASE Increment
  <2>1. msg' \in Messages
    <3>1. counter[msg.month] + 1 \in Nat
      BY <1>a
    <3>2. msg' = [msg EXCEPT !.step = "expire", !.count = counter[msg.month] + 1]
      BY <1>6 DEF Increment
    <3> QED
      BY <3>1, <3>2, Updates DEF Steps
  <2>2. /\ counter' = [counter EXCEPT ![msg.month] = @ + 1]
        /\ metered' = [metered EXCEPT ![msg.month] = @ + 1]
        /\ excused' \subseteq excused \union {msg.month}
    BY <1>6 DEF Increment
  <2>3. counter' \in [Months -> Nat] /\ metered' \in [Months -> Nat]
        /\ \A m \in Months : counter'[m] >= counter[m]
    BY <1>a, <2>2
  <2>4. expiring \subseteq {m \in Months : counter'[m] > 0}
    BY <2>3
  <2> QED
    BY <1>a, <1>6, <2>1, <2>2, <2>3, <2>4 DEF Increment
<1>7. CASE SetExpiry
  <2>1. /\ msg.step = "expire" /\ msg.month \in Months
        /\ now' = now /\ plan' = plan /\ cache' = cache /\ metered' = metered
        /\ prompts' = prompts /\ stale' = stale /\ excused' = excused
    BY <1>a, <1>7 DEF SetExpiry, Expire
  <2>2. msg' \in Messages
    BY <1>b, <1>7 DEF SetExpiry, Steps
  <2>3. spent' \in [messages : 0 .. MaxMessages, changes : Nat, faults : Nat]
    <3>1. spent' = spent \/ spent' = [spent EXCEPT !.faults = @ + 1]
      BY <1>7 DEF SetExpiry, Expire, Fault
    <3> QED
      BY <3>1
  <2>4. counter' \in [Months -> Nat] /\ expiring' \subseteq {m \in Months : counter'[m] > 0}
    <3>1. MonthOf(now) \in Nat /\ msg.month \in Nat
      BY Basics
    <3>2. CASE UNCHANGED <<counter, expiring>>
      BY <3>2
    <3>3. CASE /\ msg.month < MonthOf(now)
               /\ counter' = [counter EXCEPT ![msg.month] = 0]
               /\ expiring' = expiring \ {msg.month}
      BY <2>1, <3>3
    <3>4. CASE /\ ~(msg.month < MonthOf(now))
               /\ expiring' = expiring \union {msg.month} /\ UNCHANGED counter
      <4>1. counter[msg.month] = metered[msg.month] /\ metered[msg.month] >= 1
        BY <2>1, <3>1, <3>4 DEF Tallied
      <4> QED
        BY <2>1, <3>4, <4>1
    <3> QED
      BY <1>7, <3>2, <3>3, <3>4 DEF SetExpiry, Expire
  <2> QED
    BY <2>1, <2>2, <2>3, <2>4
<1>8. CASE EmitPrompt
  BY <1>a, <1>b, <1>8 DEF EmitPrompt
<1>9. CASE LoseCount
  BY <1>a, <1>b, <1>9 DEF LoseCount, Fault
<1>10. CASE UNCHANGED vars
  BY <1>10 DEF vars
<1> QED
  BY <1>1, <1>2, <1>3, <1>4, <1>5, <1>6, <1>7, <1>8, <1>9, <1>10 DEF Next, Count

LEMMA StepCounts == QuotaInv /\ [Next]_vars => CountsReceived'
<1> SUFFICES ASSUME QuotaInv, [Next]_vars, NEW m \in Months
             PROVE  counter'[m] + (IF msg'.step \in Uncounted THEN 1 ELSE 0) <= spent'.messages
  BY DEF CountsReceived
<1> USE DEF QuotaInv, Typed, Messages, CountsReceived, Uncounted
<1>0. counter[m] \in Nat /\ spent.messages \in Nat
  OBVIOUS
<1>1. CASE Tick
  BY <1>0, <1>1 DEF Tick
<1>2. CASE ChangePlan
  BY <1>0, <1>2 DEF ChangePlan
<1>3. CASE Receive
  <2>1. counter[m] <= spent.messages
    BY <1>3 DEF Receive, NoMsg
  <2>2. counter' = counter /\ spent'.messages = spent.messages + 1
    BY <1>3 DEF Receive
  <2> QED
    BY <1>0, <2>1, <2>2
<1>4. CASE LoadPlan \/ LoadPlanFails \/ CachePlan \/ CachePlanFails
  BY <1>0, <1>4 DEF LoadPlan, LoadPlanFails, CachePlan, CachePlanFails, Fault
<1>5. CASE Stamp
  BY <1>0, <1>5 DEF Stamp, NoMsg
<1>6. CASE Increment
  BY <1>0, <1>6 DEF Increment
<1>7. CASE SetExpiry
  BY <1>0, <1>7 DEF SetExpiry, Expire, Fault, NoMsg
<1>8. CASE EmitPrompt
  BY <1>0, <1>8 DEF EmitPrompt, NoMsg
<1>9. CASE LoseCount
  BY <1>0, <1>9 DEF LoseCount, Fault, NoMsg
<1>10. CASE UNCHANGED vars
  BY <1>0, <1>10 DEF vars
<1> QED
  BY <1>1, <1>2, <1>3, <1>4, <1>5, <1>6, <1>7, <1>8, <1>9, <1>10 DEF Next, Count

LEMMA StepCache == QuotaInv /\ [Next]_vars => CacheDies'
<1> SUFFICES ASSUME QuotaInv, [Next]_vars PROVE CacheDies'
  OBVIOUS
<1> USE DEF QuotaInv, Typed, Messages, CacheDies, NotCached, NoPlan, Plans
<1>0. now \in Nat /\ PlanTTL \in Nat \ {0} /\ cache.until \in Nat /\ stale \in Nat
  BY Basics, Constants
<1>1. CASE Tick
  <2>1. now' = now + 1 /\ plan' = plan /\ msg' = msg
    BY <1>1 DEF Tick
  <2>2. CASE cache' = NotCached
    BY <2>1, <2>2
  <2>3. CASE cache' # NotCached
    <3>1. cache' = cache /\ now + 1 < cache.until /\ stale' = stale
      BY <1>0, <1>1, <2>3 DEF Tick
    <3> QED
      BY <1>0, <2>1, <3>1
  <2> QED
    BY <2>2, <2>3
<1>2. CASE ChangePlan
  BY <1>2 DEF ChangePlan
<1>3. CASE Receive
  BY <1>3 DEF Receive, NoMsg
<1>4. CASE LoadPlan \/ LoadPlanFails \/ CachePlanFails
  BY <1>4 DEF LoadPlan, LoadPlanFails, CachePlanFails
<1>5. CASE CachePlan
  <2>1. /\ cache' = [plan |-> msg.plan, until |-> now + PlanTTL] /\ msg.plan \in Plans
        /\ stale' = (IF msg.plan = plan THEN 0 ELSE now + PlanTTL)
        /\ msg'.step = "count" /\ now' = now /\ plan' = plan
    BY <1>5 DEF CachePlan
  <2> QED
    BY <1>0, <2>1
<1>6. CASE Stamp \/ Increment \/ SetExpiry \/ EmitPrompt
  <2>1. /\ cache' = cache /\ now' = now /\ plan' = plan /\ stale' = stale
        /\ msg'.step \in {"none", "incr", "expire", "prompt"}
    <3>1. CASE Stamp
      BY <3>1 DEF Stamp, NoMsg
    <3>3. CASE Increment
      BY <3>3 DEF Increment
    <3>4. CASE EmitPrompt
      BY <3>4 DEF EmitPrompt, NoMsg
    <3>2. CASE SetExpiry
      BY <3>2 DEF SetExpiry, Expire, NoMsg
    <3> QED
      BY <1>6, <3>1, <3>2, <3>3, <3>4
  <2> QED
    BY <2>1
<1>7. CASE LoseCount
  BY <1>7 DEF LoseCount, NoMsg
<1>8. CASE UNCHANGED vars
  BY <1>8 DEF vars
<1> QED
  BY <1>1, <1>2, <1>3, <1>4, <1>5, <1>6, <1>7, <1>8 DEF Next, Count

LEMMA StepTallied == QuotaInv /\ [Next]_vars => Tallied'
<1> SUFFICES ASSUME QuotaInv, [Next]_vars PROVE Tallied'
  OBVIOUS
<1> USE DEF QuotaInv, Typed, Messages, Tallied, Counting
<1>0. now \in Nat /\ MonthOf(now) \in Nat /\ MonthOf(now) <= MonthOf(now + 1)
      /\ MonthOf(now + 1) \in Nat
  BY Basics
<1>1. CASE Tick
  <2>1. /\ now' = now + 1 /\ msg' = msg /\ metered' = metered /\ excused' = excused
        /\ MonthOf(now)' = MonthOf(now + 1)
    BY <1>1 DEF Tick, MonthOf
  <2>2. \A m \in Months : counter'[m] = counter[m] \/ (counter'[m] = 0 /\ m < MonthOf(now + 1))
    BY <1>1 DEF Tick
  <2>3. ASSUME NEW m \in Months, m >= MonthOf(now + 1) PROVE counter'[m] = metered[m]
    <3>1. m \in Nat
      BY Basics
    <3> QED
      BY <1>0, <2>2, <2>3, <3>1
  <2>4. msg.step \in Counting => msg.month <= MonthOf(now + 1)
    BY <1>0, Basics
  <2>5. msg.step = "incr" => counter'[msg.month] \in {0, metered[msg.month]}
    BY <2>2, Basics
  <2> QED
    BY <2>1, <2>3, <2>4, <2>5
<1>2. CASE ChangePlan \/ UNCHANGED vars
  BY <1>2 DEF ChangePlan, vars, MonthOf
<1>3. CASE Receive
  BY <1>3 DEF Receive, NoMsg, MonthOf
<1>4. CASE LoadPlan \/ LoadPlanFails \/ CachePlan \/ CachePlanFails
  BY <1>4 DEF LoadPlan, LoadPlanFails, CachePlan, CachePlanFails, MonthOf
<1>5. CASE Stamp
  <2>1. MonthOf(now) \in Months /\ MonthOf(now)' = MonthOf(now)
    BY <1>5, MonthFacts DEF Stamp, MonthOf
  <2>2. /\ counter' = counter /\ metered' = metered
        /\ \/ msg' = NoMsg
           \/ msg'.step = "incr" /\ msg'.month = MonthOf(now)
    BY <1>5 DEF Stamp
  <2> QED
    BY <1>0, <2>1, <2>2 DEF NoMsg
<1>6. CASE Increment
  <2> DEFINE k == msg.month
  <2>1. /\ msg.step = "incr" /\ k \in Months /\ k <= MonthOf(now) /\ MonthOf(now)' = MonthOf(now)
        /\ counter' = [counter EXCEPT ![k] = @ + 1] /\ metered' = [metered EXCEPT ![k] = @ + 1]
        /\ msg'.step = "expire" /\ msg'.month = k /\ msg'.count = counter[k] + 1
        /\ excused' = IF k < MonthOf(now) THEN excused \union {k} ELSE excused
    BY <1>6 DEF Increment, MonthOf
  <2>2. counter[k] \in {0, metered[k]} /\ counter[k] \in Nat /\ metered[k] \in Nat
    BY <2>1
  <2>3. k \in Nat /\ (k >= MonthOf(now) => counter[k] = metered[k])
    BY <2>1, Basics
  <2>4. counter'[k] = counter[k] + 1 /\ metered'[k] = metered[k] + 1
    BY <2>1
  <2>5. \A m \in Months : m >= MonthOf(now) => counter'[m] = metered'[m]
    BY <2>1, <2>3
  <2>6. msg'.count = metered'[k] \/ (k \in excused' /\ msg'.count = 1)
    BY <1>0, <2>1, <2>2, <2>3, <2>4
  <2> QED
    BY <2>1, <2>2, <2>4, <2>5, <2>6
<1>7. CASE SetExpiry
  <2>1. /\ msg.step = "expire" /\ msg.month \in Months /\ msg.month <= MonthOf(now)
        /\ now' = now /\ metered' = metered /\ excused' = excused /\ MonthOf(now)' = MonthOf(now)
        /\ \/ counter' = counter
           \/ msg.month < MonthOf(now) /\ counter' = [counter EXCEPT ![msg.month] = 0]
        /\ IF msg.count = Limit THEN msg' = [msg EXCEPT !.step = "prompt"] ELSE msg' = NoMsg
    BY <1>7 DEF SetExpiry, Expire, MonthOf
  <2>2. ASSUME NEW m \in Months, m >= MonthOf(now) PROVE counter'[m] = metered[m]
    <3>1. counter'[m] = counter[m]
      BY <2>1, <2>2, Basics
    <3> QED
      BY <2>2, <3>1
  <2>3. msg.count = Limit => metered[msg.month] = Limit
    BY <2>1, Constants
  <2> QED
    BY <2>1, <2>2, <2>3 DEF NoMsg
<1>8. CASE EmitPrompt \/ LoseCount
  BY <1>8 DEF EmitPrompt, LoseCount, NoMsg, MonthOf
<1> QED
  BY <1>1, <1>2, <1>3, <1>4, <1>5, <1>6, <1>7, <1>8 DEF Next, Count

LEMMA StepPrompted == QuotaInv /\ [Next]_vars => Prompted'
<1> SUFFICES ASSUME QuotaInv, [Next]_vars PROVE Prompted'
  OBVIOUS
<1> USE DEF QuotaInv, Typed, Messages, Prompted, Reaching
<1>1. CASE Tick \/ ChangePlan \/ UNCHANGED vars
  BY <1>1 DEF Tick, ChangePlan, vars
<1>2. CASE Receive
  BY <1>2 DEF Receive, NoMsg
<1>3. CASE LoadPlan \/ LoadPlanFails \/ CachePlan \/ CachePlanFails \/ Stamp
  <2>1. /\ prompts' = prompts /\ metered' = metered /\ excused' = excused
        /\ msg.step \in {"load", "cache", "count"} /\ msg'.step \in {"none", "cache", "count", "incr"}
    <3>1. CASE LoadPlan
      BY <3>1 DEF LoadPlan
    <3>2. CASE LoadPlanFails \/ CachePlan \/ CachePlanFails
      BY <3>2 DEF LoadPlanFails, CachePlan, CachePlanFails
    <3>3. CASE Stamp
      BY <3>3 DEF Stamp, NoMsg
    <3> QED
      BY <1>3, <3>1, <3>2, <3>3
  <2> QED
    BY <2>1
<1>4. CASE Increment
  <2> DEFINE k == msg.month
  <2>1. /\ msg.step = "incr" /\ k \in Months /\ k <= MonthOf(now)
        /\ metered' = [metered EXCEPT ![k] = @ + 1] /\ prompts' = prompts
        /\ msg'.step = "expire" /\ msg'.month = k /\ msg'.count = counter[k] + 1
        /\ excused' = IF k < MonthOf(now) THEN excused \union {k} ELSE excused
    BY <1>4 DEF Increment, Tallied, Counting
  <2>2. counter[k] \in {0, metered[k]} /\ counter[k] \in Nat /\ metered[k] \in Nat
        /\ k \in Nat /\ MonthOf(now) \in Nat /\ (k >= MonthOf(now) => counter[k] = metered[k])
    BY <2>1, Basics DEF Tallied
  <2>3. ASSUME NEW m \in Months, m # k
        PROVE  /\ prompts'[m] <= 1
               /\ prompts'[m] = 1 => metered'[m] >= Limit /\ ~Reaching(m)'
               /\ metered'[m] >= Limit => prompts'[m] = 1 \/ Reaching(m)' \/ m \in excused'
    BY <2>1, <2>3
  <2>4. /\ prompts'[k] <= 1 /\ metered'[k] = metered[k] + 1
        /\ prompts'[k] = 1 => metered[k] >= Limit
    BY <2>1, <2>2
  <2>5. prompts'[k] = 1 => metered'[k] >= Limit /\ ~Reaching(k)'
    BY <2>1, <2>2, <2>4, Constants
  <2>6. metered'[k] >= Limit => prompts'[k] = 1 \/ Reaching(k)' \/ k \in excused'
    <3>1. CASE k < MonthOf(now)
      BY <2>1, <3>1
    <3>2. CASE k >= MonthOf(now) /\ metered[k] >= Limit
      BY <2>1, <3>2
    <3>3. CASE k >= MonthOf(now) /\ metered'[k] = Limit
      BY <2>1, <2>2, <2>4, <3>3
    <3> QED
      BY <2>2, <2>4, <3>1, <3>2, <3>3, Constants
  <2> QED
    BY <2>1, <2>3, <2>4, <2>5, <2>6
<1>5. CASE SetExpiry
  <2>1. /\ msg.step = "expire" /\ metered' = metered /\ prompts' = prompts /\ excused' = excused
        /\ IF msg.count = Limit THEN msg' = [msg EXCEPT !.step = "prompt"] ELSE msg' = NoMsg
    BY <1>5 DEF SetExpiry, Expire
  <2>2. \A m \in Months : Reaching(m)' <=> Reaching(m)
    BY <2>1 DEF NoMsg
  <2> QED
    BY <2>1, <2>2
<1>6. CASE EmitPrompt
  <2>1. /\ msg.step = "prompt" /\ msg.month \in Months /\ metered[msg.month] = Limit
        /\ prompts' = [prompts EXCEPT ![msg.month] = @ + 1]
        /\ metered' = metered /\ excused' = excused /\ msg'.step = "none"
    BY <1>6 DEF EmitPrompt, Tallied, NoMsg
  <2>2. prompts[msg.month] = 0
    BY <2>1
  <2> QED
    BY <2>1, <2>2
<1>7. CASE LoseCount
  <2>1. /\ metered' = metered /\ prompts' = prompts /\ msg'.step = "none"
        /\ excused \subseteq excused'
        /\ msg.step \in {"expire", "prompt"} => msg.month \in excused'
    BY <1>7 DEF LoseCount, NoMsg
  <2> QED
    BY <2>1
<1> QED
  BY <1>1, <1>2, <1>3, <1>4, <1>5, <1>6, <1>7 DEF Next, Count

LEMMA QuotaInvariance == Spec => []QuotaInv
<1>1. QuotaInv /\ [Next]_vars => QuotaInv'
  BY StepTyped, StepCounts, StepCache, StepTallied, StepPrompted DEF QuotaInv
<1> QED
  BY <1>1, InitQuotaInv, PTL DEF Spec

-----------------------------------------------------------------------------
\* A month is prompted once, when its metered messages reach the allowance, for
\* every allowance and every length of the month (count_telemetry_message).
THEOREM PromptsHold == Spec => []PromptedOnceUnlessCut
<1>1. QuotaInv => TypeOK
  <2> SUFFICES ASSUME QuotaInv PROVE TypeOK
    OBVIOUS
  <2> USE Constants DEF QuotaInv, Typed, TypeOK
  <2>1. counter \in [Months -> 0 .. MaxMessages]
    <3>1. ASSUME NEW m \in Months PROVE counter[m] \in 0 .. MaxMessages
      BY DEF CountsReceived
    <3> QED
      BY <3>1
  <2>2. cache.until \in 0 .. MaxNow + PlanTTL
    BY DEF CacheDies, NotCached
  <2>3. cache \in [plan : Plans \union {NoPlan}, until : 0 .. MaxNow + PlanTTL]
    BY <2>2
  <2>4. msg.step \in Steps
    BY DEF Messages
  <2> QED
    BY <2>1, <2>3, <2>4 DEF Steps
<1>2. QuotaInv => PromptedOnceUnlessCut
  <2> SUFFICES ASSUME QuotaInv, NEW m \in Months
               PROVE  /\ prompts[m] <= 1
                      /\ prompts[m] = 1 => metered[m] >= Limit
                      /\ metered[m] >= Limit => \/ prompts[m] = 1
                                                \/ msg.step \in {"expire", "prompt"} /\ msg.month = m
                                                \/ m \in excused
    BY <1>1 DEF PromptedOnceUnlessCut
  <2> QED
    BY DEF QuotaInv, Prompted, Reaching
<1> QED
  BY <1>2, QuotaInvariance, PTL

\* A change of plan takes effect within the lifetime of the cached plan, whatever
\* it is (resolve_org_plan).
THEOREM StalenessBounded == Spec => []StalePlanExpires
<1>1. QuotaInv => StalePlanExpires
  BY DEF QuotaInv, Typed, CacheDies, StalePlanExpires, Plans, NotCached, NoPlan
<1> QED
  BY <1>1, QuotaInvariance, PTL

-----------------------------------------------------------------------------
(* The rate limiter.  Its invariant keeps an account per bucket: what it   *)
(* has granted and what it still holds come from its capacity and from the *)
(* refill up to its own time stamp, and its TTL covers a whole refill      *)
(* after that stamp.                                                       *)

Asked == [at  : {"idle", "ip", "org"}, ip : IPs \cup {None}, org : Orgs \cup {None},
          now : Int \cup {None}]

WellAsked(q) ==
    /\ q \in Asked
    /\ q.at = "ip" => q.ip \in IPs
    /\ q.at = "org" => q.org \in Orgs
    /\ q.now # None => q.at # "idle" /\ q.now <= clock

LimiterTypeOK ==
    /\ clock \in Nat
    /\ request \in [Requests -> Asked]
    /\ bucket \in [Keys -> Buckets]
    /\ charged \in [Keys -> Nat]
    /\ rewound \in [Keys -> Nat]

Balanced(k) ==
    IF bucket[k].live
    THEN /\ bucket[k].ts <= clock
         /\ bucket[k].ts + TTL(k) <= bucket[k].expires
         /\ charged[k] + bucket[k].tokens
              <= Policy[k].capacity + Policy[k].rate * (bucket[k].ts + rewound[k])
    ELSE charged[k] = 0 /\ rewound[k] = 0 /\ bucket[k].expires = 0

LimiterInv ==
    /\ LimiterTypeOK
    /\ \A r \in Requests : WellAsked(request[r])
    /\ \A k \in Keys : Balanced(k)

-----------------------------------------------------------------------------
(* Arithmetic.                                                             *)

LEMMA Scale ==
    ASSUME NEW r \in Nat, NEW a \in Int, NEW b \in Int
    PROVE  /\ r * a \in Int
           /\ r * (a + b) = r * a + r * b
           /\ a <= b => r * a <= r * b
<1>1. r * a \in Int /\ r * b \in Int /\ r * (a + b) = r * a + r * b
  BY SMT
<1>2. r * (b - a) = r * b - r * a
  BY SMT
<1>3. a <= b => r * (b - a) >= 0
  BY SMT
<1> QED
  BY <1>1, <1>2, <1>3

LEMMA Quotient ==
    ASSUME NEW a \in Nat, NEW b \in Nat \ {0}
    PROVE  a \div b \in Nat /\ b * (a \div b) <= a /\ a < b * (a \div b + 1)
  BY SMT

\* The TTL of a bucket is long enough to fill it from empty.
LEMMA TTLCoversRefill ==
    ASSUME Parameters, NEW k \in Keys
    PROVE  TTL(k) \in Nat /\ Policy[k].rate * TTL(k) >= Policy[k].capacity
<1> DEFINE c == Policy[k].capacity
           p == Policy[k].rate
           q == c \div (p * Second)
<1>1. c \in Nat /\ p \in Nat \ {0} /\ Second \in Nat \ {0}
  BY DEF Parameters, Policies
<1>2. TTL(k) = (q + 60) * Second
  BY DEF TTL
<1> HIDE DEF c, p
<1>3. p * Second \in Nat \ {0}
  BY <1>1, SMT
<1>4. q \in Nat /\ c < (p * Second) * (q + 1)
  BY <1>1, <1>3, Quotient
<1> HIDE DEF q
<1>5. (p * Second) * (q + 1) <= (p * Second) * (q + 60)
  BY <1>3, <1>4, Scale
<1>6. (p * Second) * (q + 60) = p * ((q + 60) * Second)
  BY <1>1, <1>4, SMT
<1>7. (q + 60) * Second \in Nat
  BY <1>1, <1>4, SMT
<1>8. (p * Second) * (q + 1) \in Int /\ (p * Second) * (q + 60) \in Int
  BY <1>3, <1>4, SMT
<1> QED
  BY <1>1, <1>2, <1>4, <1>5, <1>6, <1>7, <1>8 DEF c, p

-----------------------------------------------------------------------------
(* The script keeps the account of its bucket and touches no other.        *)

LEMMA ScriptBalances ==
    ASSUME Parameters, LimiterTypeOK, \A k \in Keys : Balanced(k),
           NEW key \in Keys, NEW tau \in Int, tau <= clock,
           RunScript(key, tau), clock' = clock
    PROVE  /\ bucket' \in [Keys -> Buckets]
           /\ charged' \in [Keys -> Nat] /\ rewound' \in [Keys -> Nat]
           /\ \A k \in Keys : Balanced(k)'
<1> DEFINE cap == Policy[key].capacity
           p   == Policy[key].rate
           b   == bucket[key]
           paid == IF Enough(key, tau) THEN Cost ELSE 0
<1>1. cap \in Nat /\ p \in Nat \ {0} /\ Cost \in Nat
  BY DEF Parameters, Policies
<1>2. /\ b.live \in BOOLEAN /\ b.tokens \in Nat /\ b.ts \in Int /\ b.expires \in Int
      /\ charged[key] \in Nat /\ rewound[key] \in Nat /\ clock \in Nat
  BY DEF LimiterTypeOK, Buckets
<1>3. TTL(key) \in Nat /\ p * TTL(key) >= cap
  BY TTLCoversRefill
<1>4. Excess(tau, b.ts) \in Nat /\ Excess(RefilledUntil(key), tau) \in Nat
  BY <1>2 DEF Excess, RefilledUntil
<1>5. Excess(tau, b.ts) * p \in Nat /\ Excess(tau, b.ts) * p = p * Excess(tau, b.ts)
  BY <1>1, <1>4, SMT
<1>6. Refilled(key, tau) \in Nat
  BY <1>1, <1>2, <1>5 DEF Refilled, Least
<1>7. paid \in Nat /\ Refilled(key, tau) - paid \in Nat
  BY <1>1, <1>6 DEF Enough
<1>8. /\ bucket' = [bucket EXCEPT ![key] = [live    |-> TRUE,
                                            tokens  |-> Refilled(key, tau) - paid,
                                            ts      |-> tau,
                                            expires |-> clock + TTL(key)]]
      /\ charged' = [charged EXCEPT ![key] = @ + paid]
      /\ rewound' = [rewound EXCEPT ![key] = @ + Excess(RefilledUntil(key), tau)]
  BY DEF RunScript
<1> DEFINE rw == rewound[key] + Excess(RefilledUntil(key), tau)
<1>9. /\ bucket'[key] = [live |-> TRUE, tokens |-> Refilled(key, tau) - paid, ts |-> tau,
                         expires |-> clock + TTL(key)]
      /\ charged'[key] = charged[key] + paid /\ rewound'[key] = rw
      /\ \A k \in Keys \ {key} :
           bucket'[k] = bucket[k] /\ charged'[k] = charged[k] /\ rewound'[k] = rewound[k]
  BY <1>8 DEF LimiterTypeOK
<1>10. /\ bucket' \in [Keys -> Buckets]
       /\ charged' \in [Keys -> Nat] /\ rewound' \in [Keys -> Nat]
  <2>1. [live |-> TRUE, tokens |-> Refilled(key, tau) - paid, ts |-> tau,
         expires |-> clock + TTL(key)] \in Buckets
    BY <1>2, <1>3, <1>7 DEF Buckets
  <2> HIDE DEF paid
  <2> QED
    BY <1>2, <1>4, <1>7, <1>8, <2>1 DEF LimiterTypeOK
<1>11. charged[key] + Refilled(key, tau) <= cap + p * (tau + rw)
  <2> HIDE DEF cap, p
  <2>1. CASE Kept(key)
    <3>1. charged[key] + b.tokens <= cap + p * (b.ts + rewound[key])
      BY <2>1 DEF Kept, Balanced, cap, p
    <3>2. Refilled(key, tau) <= b.tokens + p * Excess(tau, b.ts)
      BY <1>1, <1>2, <1>5, <2>1 DEF Refilled, Least, cap, p
    <3>3. tau + rw = (b.ts + rewound[key]) + Excess(tau, b.ts)
      BY <1>2, <2>1 DEF RefilledUntil, Excess
    <3>4. p * (tau + rw) = p * (b.ts + rewound[key]) + p * Excess(tau, b.ts)
      BY <1>1, <1>2, <1>4, <3>3, Scale
    <3>5. p * (b.ts + rewound[key]) \in Int
      BY <1>1, <1>2, Scale
    <3> HIDE DEF rw
    <3> QED
      BY <1>1, <1>2, <1>5, <1>6, <3>1, <3>2, <3>4, <3>5
  <2>2. CASE ~Kept(key) /\ b.live
    <3>1. /\ charged[key] + b.tokens <= cap + p * (b.ts + rewound[key])
          /\ b.ts + TTL(key) <= b.expires
      BY <2>2 DEF Balanced, cap, p
    <3>2. Refilled(key, tau) = cap
      BY <2>2 DEF Refilled, cap
    <3>3. (b.ts + rewound[key]) + TTL(key) <= tau + rw
      BY <1>2, <1>3, <2>2, <3>1 DEF RefilledUntil, Excess
    <3>4. rw \in Int
      BY <1>2, <1>4
    <3> HIDE DEF rw
    <3>5. /\ p * ((b.ts + rewound[key]) + TTL(key)) = p * (b.ts + rewound[key]) + p * TTL(key)
          /\ p * (b.ts + rewound[key]) \in Int /\ p * TTL(key) \in Int
      BY <1>1, <1>2, <1>3, Scale
    <3>6. p * ((b.ts + rewound[key]) + TTL(key)) <= p * (tau + rw) /\ p * (tau + rw) \in Int
      <4>1. (b.ts + rewound[key]) + TTL(key) \in Int /\ tau + rw \in Int
        BY <1>2, <1>3, <3>4
      <4> QED
        BY <1>1, <3>3, <4>1, Scale
    <3> QED
      BY <1>1, <1>2, <1>3, <3>1, <3>2, <3>5, <3>6 DEF p, cap
  <2>3. CASE ~b.live
    <3>1. charged[key] = 0 /\ rewound[key] = 0 /\ b.expires = 0
      BY <2>3 DEF Balanced
    <3>2. Refilled(key, tau) = cap /\ 0 <= tau + rw
      BY <1>2, <2>3, <3>1 DEF Refilled, Kept, RefilledUntil, Excess, cap
    <3>3. tau + rw \in Int
      BY <1>2, <1>4
    <3> HIDE DEF rw
    <3>4. 0 <= p * (tau + rw)
      BY <1>1, <3>2, <3>3, SMT
    <3> QED
      BY <1>1, <3>1, <3>2, <3>3, <3>4, Scale
  <2> QED
    BY <1>2, <2>1, <2>2, <2>3
<1>12. Balanced(key)'
  <2>1. /\ bucket'[key].live /\ bucket'[key].ts = tau
        /\ bucket'[key].tokens = Refilled(key, tau) - paid
        /\ bucket'[key].expires = clock + TTL(key)
    BY <1>9
  <2>2. TTL(key)' = TTL(key)
    BY DEF TTL
  <2>3. charged'[key] + bucket'[key].tokens <= cap + p * (bucket'[key].ts + rewound'[key])
    <3> HIDE DEF rw, paid, cap, p
    <3> QED
      BY <1>2, <1>6, <1>7, <1>9, <1>11, <2>1
  <2> QED
    BY <1>2, <1>3, <2>1, <2>2, <2>3 DEF Balanced
<1>13. ASSUME NEW k \in Keys \ {key} PROVE Balanced(k)'
  BY <1>9, <1>13 DEF Balanced, TTL
<1> QED
  BY <1>10, <1>12, <1>13

-----------------------------------------------------------------------------
(* Induction.                                                              *)

LEMMA InitLimiterInv == ASSUME Parameters, LimiterInit PROVE LimiterInv
<1>1. Idle \in Asked
  BY DEF Idle, Asked
<1>2. LimiterTypeOK
  BY <1>1 DEF LimiterInit, LimiterTypeOK, Buckets
<1>3. \A r \in Requests : WellAsked(request[r])
  BY <1>1 DEF LimiterInit, WellAsked, Idle
<1>4. \A k \in Keys : Balanced(k)
  BY DEF LimiterInit, Balanced
<1> QED
  BY <1>2, <1>3, <1>4 DEF LimiterInv

\* What dispatch goes on with after a bucket is well-formed again.
LEMMA PassedWell ==
    ASSUME Parameters, LimiterTypeOK, NEW r \in Requests, WellAsked(request[r])
    PROVE  WellAsked(Passed(r)) /\ WellAsked(Idle)
  BY DEF Parameters, LimiterTypeOK, WellAsked, Asked, Passed, Idle

LEMMA StepLimiterInv == ASSUME Parameters, LimiterInv, [LimiterNext]_limiterVars PROVE LimiterInv'
<1> USE DEF LimiterInv
<1>1. ASSUME UNCHANGED <<clock, bucket, charged, rewound>>
      PROVE  clock' \in Nat /\ bucket' \in [Keys -> Buckets] /\ charged' \in [Keys -> Nat]
             /\ rewound' \in [Keys -> Nat] /\ \A k \in Keys : Balanced(k)'
  BY <1>1 DEF LimiterTypeOK, Balanced, TTL
<1>2. ASSUME NEW r \in Requests, NEW ip \in IPs, NEW org \in Orgs \cup {None}, Arrive(r, ip, org)
      PROVE  LimiterInv'
  <2>1. [at |-> "ip", ip |-> ip, org |-> org, now |-> None] \in Asked
    BY DEF Asked
  <2> QED
    BY <1>1, <1>2, <2>1 DEF Arrive, LimiterTypeOK, WellAsked
<1>3. ASSUME NEW r \in Requests, ReadClock(r) PROVE LimiterInv'
  <2>1. PICK tau \in (clock - Skew)..clock : request' = [request EXCEPT ![r].now = tau]
    BY <1>3 DEF ReadClock
  <2>2. tau \in Int /\ tau <= clock
    BY <2>1 DEF Parameters, LimiterTypeOK
  <2>3. request'[r] = [request[r] EXCEPT !.now = tau] /\ request[r] \in Asked
    BY <2>1 DEF LimiterTypeOK
  <2>4. request' \in [Requests -> Asked]
    BY <2>1, <2>2, <2>3 DEF LimiterTypeOK, Asked
  <2>5. ASSUME NEW s \in Requests PROVE WellAsked(request[s])'
    <3>1. CASE s = r
      BY <1>3, <2>2, <2>3, <3>1 DEF ReadClock, WellAsked, Asked
    <3>2. CASE s # r
      BY <1>3, <2>1, <3>2 DEF ReadClock, WellAsked, LimiterTypeOK
    <3> QED
      BY <3>1, <3>2
  <2> QED
    BY <1>1, <1>3, <2>4, <2>5 DEF ReadClock, LimiterTypeOK
<1>4. ASSUME NEW r \in Requests, Evaluate(r) \/ FailOpen(r) PROVE LimiterInv'
  <2>1. /\ WellAsked(request[r]) /\ request[r].now # None /\ clock' = clock
        /\ \/ RunScript(KeyOf(r), request[r].now)
           \/ UNCHANGED <<bucket, charged, rewound>>
    BY <1>4 DEF Evaluate, FailOpen
  <2>2. KeyOf(r) \in Keys /\ request[r].now \in Int /\ request[r].now <= clock
    BY <2>1 DEF WellAsked, Asked, KeyOf, Keys
  <2>3. clock' \in Nat /\ bucket' \in [Keys -> Buckets] /\ charged' \in [Keys -> Nat]
        /\ rewound' \in [Keys -> Nat] /\ \A k \in Keys : Balanced(k)'
    <3>1. CASE RunScript(KeyOf(r), request[r].now)
      <4>1. clock' \in Nat
        BY <2>1 DEF LimiterTypeOK
      <4> QED
        BY <2>1, <2>2, <3>1, <4>1, ScriptBalances
    <3>2. CASE UNCHANGED <<bucket, charged, rewound>>
      BY <1>1, <2>1, <3>2
    <3> QED
      BY <2>1, <3>1, <3>2
  <2>4. WellAsked(Passed(r)) /\ WellAsked(Idle)
    BY <2>1, PassedWell
  <2>5. PICK q : WellAsked(q) /\ request' = [request EXCEPT ![r] = q]
    BY <1>4, <2>4 DEF Evaluate, FailOpen
  <2>6. request' \in [Requests -> Asked]
    BY <2>5 DEF LimiterTypeOK, WellAsked
  <2>7. \A s \in Requests : WellAsked(request'[s])
    BY <2>5 DEF LimiterTypeOK
  <2>8. \A s \in Requests : WellAsked(request[s])'
    BY <2>1, <2>7 DEF WellAsked
  <2> QED
    BY <2>3, <2>6, <2>8 DEF LimiterTypeOK
<1>5. CASE ClockTick
  BY <1>5 DEF ClockTick, LimiterTypeOK, WellAsked, Asked, Balanced, TTL, Buckets
<1>6. CASE UNCHANGED limiterVars
  BY <1>1, <1>6 DEF limiterVars, LimiterTypeOK, WellAsked
<1> QED
  BY <1>2, <1>3, <1>4, <1>5, <1>6 DEF LimiterNext

LEMMA LimiterInvariance == ASSUME Parameters PROVE LimiterSpec => []LimiterInv
<1>1. LimiterInit => LimiterInv
  BY InitLimiterInv
<1>2. LimiterInv /\ [LimiterNext]_limiterVars => LimiterInv'
  BY StepLimiterInv
<1> QED
  BY <1>1, <1>2, PTL DEF LimiterSpec

-----------------------------------------------------------------------------
\* The budget holds in every interleaving: a client cannot be granted more than the
\* capacity and the refill, however the scripts of its requests overtake each other,
\* beyond what late scripts rewind (check_rate_limit).
THEOREM BudgetHolds == ASSUME Parameters PROVE LimiterSpec => []GrantedWithinBudget
<1>1. LimiterInv => GrantedWithinBudget
  <2> SUFFICES ASSUME LimiterInv, NEW k \in Keys
               PROVE  charged[k] <= Policy[k].capacity + Policy[k].rate * (clock + rewound[k])
    BY DEF GrantedWithinBudget
  <2> DEFINE cap == Policy[k].capacity
             p   == Policy[k].rate
  <2>1. cap \in Nat /\ p \in Nat /\ charged[k] \in Nat /\ rewound[k] \in Nat /\ clock \in Nat
    BY DEF Parameters, Policies, LimiterInv, LimiterTypeOK
  <2>2. bucket[k].ts \in Int /\ bucket[k].tokens \in Nat /\ bucket[k].live \in BOOLEAN
    BY DEF LimiterInv, LimiterTypeOK, Buckets
  <2>3. Balanced(k)
    BY DEF LimiterInv
  <2>4. p * (clock + rewound[k]) \in Nat
    BY <2>1, SMT
  <2>5. CASE bucket[k].live
    <3>1. /\ bucket[k].ts + rewound[k] <= clock + rewound[k]
          /\ charged[k] + bucket[k].tokens <= cap + p * (bucket[k].ts + rewound[k])
      BY <2>1, <2>2, <2>3, <2>5 DEF Balanced
    <3> HIDE DEF cap, p
    <3>2. bucket[k].ts + rewound[k] \in Int /\ clock + rewound[k] \in Int
      BY <2>1, <2>2
    <3>3. /\ p * (bucket[k].ts + rewound[k]) <= p * (clock + rewound[k])
          /\ p * (bucket[k].ts + rewound[k]) \in Int
      BY <2>1, <3>1, <3>2, Scale
    <3>4. charged[k] <= cap + p * (clock + rewound[k])
      BY <2>1, <2>2, <2>4, <3>1, <3>3
    <3> QED
      BY <3>4 DEF cap, p
  <2>6. CASE ~bucket[k].live
    <3> HIDE DEF cap, p
    <3>1. charged[k] <= cap + p * (clock + rewound[k])
      BY <2>1, <2>3, <2>4, <2>6 DEF Balanced
    <3> QED
      BY <3>1 DEF cap, p
  <2> QED
    BY <2>2, <2>5, <2>6
<1> QED
  BY <1>1, LimiterInvariance, PTL

\* Losing an idle bucket costs the limit nothing (ttl_seconds).
THEOREM ExpiryIsHarmless == ASSUME Parameters PROVE LimiterSpec => []ExpiryChangesNothing
<1>1. LimiterInv => ExpiryChangesNothing
  <2> SUFFICES ASSUME LimiterInv, NEW k \in Keys, bucket[k].live, clock >= bucket[k].expires
               PROVE  bucket[k].tokens + Policy[k].rate * (clock - bucket[k].ts)
                        >= Policy[k].capacity
    BY DEF ExpiryChangesNothing
  <2> DEFINE cap == Policy[k].capacity
             p   == Policy[k].rate
             age == clock - bucket[k].ts
  <2>1. cap \in Nat /\ p \in Nat
    BY DEF Parameters, Policies
  <2>2. /\ bucket[k].ts \in Int /\ bucket[k].tokens \in Nat /\ bucket[k].expires \in Int
        /\ clock \in Nat
    BY DEF LimiterInv, LimiterTypeOK, Buckets
  <2>3. TTL(k) \in Nat /\ p * TTL(k) >= cap
    BY TTLCoversRefill
  <2>4. age \in Int /\ TTL(k) <= age
    BY <2>2, <2>3 DEF LimiterInv, Balanced
  <2> HIDE DEF cap, p, age
  <2>5. p * TTL(k) <= p * age /\ p * TTL(k) \in Int /\ p * age \in Int
    BY <2>1, <2>3, <2>4, Scale
  <2>6. bucket[k].tokens + p * age >= cap
    BY <2>1, <2>2, <2>3, <2>5
  <2> QED
    BY <2>6 DEF cap, p, age
<1> QED
  BY <1>1, LimiterInvariance, PTL
==============================================================================
