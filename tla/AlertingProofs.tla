--------------------------- MODULE AlertingProofs ---------------------------
(***************************************************************************)
(* What becomes of alerts and webhooks, for any recipients, channels and   *)
(* retry policies and any number of events, stops and crashes.             *)
(*                                                                         *)
(* Every request of a webhook is accounted for: handled, on its way astray *)
(* or given up without an answer; only an attempt that the endpoint has    *)
(* seen and the dispatcher has not given up is both.                       *)
(*                                                                         *)
(* The calls made for an alert and those it has ahead are what is wanted,  *)
(* because the plan names each wanted call once.                           *)
(*                                                                         *)
(* And what rules are stored, for any clients, graphs and number of        *)
(* requests: a request that is ready to commit and has not been overtaken  *)
(* may still count on what it read, the room below the limit and all the   *)
(* rows of its rule.                                                       *)
(***************************************************************************)
EXTENDS AlertDelivery, RuleEngine, FiniteSetTheorems, TLAPS

Phases == {"missed", "ready", "posting", "waiting", "delivered", "failed", "lost"}
Hook == [policy : Policies, phase : Phases, attempts : Nat, handled : Nat, seen : BOOLEAN,
         strays : Nat, unanswered : Nat]

Concluded(k) == k.phase = "delivered" \/ (k.phase = "posting" /\ k.seen)

HookInv(k) ==
    /\ k \in Hook
    /\ k.attempts <= AttemptsOf(k.policy)
    /\ k.phase \in {"ready", "waiting"} => k.attempts < AttemptsOf(k.policy)
    /\ k.phase = "failed" => k.attempts = AttemptsOf(k.policy)
    /\ Concluded(k) => k.handled >= 1
    /\ k.handled + k.strays <= k.unanswered + (IF Concluded(k) THEN 1 ELSE 0)

HooksInv == hooks \in Seq(Hook) /\ \A h \in DOMAIN hooks : HookInv(hooks[h])

-----------------------------------------------------------------------------
(* The pure core.                                                          *)

LEMMA FirstOfTyped ==
    ASSUME NEW config \in Policies, NEW keys, DOMAIN keys = 1 .. 3, NEW default \in Int
    PROVE  FirstOf(config, keys, default) \in Int
<1> DEFINE present == {i \in DOMAIN keys : keys[i] \in DOMAIN config}
<1>1. CASE present = {}
  BY <1>1 DEF FirstOf
<1>2. CASE present # {}
  <2>1. PICK i \in present : \A j \in present : i <= j
    <3>1. \A i \in present : i = 1 \/ i = 2 \/ i = 3
      OBVIOUS
    <3> HIDE DEF present
    <3> QED
      BY <1>2, <3>1
  <2>2. Min(present) \in present
    BY <2>1 DEF Min
  <2>3. config[keys[Min(present)]] \in {Malformed} \union Int
    BY <2>2, AlertDeliveryAssumption
  <2> HIDE DEF present
  <2> QED
    BY <1>2, <2>3 DEF FirstOf, present
<1> QED
  BY <1>1, <1>2

\* from_config: a webhook is tried at least once.
LEMMA AttemptsTyped ==
    ASSUME NEW config \in Policies
    PROVE  AttemptsOf(config) \in Nat \ {0}
<1> DEFINE given == FirstOf(config, <<"max_attempts", "max_retries", "attempts">>, DefaultMaxAttempts)
<1>1. given \in Int
  BY FirstOfTyped DEF DefaultMaxAttempts
<1> HIDE DEF given
<1> QED
  BY <1>1 DEF AttemptsOf, given

-----------------------------------------------------------------------------
(* One event.                                                              *)

LEMMA PhaseNames ==
    {"missed", "ready", "posting", "waiting", "delivered", "failed", "lost"} \subseteq Phases
  BY DEF Phases

\* The records that the steps build of an event are events.
LEMMA HookPosted ==
    ASSUME NEW k \in Hook, NEW phase \in Phases, NEW attempts \in Nat
    PROVE  [k EXCEPT !.phase = phase, !.attempts = attempts, !.seen = FALSE] \in Hook
  BY DEF Hook

LEMMA HookSeen ==
    ASSUME NEW k \in Hook, NEW handled \in Nat
    PROVE  [k EXCEPT !.seen = TRUE, !.handled = handled] \in Hook
  BY DEF Hook

LEMMA HookStrayed ==
    ASSUME NEW k \in Hook, NEW strays \in Nat, NEW handled \in Nat
    PROVE  [k EXCEPT !.strays = strays, !.handled = handled] \in Hook
  BY DEF Hook

LEMMA HookUnanswered ==
    ASSUME NEW k \in Hook, NEW phase \in Phases, NEW strays \in Nat, NEW unanswered \in Nat
    PROVE  [k EXCEPT !.phase = phase, !.strays = strays, !.unanswered = unanswered] \in Hook
  BY DEF Hook

\* What a step may make of an event that keeps the invariant.
LEMMA Turned ==
    ASSUME HooksInv, NEW h \in DOMAIN hooks, NEW hook, Turn(h, hook), HookInv(hook)
    PROVE  HooksInv'
<1>1. hooks \in Seq(Hook) /\ hook \in Hook /\ hooks' = [hooks EXCEPT ![h] = hook]
  BY DEF HooksInv, HookInv, Turn
<1>2. hooks' \in Seq(Hook) /\ DOMAIN hooks' = DOMAIN hooks
  BY <1>1
<1>3. hooks'[h] = hook /\ \A g \in DOMAIN hooks \ {h} : hooks'[g] = hooks[g]
  BY <1>1
<1> HIDE DEF Hook
<1> QED
  BY <1>2, <1>3 DEF HooksInv

LEMMA StepHook ==
    ASSUME HooksInv, NEW h \in DOMAIN hooks,
           TaskStep(h) \/ EndpointHandles(h) \/ EndpointHandlesStray(h)
    PROVE  HooksInv'
<1> DEFINE k == hooks[h]
<1>1. HookInv(k) /\ AttemptsOf(k.policy) \in Nat
  <2>1. HookInv(k)
    BY DEF HooksInv
  <2> QED
    BY <2>1, AttemptsTyped DEF HookInv, Hook
<1>2. k \in Hook /\ k.attempts \in Nat /\ k.handled \in Nat /\ k.strays \in Nat /\ k.unanswered \in Nat
  BY <1>1 DEF HookInv, Hook
<1> HIDE DEF k
<1>3. CASE Post(h)
  <2> DEFINE next == [k EXCEPT !.phase = "posting", !.attempts = @ + 1, !.seen = FALSE]
  <2>1. Turn(h, next) /\ k.phase = "ready"
    BY <1>3 DEF Post, k
  <2>2. /\ next.policy = k.policy /\ next.phase = "posting"
        /\ next.attempts = k.attempts + 1 /\ ~next.seen
        /\ next.handled = k.handled /\ next.strays = k.strays /\ next.unanswered = k.unanswered
    BY <1>2 DEF Hook
  <2>4. next \in Hook
    <3>1. k.attempts + 1 \in Nat /\ "posting" \in Phases
      BY <1>2, PhaseNames
    <3> QED
      BY <1>2, <3>1, HookPosted
  <2> HIDE DEF next
  <2>3. HookInv(next)
    BY <1>1, <1>2, <2>1, <2>2, <2>4 DEF HookInv, Concluded
  <2> QED
    BY <2>1, <2>3, Turned
<1>4. CASE EndpointHandles(h)
  <2> DEFINE next == [k EXCEPT !.seen = TRUE, !.handled = @ + 1]
  <2>1. Turn(h, next) /\ k.phase = "posting" /\ ~k.seen
    BY <1>4 DEF EndpointHandles, k
  <2>2. /\ next.policy = k.policy /\ next.phase = k.phase
        /\ next.attempts = k.attempts /\ next.seen
        /\ next.handled = k.handled + 1 /\ next.strays = k.strays /\ next.unanswered = k.unanswered
    BY <1>2 DEF Hook
  <2>4. next \in Hook
    <3>1. k.handled + 1 \in Nat
      BY <1>2
    <3> QED
      BY <1>2, <3>1, HookSeen
  <2> HIDE DEF next
  <2>3. HookInv(next)
    BY <1>1, <1>2, <2>1, <2>2, <2>4 DEF HookInv, Concluded
  <2> QED
    BY <2>1, <2>3, Turned
<1>5. CASE EndpointHandlesStray(h)
  <2> DEFINE next == [k EXCEPT !.strays = @ - 1, !.handled = @ + 1]
  <2>1. Turn(h, next) /\ k.strays > 0
    BY <1>5 DEF EndpointHandlesStray, k
  <2>2. /\ next.policy = k.policy /\ next.phase = k.phase
        /\ next.attempts = k.attempts /\ (next.seen <=> k.seen)
        /\ next.handled = k.handled + 1 /\ next.strays = k.strays - 1
        /\ next.unanswered = k.unanswered
    BY <1>2 DEF Hook
  <2>4. next \in Hook
    <3>1. k.handled + 1 \in Nat /\ k.strays - 1 \in Nat
      BY <1>2, <2>1
    <3> QED
      BY <1>2, <3>1, HookStrayed
  <2> HIDE DEF next
  <2>3. HookInv(next)
    BY <1>1, <1>2, <2>1, <2>2, <2>4 DEF HookInv, Concluded
  <2> QED
    BY <2>1, <2>3, Turned
<1>6. CASE Answer(h)
  <2> DEFINE next == [k EXCEPT !.phase = "delivered"]
  <2>1. Turn(h, next) /\ k.phase = "posting" /\ k.seen
    BY <1>6 DEF Answer, k
  <2>2. HookInv(next)
    BY <1>1, <1>2, <2>1 DEF HookInv, Hook, Phases, Concluded
  <2> QED
    BY <2>1, <2>2, Turned
<1>7. /\ AfterFailure(k) \in {"failed", "waiting", "ready"}
      /\ AfterFailure(k) = "failed" <=> k.attempts >= AttemptsOf(k.policy)
  BY DEF AfterFailure
<1> DEFINE after == AfterFailure(k)
<1>8. after \in Phases /\ after \notin {"delivered", "posting"}
  BY <1>7 DEF Phases
<1>9. CASE Refuse(h)
  <2> DEFINE next == [k EXCEPT !.phase = after]
  <2>1. Turn(h, next) /\ k.phase = "posting" /\ ~k.seen
    BY <1>9 DEF Refuse, k
  <2> HIDE DEF after
  <2>2. HookInv(next)
    BY <1>1, <1>2, <1>7, <1>8, <2>1 DEF HookInv, Hook, Concluded, after
  <2> QED
    BY <2>1, <2>2, Turned
<1>10. CASE LoseAnswer(h)
  <2>1. PICK stray \in BOOLEAN :
          /\ k.phase = "posting" /\ (stray => ~k.seen)
          /\ Turn(h, [k EXCEPT !.phase = after, !.strays = IF stray THEN @ + 1 ELSE @,
                               !.unanswered = @ + 1])
    BY <1>10 DEF LoseAnswer, k
  <2> DEFINE next == [k EXCEPT !.phase = after, !.strays = IF stray THEN @ + 1 ELSE @,
                               !.unanswered = @ + 1]
  <2>5. Turn(h, next)
    BY <2>1
  <2> HIDE DEF after
  <2>2. /\ next.policy = k.policy /\ next.phase = after
        /\ next.attempts = k.attempts /\ (next.seen <=> k.seen) /\ next.handled = k.handled
        /\ next.strays = (IF stray THEN k.strays + 1 ELSE k.strays)
        /\ next.unanswered = k.unanswered + 1
    BY <1>2 DEF Hook
  <2>4. next \in Hook
    <3>1. (IF stray THEN k.strays + 1 ELSE k.strays) \in Nat /\ k.unanswered + 1 \in Nat
      BY <1>2
    <3> QED
      BY <1>2, <1>8, <3>1, HookUnanswered
  <2> HIDE DEF next
  <2>3. HookInv(next)
    BY <1>1, <1>2, <1>7, <1>8, <2>1, <2>2, <2>4 DEF HookInv, Concluded, after
  <2> QED
    BY <2>5, <2>3, Turned
<1>11. CASE Wake(h)
  <2> DEFINE next == [k EXCEPT !.phase = "ready"]
  <2>1. Turn(h, next) /\ k.phase = "waiting"
    BY <1>11 DEF Wake, k
  <2>2. HookInv(next)
    BY <1>1, <1>2, <2>1 DEF HookInv, Hook, Phases, Concluded
  <2> QED
    BY <2>1, <2>2, Turned
<1> QED
  BY <1>3, <1>4, <1>5, <1>6, <1>9, <1>10, <1>11 DEF TaskStep, AttemptEnds

-----------------------------------------------------------------------------
LEMMA StepPublishHook == HooksInv /\ PublishHook => HooksInv'
<1> SUFFICES ASSUME HooksInv, NEW policy \in Policies,
                    hooks' = Append(hooks, [policy |-> policy,
                        phase |-> IF dispatcher = "up" THEN "ready" ELSE "missed", attempts |-> 0,
                        handled |-> 0, seen |-> FALSE, strays |-> 0, unanswered |-> 0])
             PROVE  HooksInv'
  BY DEF PublishHook
<1> DEFINE new == [policy |-> policy, phase |-> IF dispatcher = "up" THEN "ready" ELSE "missed",
                   attempts |-> 0, handled |-> 0, seen |-> FALSE, strays |-> 0, unanswered |-> 0]
<1>1. AttemptsOf(policy) \in Nat \ {0}
  BY AttemptsTyped
<1>2. new \in Hook /\ HookInv(new)
  BY <1>1 DEF HookInv, Hook, Phases, Concluded
<1>3. hooks \in Seq(Hook) /\ hooks' = Append(hooks, new)
  BY DEF HooksInv
<1> HIDE DEF new, Hook
<1>4. /\ hooks' \in Seq(Hook) /\ DOMAIN hooks' = 1 .. Len(hooks) + 1 /\ DOMAIN hooks = 1 .. Len(hooks)
      /\ hooks'[Len(hooks) + 1] = new /\ \A g \in 1 .. Len(hooks) : hooks'[g] = hooks[g]
      /\ Len(hooks) \in Nat
  BY <1>2, <1>3
<1>5. \A g \in 1 .. Len(hooks) + 1 : g \in 1 .. Len(hooks) \/ g = Len(hooks) + 1
  BY <1>4
<1> QED
  BY <1>2, <1>4, <1>5 DEF HooksInv

\* A request on its way when the dispatcher is killed may still arrive.
LEMMA StepCrash == HooksInv /\ DispatcherCrashes => HooksInv'
<1> SUFFICES ASSUME HooksInv, DispatcherCrashes PROVE HooksInv'
  OBVIOUS
<1> DEFINE Lost(k) == [k EXCEPT !.phase = "lost",
                          !.strays = IF k.phase = "posting" /\ ~k.seen THEN @ + 1 ELSE @,
                          !.unanswered = IF k.phase = "posting" THEN @ + 1 ELSE @]
<1>1. ASSUME NEW k, HookInv(k), k.phase \in {"ready", "posting", "waiting"}
      PROVE  HookInv(Lost(k))
  <2>1. k \in Hook /\ k.handled \in Nat /\ k.strays \in Nat /\ k.unanswered \in Nat
    BY <1>1 DEF HookInv, Hook
  <2>2. Lost(k) \in Hook
    <3>1. /\ (IF k.phase = "posting" /\ ~k.seen THEN k.strays + 1 ELSE k.strays) \in Nat
          /\ (IF k.phase = "posting" THEN k.unanswered + 1 ELSE k.unanswered) \in Nat
          /\ "lost" \in Phases
      BY <2>1, PhaseNames
    <3> QED
      BY <2>1, <3>1, HookUnanswered
  <2>3. /\ Lost(k).phase = "lost" /\ Lost(k).attempts = k.attempts /\ Lost(k).policy = k.policy
        /\ Lost(k).handled = k.handled
        /\ Lost(k).strays = (IF k.phase = "posting" /\ ~k.seen THEN k.strays + 1 ELSE k.strays)
        /\ Lost(k).unanswered = (IF k.phase = "posting" THEN k.unanswered + 1 ELSE k.unanswered)
    BY <2>1 DEF Hook
  <2> HIDE DEF Lost
  <2> QED
    BY <1>1, <2>1, <2>2, <2>3 DEF HookInv, Concluded
<1>2. /\ DOMAIN hooks' = DOMAIN hooks
      /\ \A h \in DOMAIN hooks : HookInv(hooks[h]) /\ hooks'[h] \in {hooks[h], Lost(hooks[h])}
      /\ \A h \in DOMAIN hooks : hooks'[h] # hooks[h] =>
           hooks[h].phase \in {"ready", "posting", "waiting"}
  BY DEF HooksInv, DispatcherCrashes, InTask
<1> HIDE DEF Lost
<1>3. \A h \in DOMAIN hooks : HookInv(hooks'[h])
  BY <1>1, <1>2
<1>4. hooks' \in Seq(Hook)
  <2>1. DOMAIN hooks = 1 .. Len(hooks) /\ Len(hooks) \in Nat
    BY DEF HooksInv
  <2>2. \A h \in 1 .. Len(hooks) : hooks'[h] \in Hook
    BY <1>3, <2>1 DEF HookInv
  <2>3. hooks' = [h \in 1 .. Len(hooks) |-> hooks'[h]]
    BY <2>1 DEF DispatcherCrashes
  <2> QED
    BY <2>1, <2>2, <2>3
<1> QED
  BY <1>2, <1>3, <1>4 DEF HooksInv

LEMMA HooksInvariance == Spec => []HooksInv
<1>1. Init => HooksInv
  BY DEF Init, HooksInv
<1>2. HooksInv /\ [Next]_vars => HooksInv'
  <2> SUFFICES ASSUME HooksInv, [Next]_vars PROVE HooksInv'
    OBVIOUS
  <2>1. CASE UNCHANGED hooks
    BY <2>1 DEF HooksInv
  <2>2. CASE PublishAlert \/ NotifierStep \/ DispatcherExits \/ Stop \/ NotifierCrashes \/ Restart
             \/ UNCHANGED vars
    BY <2>1, <2>2 DEF PublishAlert, NotifierStep, LoadRecipients, LoadFails, DeliverChannel,
       NotifierExits, DispatcherExits, Stop, NotifierCrashes, Restart, vars, dispatching
  <2> QED
    BY <2>2, StepHook, StepPublishHook, StepCrash DEF Next
<1> QED
  BY <1>1, <1>2, PTL DEF Spec

\* What the dispatcher concludes of a webhook is true of the endpoint, and an event
\* is handled again only where an answer was lost (deliver_webhook).
THEOREM HandledOnce == Spec => []HandledOnceUnlessAnswerLost
<1>1. HooksInv => HandledOnceUnlessAnswerLost
  <2> SUFFICES ASSUME HooksInv, NEW h \in DOMAIN hooks
               PROVE  LET k == hooks[h]
                          concluded == IF k.phase = "delivered" \/ (k.phase = "posting" /\ k.seen)
                                       THEN 1 ELSE 0
                      IN  /\ k.phase = "delivered" => k.handled >= 1
                          /\ k.phase = "failed" => k.attempts = AttemptsOf(k.policy)
                          /\ k.handled <= k.unanswered + concluded
    BY DEF HandledOnceUnlessAnswerLost
  <2>1. HookInv(hooks[h])
    BY DEF HooksInv
  <2> QED
    BY <2>1 DEF HookInv, Hook, Concluded
<1> QED
  BY <1>1, HooksInvariance, PTL
-----------------------------------------------------------------------------
(* Flattening.  The recursion of FlattenSeq has a solution, and one only,  *)
(* because a first place where it had none, or two, would have had one     *)
(* before it.                                                              *)

LEMMA LeastNumber ==
    ASSUME NEW T, T \subseteq Nat, T # {}
    PROVE  \E m \in T : \A n \in T : m <= n
<1> DEFINE R == OpToRel(<, Nat)
<1>1. PICK m \in T : \A n \in T : ~ (<<n, m>> \in R)
  BY NatLessThanWellFounded, WFMin
<1>2. \A n \in T : <<n, m>> \in R <=> n < m
  BY DEF OpToRel
<1> HIDE DEF R
<1>3. \A n \in T : m <= n
  <2> SUFFICES ASSUME NEW n \in T PROVE m <= n
    OBVIOUS
  <2>1. ~(n < m)
    BY <1>1, <1>2
  <2>2. m \in Nat /\ n \in Nat
    OBVIOUS
  <2> QED
    BY <2>1, <2>2
<1> QED
  BY <1>3

LEMMA FlattenIs ==
    ASSUME NEW S, NEW seqs \in Seq(Seq(S)), Len(seqs) # 0
    PROVE  \E f \in [1..Len(seqs) -> Seq(S)] :
             /\ \A i \in 1..Len(seqs) : f[i] = IF i = 1 THEN seqs[i] ELSE f[i-1] \o seqs[i]
             /\ FlattenSeq(seqs) = f[Len(seqs)]
<1> DEFINE L == Len(seqs)
           P == Seq(S)
           Step(f, i) == f[i] = IF i = 1 THEN seqs[i] ELSE f[i-1] \o seqs[i]
           Upto(n) == \E f \in [1..n -> P] : \A i \in 1..n : Step(f, i)
<1>1. L \in Nat \ {0} /\ \A i \in 1..L : seqs[i] \in P
  OBVIOUS
<1>2. ASSUME NEW n \in 1..L, n = 1 \/ Upto(n-1) PROVE Upto(n)
  <2>1. CASE n = 1
    <3>1. [i \in 1..1 |-> seqs[1]] \in [1..1 -> P] /\ \A i \in 1..1 : Step([k \in 1..1 |-> seqs[1]], i)
      BY <1>1
    <3> QED
      BY <2>1, <3>1
  <2>2. CASE n # 1
    <3>1. PICK g \in [1..n-1 -> P] : \A i \in 1..n-1 : Step(g, i)
      BY <1>2, <2>2
    <3> DEFINE last == g[n-1] \o seqs[n]
               f == [i \in 1..n |-> IF i = n THEN last ELSE g[i]]
    <3>2. n-1 \in 1..n-1 /\ n \in 1..L /\ g[n-1] \in P /\ seqs[n] \in P
      BY <1>1, <2>2
    <3>3. last \in P
      BY <3>2
    <3> HIDE DEF P, last
    <3>4. f \in [1..n -> P]
      BY <3>3
    <3>5. ASSUME NEW i \in 1..n PROVE Step(f, i)
      <4>1. CASE i = n
        <5>1. f[n] = last
          BY <1>1, <3>2
        <5>2. f[n-1] = g[n-1] /\ n # 1
          BY <1>1, <3>2, <2>2
        <5> HIDE DEF f
        <5> QED
          BY <4>1, <5>1, <5>2 DEF last
      <4>2. CASE i # n
        <5>0. i \in 1..n-1 /\ Step(g, i)
          <6>1. i \in 1..n-1
            BY <1>1, <4>2
          <6> QED
            BY <3>1, <6>1
        <5>1. f[i] = g[i]
          BY <4>2
        <5>2. i # 1 => f[i-1] = g[i-1]
          BY <1>1, <5>0
        <5> HIDE DEF f
        <5> QED
          BY <5>0, <5>1, <5>2
      <4> QED
        BY <4>1, <4>2
    <3> QED
      BY <3>4, <3>5
  <2> QED
    BY <2>1, <2>2
<1>3. Upto(L)
  <2> DEFINE T == {n \in 1..L : ~Upto(n)}
  <2> HIDE DEF Upto
  <2>1. SUFFICES ASSUME T # {} PROVE FALSE
    <3>1. L \in 1..L
      BY <1>1
    <3> QED
      BY <3>1
  <2>2. PICK m \in T : \A n \in T : m <= n
    <3>1. T \subseteq Nat
      BY <1>1
    <3> QED
      BY <2>1, <3>1, LeastNumber
  <2>3. m \in 1..L /\ ~Upto(m) /\ (m = 1 \/ m-1 \in 1..L)
    BY <1>1
  <2>4. m = 1 \/ Upto(m-1)
    BY <1>1, <2>2, <2>3
  <2> QED
    BY <1>2, <2>3, <2>4
<1> DEFINE flatten == CHOOSE f : f = [i \in 1..L |-> IF i = 1 THEN seqs[i] ELSE f[i-1] \o seqs[i]]
<1>4. FlattenSeq(seqs) = flatten[L]
  BY DEF FlattenSeq
<1>5. PICK f \in [1..L -> P] : \A i \in 1..L : Step(f, i)
  BY <1>3
<1>6. f = [i \in 1..L |-> IF i = 1 THEN seqs[i] ELSE f[i-1] \o seqs[i]]
  BY <1>5
<1>7. flatten = [i \in 1..L |-> IF i = 1 THEN seqs[i] ELSE flatten[i-1] \o seqs[i]]
  BY <1>6
<1> HIDE DEF flatten
<1>8. \A i \in 1..L : Step(flatten, i)
  BY <1>7
<1>9. flatten = f
  <2> DEFINE T == {n \in 1..L : flatten[n] # f[n]}
  <2>1. SUFFICES ASSUME T # {} PROVE FALSE
    <3>1. T = {} => \A n \in 1..L : flatten[n] = f[n]
      OBVIOUS
    <3>2. DOMAIN flatten = 1..L /\ flatten = [n \in 1..L |-> flatten[n]]
      BY <1>7
    <3>3. f = [n \in 1..L |-> f[n]]
      BY <1>5
    <3> QED
      BY <3>1, <3>2, <3>3
  <2>2. PICK m \in T : \A n \in T : m <= n
    <3>1. T \subseteq Nat
      BY <1>1
    <3> QED
      BY <2>1, <3>1, LeastNumber
  <2>3. m \in 1..L /\ flatten[m] # f[m] /\ (m # 1 => m-1 \in 1..L /\ m-1 \notin T)
    BY <1>1, <2>2
  <2>4. m # 1 => flatten[m-1] = f[m-1]
    BY <2>3
  <2> QED
    BY <1>5, <1>8, <2>3, <2>4
<1> QED
  BY <1>4, <1>5, <1>9
\* Sequences without a common element and without repeats, one after the other.
LEMMA ConcatIs ==
    ASSUME NEW S, NEW s \in Seq(S), NEW t \in Seq(S)
    PROVE  /\ s \o t \in Seq(S) /\ ToSet(s \o t) = ToSet(s) \union ToSet(t)
           /\ IsInjective(s) /\ IsInjective(t) /\ ToSet(s) \intersect ToSet(t) = {} => IsInjective(s \o t)
<1> DEFINE c == s \o t
<1>1. /\ c \in Seq(S) /\ DOMAIN c = 1 .. Len(s) + Len(t)
      /\ DOMAIN s = 1 .. Len(s) /\ DOMAIN t = 1 .. Len(t) /\ Len(s) \in Nat /\ Len(t) \in Nat
      /\ \A i \in 1 .. Len(s) : c[i] = s[i]
      /\ \A i \in 1 .. Len(t) : c[Len(s) + i] = t[i]
  OBVIOUS
<1> HIDE DEF c
<1>2. \A i \in 1 .. Len(s) + Len(t) : i \in 1 .. Len(s) \/ \E k \in 1 .. Len(t) : i = Len(s) + k
  <2> SUFFICES ASSUME NEW i \in 1 .. Len(s) + Len(t), i \notin 1 .. Len(s)
               PROVE  \E k \in 1 .. Len(t) : i = Len(s) + k
    OBVIOUS
  <2>1. i - Len(s) \in 1 .. Len(t) /\ i = Len(s) + (i - Len(s))
    BY <1>1
  <2> QED
    BY <2>1
<1>3. ToSet(c) = ToSet(s) \union ToSet(t)
  <2>1. ASSUME NEW x \in ToSet(c) PROVE x \in ToSet(s) \union ToSet(t)
    <3>1. PICK i \in 1 .. Len(s) + Len(t) : x = c[i]
      BY <1>1, <2>1 DEF ToSet
    <3>2. CASE i \in 1 .. Len(s)
      BY <1>1, <3>1, <3>2 DEF ToSet
    <3>3. CASE i \notin 1 .. Len(s)
      <4>1. PICK k \in 1 .. Len(t) : i = Len(s) + k
        BY <1>2, <3>3
      <4> QED
        BY <1>1, <3>1, <4>1 DEF ToSet
    <3> QED
      BY <3>2, <3>3
  <2>2. ASSUME NEW x \in ToSet(s) PROVE x \in ToSet(c)
    <3>1. PICK i \in 1 .. Len(s) : x = s[i]
      BY <1>1 DEF ToSet
    <3>2. c[i] = x /\ i \in DOMAIN c
      BY <1>1, <3>1
    <3> QED
      BY <3>2 DEF ToSet
  <2>3. ASSUME NEW x \in ToSet(t) PROVE x \in ToSet(c)
    <3>1. PICK i \in 1 .. Len(t) : x = t[i]
      BY <1>1 DEF ToSet
    <3>2. c[Len(s) + i] = x /\ Len(s) + i \in DOMAIN c
      BY <1>1, <3>1
    <3> QED
      BY <3>2 DEF ToSet
  <2> QED
    BY <2>1, <2>2, <2>3
<1>4. ASSUME IsInjective(s), IsInjective(t), ToSet(s) \intersect ToSet(t) = {} PROVE IsInjective(c)
  <2>1. \A i \in 1 .. Len(s), k \in 1 .. Len(t) : c[i] # c[Len(s) + k]
    <3> SUFFICES ASSUME NEW i \in 1 .. Len(s), NEW k \in 1 .. Len(t) PROVE s[i] # t[k]
      BY <1>1
    <3>1. s[i] \in ToSet(s) /\ t[k] \in ToSet(t)
      BY <1>1 DEF ToSet
    <3> QED
      BY <1>4, <3>1
  <2>2. \A i, j \in 1 .. Len(s) : c[i] = c[j] => i = j
    BY <1>1, <1>4 DEF IsInjective
  <2>3. \A i, j \in 1 .. Len(t) : c[Len(s) + i] = c[Len(s) + j] => i = j
    <3>1. \A i, j \in 1 .. Len(t) : t[i] = t[j] => i = j
      BY <1>1, <1>4 DEF IsInjective
    <3> HIDE DEF c
    <3> QED
      BY <1>1, <3>1
  <2> SUFFICES ASSUME NEW i \in 1 .. Len(s) + Len(t), NEW j \in 1 .. Len(s) + Len(t), c[i] = c[j]
               PROVE  i = j
    BY <1>1 DEF IsInjective
  <2> QED
    BY <1>2, <2>1, <2>2, <2>3
<1> QED
  BY <1>1, <1>3, <1>4 DEF c

\* The elements are those of the parts, and none is there twice.
LEMMA FlattenKeeps ==
    ASSUME NEW S, NEW seqs \in Seq(Seq(S)),
           \A i \in DOMAIN seqs : IsInjective(seqs[i]),
           \A i, j \in DOMAIN seqs : i # j => ToSet(seqs[i]) \intersect ToSet(seqs[j]) = {}
    PROVE  /\ FlattenSeq(seqs) \in Seq(S) /\ IsInjective(FlattenSeq(seqs))
           /\ ToSet(FlattenSeq(seqs)) = UNION {ToSet(seqs[i]) : i \in DOMAIN seqs}
<1> DEFINE L == Len(seqs)
<1>1. L \in Nat /\ DOMAIN seqs = 1 .. L /\ \A i \in 1 .. L : seqs[i] \in Seq(S)
  OBVIOUS
<1>2. CASE L = 0
  <2>1. seqs = << >> /\ FlattenSeq(seqs) = << >>
    BY <1>2 DEF FlattenSeq
  <2>2. << >> \in Seq(S) /\ DOMAIN << >> = {}
    OBVIOUS
  <2>3. {ToSet(seqs[i]) : i \in DOMAIN seqs} = {} /\ ToSet(<< >>) = {}
    BY <2>1, <2>2 DEF ToSet
  <2>4. IsInjective(<< >>)
    BY <2>2 DEF IsInjective
  <2> QED
    BY <2>1, <2>2, <2>3, <2>4
<1>3. CASE L # 0
  <2>1. PICK f \in [1..L -> Seq(S)] :
          /\ \A i \in 1..L : f[i] = IF i = 1 THEN seqs[i] ELSE f[i-1] \o seqs[i]
          /\ FlattenSeq(seqs) = f[L]
    BY <1>3, FlattenIs
  <2> DEFINE Good(n) == IsInjective(f[n]) /\ ToSet(f[n]) = UNION {ToSet(seqs[i]) : i \in 1 .. n}
             T == {n \in 1 .. L : ~Good(n)}
  <2>2. ASSUME NEW n \in 1 .. L, n = 1 \/ Good(n - 1) PROVE Good(n)
    <3>1. CASE n = 1
      <4>1. f[1] = seqs[1] /\ 1 .. 1 = {1} /\ IsInjective(seqs[1])
        BY <1>1, <2>1, <3>1
      <4>2. f[n] = seqs[1] /\ UNION {ToSet(seqs[i]) : i \in 1 .. n} = ToSet(seqs[1])
        BY <3>1, <4>1
      <4> QED
        BY <4>1, <4>2
    <3>2. CASE n # 1
      <4>1. /\ f[n] = f[n-1] \o seqs[n] /\ f[n-1] \in Seq(S) /\ seqs[n] \in Seq(S)
            /\ IsInjective(seqs[n]) /\ Good(n - 1)
        <5>1. n - 1 \in 1 .. L
          BY <1>1, <3>2
        <5> QED
          BY <1>1, <2>1, <2>2, <3>2, <5>1
      <4>2. 1 .. n = (1 .. n - 1) \union {n} /\ n \notin 1 .. n - 1 /\ 1 .. n - 1 \subseteq 1 .. L
        BY <1>1, <3>2
      <4>3. ToSet(f[n-1]) \intersect ToSet(seqs[n]) = {}
        <5>1. \A i \in 1 .. n - 1 : ToSet(seqs[i]) \intersect ToSet(seqs[n]) = {}
          BY <1>1, <4>2
        <5> QED
          BY <4>1, <5>1
      <4>4. /\ ToSet(f[n]) = ToSet(f[n-1]) \union ToSet(seqs[n])
            /\ IsInjective(f[n])
        <5>1. f[n-1] \in Seq(S) /\ seqs[n] \in Seq(S) /\ IsInjective(f[n-1]) /\ IsInjective(seqs[n])
          BY <4>1
        <5>2. /\ ToSet(f[n-1] \o seqs[n]) = ToSet(f[n-1]) \union ToSet(seqs[n])
              /\ IsInjective(f[n-1] \o seqs[n])
          <6> DEFINE s == f[n-1]
                     t == seqs[n]
          <6>1. s \in Seq(S) /\ t \in Seq(S) /\ IsInjective(s) /\ IsInjective(t)
                /\ ToSet(s) \intersect ToSet(t) = {}
            BY <4>3, <5>1
          <6> HIDE DEF s, t
          <6>2. ToSet(s \o t) = ToSet(s) \union ToSet(t) /\ IsInjective(s \o t)
            BY <6>1, ConcatIs
          <6> QED
            BY <6>2 DEF s, t
        <5> QED
          BY <4>1, <5>2
      <4> QED
        BY <4>1, <4>2, <4>4
    <3> QED
      BY <3>1, <3>2
  <2>3. Good(L)
    <3> HIDE DEF Good
    <3> SUFFICES ASSUME T # {} PROVE FALSE
      <4>1. L \in 1 .. L
        BY <1>1, <1>3
      <4> QED
        BY <4>1
    <3>1. T \subseteq Nat
      BY <1>1
    <3>2. PICK m \in T : \A n \in T : m <= n
      BY <3>1, LeastNumber
    <3>3. m \in 1 .. L /\ ~Good(m) /\ (m = 1 \/ m - 1 \in 1 .. L)
      BY <1>1
    <3>4. m = 1 \/ Good(m - 1)
      BY <1>1, <3>2, <3>3
    <3> QED
      BY <2>2, <3>3, <3>4
  <2>4. FlattenSeq(seqs) \in Seq(S)
    <3>1. L \in 1 .. L
      BY <1>1, <1>3
    <3> HIDE DEF L
    <3> QED
      BY <2>1, <3>1
  <2>5. 1 .. L = DOMAIN seqs
    BY <1>1
  <2> QED
    BY <2>1, <2>3, <2>4, <2>5
<1> QED
  BY <1>2, <1>3

-----------------------------------------------------------------------------
(* The plan of an alert.                                                   *)

LEMMA DeliversIs ==
    ASSUME NEW r \in Recipients
    PROVE  /\ ChannelsToDeliver(r) \in Seq(Wanted) /\ IsInjective(ChannelsToDeliver(r))
           /\ ToSet(ChannelsToDeliver(r)) =
                {<<r.user, c>> : c \in {x \in r.enabled : x \in r.addresses \/ x = "in_app"}}
<1> DEFINE part == [i \in DOMAIN ChannelOrder |->
                      IF Delivers(r, ChannelOrder[i]) THEN <<<<r.user, ChannelOrder[i]>>>> ELSE <<>>]
           mine == {<<r.user, c>> : c \in {x \in r.enabled : x \in r.addresses \/ x = "in_app"}}
<1>1. /\ DOMAIN ChannelOrder = 1 .. 4
      /\ \A i, j \in 1 .. 4 : ChannelOrder[i] = ChannelOrder[j] => i = j
  BY DEF ChannelOrder
<1>2. \A c : c \in r.enabled => \E i \in 1 .. 4 : c = ChannelOrder[i]
  BY <1>1, AlertDeliveryAssumption DEF ToSet
<1>3. mine \subseteq Wanted
  BY DEF Wanted
<1>4. \A i \in 1 .. 4 : Delivers(r, ChannelOrder[i]) => <<r.user, ChannelOrder[i]>> \in mine
  BY DEF Delivers, AddressFor
<1>5. \A x \in mine : \E i \in 1 .. 4 : Delivers(r, ChannelOrder[i]) /\ x = <<r.user, ChannelOrder[i]>>
  BY <1>2 DEF Delivers, AddressFor
<1> HIDE DEF mine
<1>6. \A i \in 1 .. 4 :
        /\ part[i] \in Seq(mine) /\ IsInjective(part[i])
        /\ ToSet(part[i]) = IF Delivers(r, ChannelOrder[i]) THEN {<<r.user, ChannelOrder[i]>>} ELSE {}
  BY <1>1, <1>4 DEF IsInjective, ToSet
<1>7. part \in Seq(Seq(mine)) /\ DOMAIN part = 1 .. 4
  BY <1>1, <1>6
<1> HIDE DEF part
<1>8. \A i, j \in 1 .. 4 : i # j => ToSet(part[i]) \intersect ToSet(part[j]) = {}
  BY <1>1, <1>6
<1>9. /\ FlattenSeq(part) \in Seq(mine) /\ IsInjective(FlattenSeq(part))
      /\ ToSet(FlattenSeq(part)) = UNION {ToSet(part[i]) : i \in 1 .. 4}
  BY <1>6, <1>7, <1>8, FlattenKeeps
<1>10. UNION {ToSet(part[i]) : i \in 1 .. 4} = mine
  <2>1. \A i \in 1 .. 4 : ToSet(part[i]) \subseteq mine
    BY <1>4, <1>6
  <2>2. ASSUME NEW x \in mine PROVE \E i \in 1 .. 4 : x \in ToSet(part[i])
    BY <1>5, <1>6
  <2> QED
    BY <2>1, <2>2
<1>11. FlattenSeq(part) \in Seq(Wanted)
  BY <1>3, <1>9
<1> QED
  BY <1>9, <1>10, <1>11 DEF ChannelsToDeliver, part, mine

\* In whatever order the database gives the users, the plan has every wanted
\* delivery once.
LEMMA PlanIs ==
    ASSUME NEW order \in [1 .. Cardinality(Recipients) -> Recipients], IsInjective(order)
    PROVE  Plan(order) \in Seq(Wanted) /\ IsInjective(Plan(order)) /\ ToSet(Plan(order)) = Wanted
<1> DEFINE n == Cardinality(Recipients)
           parts == [i \in DOMAIN order |-> ChannelsToDeliver(order[i])]
           mine(r) == {<<r.user, c>> : c \in {x \in r.enabled : x \in r.addresses \/ x = "in_app"}}
<1>1. n \in Nat /\ DOMAIN order = 1 .. n
  BY AlertDeliveryAssumption, FS_CardinalityType
<1>2. \A r \in Recipients : \E i \in 1 .. n : order[i] = r
  <2>1. IsFiniteSet(1 .. n) /\ Cardinality(1 .. n) = n
    BY <1>1, FS_Interval
  <2>2. order \in Injection(1 .. n, Recipients)
    BY DEF Injection
  <2>3. order \in Surjection(1 .. n, Recipients)
    BY <2>1, <2>2, AlertDeliveryAssumption, FS_Injection
  <2> QED
    BY <2>3 DEF Surjection
<1>3. \A i \in 1 .. n : /\ parts[i] \in Seq(Wanted) /\ IsInjective(parts[i])
                        /\ ToSet(parts[i]) = mine(order[i])
  BY <1>1, DeliversIs
<1>4. parts \in Seq(Seq(Wanted)) /\ DOMAIN parts = 1 .. n
  BY <1>1, <1>3
<1>5. \A i, j \in 1 .. n : i # j => ToSet(parts[i]) \intersect ToSet(parts[j]) = {}
  <2> SUFFICES ASSUME NEW i \in 1 .. n, NEW j \in 1 .. n, i # j
               PROVE  mine(order[i]) \intersect mine(order[j]) = {}
    BY <1>3
  <2>1. order[i].user # order[j].user
    BY <1>1, AlertDeliveryAssumption DEF IsInjective
  <2> QED
    BY <2>1
<1> HIDE DEF parts
<1>6. /\ FlattenSeq(parts) \in Seq(Wanted) /\ IsInjective(FlattenSeq(parts))
      /\ ToSet(FlattenSeq(parts)) = UNION {ToSet(parts[i]) : i \in 1 .. n}
  BY <1>3, <1>4, <1>5, FlattenKeeps
<1>7. UNION {ToSet(parts[i]) : i \in 1 .. n} = UNION {mine(r) : r \in Recipients}
  <2> HIDE DEF mine
  <2>1. \A i \in 1 .. n : order[i] \in Recipients
    BY <1>1
  <2>2. UNION {ToSet(parts[i]) : i \in 1 .. n} \subseteq UNION {mine(r) : r \in Recipients}
    BY <1>3, <2>1
  <2>3. UNION {mine(r) : r \in Recipients} \subseteq UNION {ToSet(parts[i]) : i \in 1 .. n}
    BY <1>2, <1>3
  <2> QED
    BY <2>2, <2>3
<1> QED
  BY <1>6, <1>7 DEF Plan, Wanted, parts
-----------------------------------------------------------------------------
(* The notifier.  What it has called for an alert and what the alert has   *)
(* ahead are together what is wanted, and the alerts that wait are later   *)
(* than all it has called for.                                             *)

Fates == {"missed", "inbox", "unloaded", "done", "lost"}
AlertRow == [org : BOOLEAN, fate : Fates]
Call == [alert : Nat, user : {r.user : r \in Recipients}, channel : ToSet(ChannelOrder)]
CallsOf(a) == {<<log[i].user, log[i].channel>> : i \in {x \in DOMAIN log : log[x].alert = a}}

NotifierTyped ==
    /\ {notifier, dispatcher} \subseteq {"up", "draining", "down"}
    /\ alerts \in Seq(AlertRow) /\ inbox \in Seq(Nat) /\ log \in Seq(Call)
    /\ current \in [alert : Nat, ahead : Seq(Wanted)]

Logged ==
    /\ \A i \in DOMAIN log : log[i].alert \in DOMAIN alerts
    /\ \A i, j \in DOMAIN log : i < j => log[i].alert <= log[j].alert /\ log[i] # log[j]
    /\ \A a \in DOMAIN alerts :
         /\ CallsOf(a) \subseteq Wanted
         /\ alerts[a].fate = "done" /\ alerts[a].org => CallsOf(a) = Wanted

InLine ==
    /\ \A i \in DOMAIN inbox : /\ inbox[i] \in DOMAIN alerts /\ alerts[inbox[i]].fate = "inbox"
                               /\ current.alert < inbox[i]
    /\ \A i, j \in DOMAIN inbox : i < j => inbox[i] < inbox[j]
    /\ \A i \in DOMAIN inbox, j \in DOMAIN log : log[j].alert < inbox[i]
    /\ \A a \in DOMAIN alerts :
         alerts[a].fate = "inbox" => a = current.alert \/ \E i \in DOMAIN inbox : inbox[i] = a

InHand ==
    Busy => /\ current.alert \in DOMAIN alerts /\ alerts[current.alert].fate = "inbox"
            /\ current.ahead # <<>> /\ IsInjective(current.ahead)
            /\ \A i \in DOMAIN log : log[i].alert <= current.alert
            /\ CallsOf(current.alert) \intersect ToSet(current.ahead) = {}
            /\ CallsOf(current.alert) \union ToSet(current.ahead) = Wanted

NotifierInv == NotifierTyped /\ Logged /\ InLine /\ InHand

LEMMA AppendIs ==
    ASSUME NEW S, NEW s \in Seq(S), NEW e \in S
    PROVE  /\ Append(s, e) \in Seq(S) /\ Len(s) \in Nat /\ DOMAIN s = 1 .. Len(s)
           /\ DOMAIN Append(s, e) = DOMAIN s \union {Len(s) + 1} /\ Len(s) + 1 \notin DOMAIN s
           /\ Append(s, e)[Len(s) + 1] = e /\ \A i \in DOMAIN s : Append(s, e)[i] = s[i]
  OBVIOUS

LEMMA TailIs ==
    ASSUME NEW S, NEW s \in Seq(S), s # <<>>
    PROVE  /\ Len(s) \in Nat \ {0} /\ DOMAIN s = 1 .. Len(s) /\ Head(s) = s[1] /\ Head(s) \in S
           /\ Tail(s) \in Seq(S) /\ DOMAIN Tail(s) = 1 .. Len(s) - 1
           /\ \A i \in 1 .. Len(s) - 1 : Tail(s)[i] = s[i + 1]
  OBVIOUS

\* Only the fate of an alert changes.
LEMMA FateSet ==
    ASSUME NEW r \in AlertRow, NEW fate \in Fates
    PROVE  LET row == [r EXCEPT !.fate = fate]
           IN  row \in AlertRow /\ row.fate = fate /\ row.org = r.org
  BY DEF AlertRow

LEMMA RowsAre ==
    ASSUME NotifierTyped
    PROVE  /\ alerts \in Seq(AlertRow)
           /\ \A a \in DOMAIN alerts : alerts[a] \in AlertRow /\ alerts[a].fate \in Fates
<1>1. alerts \in Seq(AlertRow)
  BY DEF NotifierTyped
<1>2. \A r \in AlertRow : r.fate \in Fates
  BY DEF AlertRow
<1> QED
  BY <1>1, <1>2

\* What is wanted is a call.
LEMMA WantedIs ==
    ASSUME NEW c \in Wanted
    PROVE  /\ c = <<c[1], c[2]>> /\ c[1] \in {r.user : r \in Recipients}
           /\ c[2] \in ToSet(ChannelOrder)
  BY AlertDeliveryAssumption DEF Wanted

\* A sequence that loses its head loses that element, if it has no repeats.
LEMMA HeadGoes ==
    ASSUME NEW S, NEW s \in Seq(S), s # <<>>, IsInjective(s)
    PROVE  /\ IsInjective(Tail(s)) /\ ToSet(Tail(s)) = ToSet(s) \ {Head(s)} /\ Head(s) \in ToSet(s)
           /\ Tail(s) = <<>> => ToSet(s) = {Head(s)}
<1>1. /\ Len(s) \in Nat \ {0} /\ DOMAIN s = 1 .. Len(s) /\ Head(s) = s[1]
      /\ Tail(s) \in Seq(S) /\ DOMAIN Tail(s) = 1 .. Len(s) - 1
      /\ \A i \in 1 .. Len(s) - 1 : Tail(s)[i] = s[i + 1]
  BY TailIs
<1>2. IsInjective(Tail(s))
  BY <1>1 DEF IsInjective
<1>3. ToSet(Tail(s)) \subseteq ToSet(s) \ {Head(s)}
  <2> SUFFICES ASSUME NEW i \in 1 .. Len(s) - 1 PROVE Tail(s)[i] \in ToSet(s) /\ Tail(s)[i] # s[1]
    BY <1>1 DEF ToSet
  <2>1. Tail(s)[i] = s[i + 1] /\ i + 1 \in 1 .. Len(s) /\ i + 1 # 1 /\ 1 \in 1 .. Len(s)
    BY <1>1
  <2> QED
    BY <1>1, <2>1 DEF ToSet, IsInjective
<1>4. ToSet(s) \ {Head(s)} \subseteq ToSet(Tail(s))
  <2> SUFFICES ASSUME NEW i \in 1 .. Len(s), s[i] # s[1] PROVE s[i] \in ToSet(Tail(s))
    BY <1>1 DEF ToSet
  <2>1. i - 1 \in 1 .. Len(s) - 1 /\ s[i] = s[(i - 1) + 1]
    BY <1>1
  <2> QED
    BY <1>1, <2>1 DEF ToSet
<1>5. Head(s) \in ToSet(s)
  BY <1>1 DEF ToSet
<1>6. ToSet(<<>>) = {}
  BY DEF ToSet
<1> QED
  BY <1>2, <1>3, <1>4, <1>5, <1>6

-----------------------------------------------------------------------------
LEMMA StepPublishAlert == NotifierInv /\ PublishAlert => NotifierInv'
<1> SUFFICES ASSUME NotifierInv, NEW org \in OrgNamed,
                    alerts' = Append(alerts, [org |-> org,
                                              fate |-> IF notifier = "down" THEN "missed" ELSE "inbox"]),
                    inbox' = IF notifier = "down" THEN inbox ELSE Append(inbox, Len(alerts) + 1),
                    UNCHANGED <<notifier, current, log, dispatching>>
             PROVE  NotifierInv'
  BY DEF PublishAlert
<1> DEFINE new == [org |-> org, fate |-> IF notifier = "down" THEN "missed" ELSE "inbox"]
           n == Len(alerts) + 1
<1>1. new \in AlertRow /\ new.fate = IF notifier = "down" THEN "missed" ELSE "inbox"
  BY AlertDeliveryAssumption DEF AlertRow, Fates
<1> HIDE DEF new
<1>2. /\ alerts' \in Seq(AlertRow) /\ n \in Nat \ {0}
      /\ DOMAIN alerts' = DOMAIN alerts \union {n} /\ n \notin DOMAIN alerts
      /\ alerts'[n] = new /\ \A a \in DOMAIN alerts : alerts'[a] = alerts[a] /\ a \in Nat /\ a < n
  <2>1. alerts \in Seq(AlertRow) /\ alerts' = Append(alerts, new)
    BY DEF NotifierInv, NotifierTyped, new
  <2>2. DOMAIN alerts = 1 .. Len(alerts) /\ Len(alerts) \in Nat
    BY <2>1
  <2> QED
    BY <1>1, <2>1, <2>2, AppendIs
<1>3. /\ inbox' \in Seq(Nat) /\ DOMAIN inbox \subseteq DOMAIN inbox'
      /\ \A i \in DOMAIN inbox' : i \in Nat
      /\ \A i \in DOMAIN inbox : inbox'[i] = inbox[i]
      /\ \A i \in DOMAIN inbox' \ DOMAIN inbox :
           inbox'[i] = n /\ new.fate = "inbox" /\ \A j \in DOMAIN inbox' \ {i} : j < i
      /\ new.fate = "inbox" => \E i \in DOMAIN inbox' : inbox'[i] = n
  <2>1. inbox \in Seq(Nat) /\ DOMAIN inbox = 1 .. Len(inbox) /\ Len(inbox) \in Nat
    BY DEF NotifierInv, NotifierTyped
  <2> HIDE DEF n
  <2>2. CASE notifier = "down"
    BY <1>1, <2>1, <2>2
  <2>3. CASE notifier # "down"
    <3>1. inbox' = Append(inbox, n)
      BY <2>3 DEF n
    <3>2. /\ inbox' \in Seq(Nat) /\ DOMAIN inbox' = DOMAIN inbox \union {Len(inbox) + 1}
          /\ inbox'[Len(inbox) + 1] = n /\ \A i \in DOMAIN inbox : inbox'[i] = inbox[i]
      BY <1>2, <2>1, <3>1, AppendIs
    <3> QED
      BY <1>1, <2>1, <2>3, <3>2
  <2> QED
    BY <2>2, <2>3
<1> HIDE DEF n
<1>4. current.alert \in Nat /\ log \in Seq(Call) /\ (Busy \/ current.alert = 0)
  BY DEF NotifierInv, NotifierTyped, Busy, Nothing
<1>5. current.alert < n /\ \A i \in DOMAIN log : log[i].alert \in DOMAIN alerts /\ log[i].alert < n
  BY <1>2, <1>4 DEF NotifierInv, Logged, InHand
<1>6. \A a : CallsOf(a)' = CallsOf(a)
  BY DEF CallsOf
<1>7. NotifierTyped'
  BY <1>2, <1>3 DEF NotifierInv, NotifierTyped, dispatching
<1>8. Logged'
  <2>1. CallsOf(n) = {}
    BY <1>2, <1>5 DEF CallsOf
  <2>2. new.fate # "done"
    BY <1>1
  <2> QED
    BY <1>2, <1>5, <1>6, <2>1, <2>2 DEF NotifierInv, Logged
<1>9. InLine'
  <2> USE DEF NotifierInv, InLine
  <2>1. \A i \in DOMAIN inbox' : /\ inbox'[i] \in DOMAIN alerts' /\ alerts'[inbox'[i]].fate = "inbox"
                                 /\ current'.alert < inbox'[i]
    BY <1>2, <1>3, <1>5
  <2>2. \A i, j \in DOMAIN inbox' : i < j => inbox'[i] < inbox'[j]
    BY <1>2, <1>3
  <2>3. \A i \in DOMAIN inbox', j \in DOMAIN log' : log'[j].alert < inbox'[i]
    BY <1>3, <1>5
  <2>4. \A a \in DOMAIN alerts' :
          alerts'[a].fate = "inbox" => a = current'.alert \/ \E i \in DOMAIN inbox' : inbox'[i] = a
    BY <1>2, <1>3
  <2> QED
    BY <2>1, <2>2, <2>3, <2>4
<1>10. InHand'
  BY <1>2, <1>6 DEF NotifierInv, InHand, Busy
<1> QED
  BY <1>7, <1>8, <1>9, <1>10 DEF NotifierInv

-----------------------------------------------------------------------------
\* The alert at the head of the line goes, and is current or has another fate.
LEMMA Taken ==
    ASSUME NotifierInv, inbox # <<>>, ~Busy
    PROVE  LET a == Head(inbox)
           IN  /\ a \in DOMAIN alerts /\ a \in Nat /\ alerts[a].fate = "inbox" /\ CallsOf(a) = {}
               /\ \A i \in DOMAIN log : log[i].alert < a
               /\ Tail(inbox) \in Seq(Nat)
               /\ \A i \in DOMAIN Tail(inbox) :
                    /\ Tail(inbox)[i] \in DOMAIN alerts \ {a} /\ alerts[Tail(inbox)[i]].fate = "inbox"
                    /\ a < Tail(inbox)[i] /\ current.alert < Tail(inbox)[i]
                    /\ \A j \in DOMAIN log : log[j].alert < Tail(inbox)[i]
               /\ \A i, j \in DOMAIN Tail(inbox) : i < j => Tail(inbox)[i] < Tail(inbox)[j]
               /\ \A b \in DOMAIN alerts \ {a} :
                    alerts[b].fate = "inbox" => \E i \in DOMAIN Tail(inbox) : Tail(inbox)[i] = b
<1> DEFINE a == Head(inbox)
           rest == Tail(inbox)
<1> USE DEF NotifierInv
<1>1. /\ inbox \in Seq(Nat) /\ Len(inbox) \in Nat \ {0} /\ DOMAIN inbox = 1 .. Len(inbox) /\ a = inbox[1]
      /\ rest \in Seq(Nat) /\ DOMAIN rest = 1 .. Len(inbox) - 1
      /\ \A i \in 1 .. Len(inbox) - 1 : rest[i] = inbox[i + 1]
  <2>1. inbox \in Seq(Nat)
    BY DEF NotifierTyped
  <2> QED
    BY <2>1, TailIs
<1> HIDE DEF a, rest
<1>2. /\ a \in DOMAIN alerts /\ a \in Nat /\ alerts[a].fate = "inbox"
      /\ \A i \in DOMAIN log : log[i].alert < a
  BY <1>1 DEF InLine
<1>3. CallsOf(a) = {}
  <2>1. \A i \in DOMAIN log : log[i].alert # a
    BY <1>2
  <2> QED
    BY <2>1 DEF CallsOf
<1>4. \A i \in DOMAIN rest : /\ i + 1 \in DOMAIN inbox /\ 1 \in DOMAIN inbox
                            /\ rest[i] = inbox[i + 1] /\ 1 < i + 1
  BY <1>1
<1>5. \A i \in DOMAIN inbox : inbox[i] \in Nat /\ (i = 1 \/ (i - 1 \in DOMAIN rest /\ rest[i - 1] = inbox[i]))
  <2> SUFFICES ASSUME NEW i \in DOMAIN inbox
               PROVE  inbox[i] \in Nat /\ (i = 1 \/ (i - 1 \in DOMAIN rest /\ rest[i - 1] = inbox[i]))
    OBVIOUS
  <2>1. i = 1 \/ (i - 1 \in 1 .. Len(inbox) - 1 /\ (i - 1) + 1 = i)
    BY <1>1
  <2> QED
    BY <1>1, <2>1
<1>6. \A i \in DOMAIN rest : a < rest[i]
  BY <1>1, <1>4 DEF InLine
<1>7. \A i \in DOMAIN rest :
        /\ rest[i] \in DOMAIN alerts \ {a} /\ alerts[rest[i]].fate = "inbox"
        /\ current.alert < rest[i]
        /\ \A j \in DOMAIN log : log[j].alert < rest[i]
  BY <1>2, <1>4, <1>5, <1>6 DEF InLine
<1>8. \A i, j \in DOMAIN rest : i < j => rest[i] < rest[j]
  <2> SUFFICES ASSUME NEW i \in DOMAIN rest, NEW j \in DOMAIN rest, i < j PROVE rest[i] < rest[j]
    OBVIOUS
  <2>1. i + 1 < j + 1
    BY <1>1
  <2> QED
    BY <1>4, <2>1 DEF InLine
<1>9. \A b \in DOMAIN alerts \ {a} : alerts[b].fate = "inbox" => \E i \in DOMAIN rest : rest[i] = b
  <2> SUFFICES ASSUME NEW b \in DOMAIN alerts \ {a}, alerts[b].fate = "inbox"
               PROVE  \E i \in DOMAIN rest : rest[i] = b
    OBVIOUS
  <2>1. DOMAIN alerts \subseteq Nat \ {0}
    <3>1. alerts \in Seq(AlertRow)
      BY DEF NotifierTyped
    <3> QED
      BY <3>1
  <2>2. current.alert = 0
    BY DEF Busy, Nothing
  <2>3. PICK i \in DOMAIN inbox : inbox[i] = b
    BY <2>1, <2>2 DEF InLine
  <2> QED
    BY <1>1, <1>5, <2>3
<1> QED
  BY <1>1, <1>2, <1>3, <1>6, <1>7, <1>8, <1>9 DEF a, rest

\* An alert that is settled without a call.
LEMMA Settled ==
    ASSUME NotifierInv, inbox # <<>>, ~Busy, inbox' = Tail(inbox),
           NEW fate \in {"done", "unloaded"},
           alerts' = [alerts EXCEPT ![Head(inbox)].fate = fate],
           fate = "done" /\ alerts[Head(inbox)].org => Wanted = {},
           UNCHANGED <<notifier, current, log, dispatching>>
    PROVE  NotifierInv'
<1>0. PICK a : a = Head(inbox)
  OBVIOUS
<1>1. /\ a \in DOMAIN alerts /\ a \in Nat /\ alerts[a].fate = "inbox" /\ CallsOf(a) = {}
      /\ inbox' \in Seq(Nat)
      /\ \A i \in DOMAIN inbox' :
           /\ inbox'[i] \in DOMAIN alerts \ {a} /\ alerts[inbox'[i]].fate = "inbox"
           /\ current.alert < inbox'[i] /\ \A j \in DOMAIN log : log[j].alert < inbox'[i]
      /\ \A i, j \in DOMAIN inbox' : i < j => inbox'[i] < inbox'[j]
      /\ \A b \in DOMAIN alerts \ {a} :
           alerts[b].fate = "inbox" => \E i \in DOMAIN inbox' : inbox'[i] = b
  BY <1>0, Taken
<1>2. /\ alerts' \in Seq(AlertRow) /\ DOMAIN alerts' = DOMAIN alerts
      /\ \A b \in DOMAIN alerts \ {a} : alerts'[b] = alerts[b]
      /\ alerts'[a].fate = fate /\ alerts'[a].org = alerts[a].org
  <2> DEFINE row == [alerts[a] EXCEPT !.fate = fate]
  <2>1. alerts \in Seq(AlertRow) /\ alerts[a] \in AlertRow /\ fate \in Fates
    BY <1>1, RowsAre DEF NotifierInv, Fates
  <2>2. row \in AlertRow /\ row.fate = fate /\ row.org = alerts[a].org
    BY <2>1, FateSet
  <2>3. alerts' = [alerts EXCEPT ![a] = row]
    BY <1>0
  <2> HIDE DEF row
  <2>4. alerts' \in Seq(AlertRow) /\ DOMAIN alerts' = DOMAIN alerts
        /\ alerts'[a] = row /\ \A b \in DOMAIN alerts \ {a} : alerts'[b] = alerts[b]
    BY <1>1, <2>1, <2>2, <2>3
  <2> QED
    BY <2>2, <2>4
<1>3. \A b : CallsOf(b)' = CallsOf(b)
  BY DEF CallsOf
<1>4. NotifierTyped'
  BY <1>1, <1>2 DEF NotifierInv, NotifierTyped, dispatching
<1>5. Logged'
  <2>1. fate = "done" /\ alerts[a].org => Wanted = {}
    BY <1>0
  <2> QED
    <3>1. ASSUME NEW b \in DOMAIN alerts, b # a
          PROVE  /\ CallsOf(b)' \subseteq Wanted
                 /\ alerts'[b].fate = "done" /\ alerts'[b].org => CallsOf(b)' = Wanted
      BY <1>2, <1>3, <3>1 DEF NotifierInv, Logged
    <3>2. alerts'[a].fate = "done" /\ alerts'[a].org => CallsOf(a)' = Wanted
      <4>1. CallsOf(a)' = {}
        BY <1>1, <1>3
      <4> QED
        BY <1>2, <2>1, <4>1
    <3>3. CallsOf(a)' \subseteq Wanted
      BY <1>1, <1>3
    <3>4. /\ \A i \in DOMAIN log' : log'[i].alert \in DOMAIN alerts'
          /\ \A i, j \in DOMAIN log' : i < j => log'[i].alert <= log'[j].alert /\ log'[i] # log'[j]
      BY <1>2 DEF NotifierInv, Logged
    <3> QED
      BY <1>2, <3>1, <3>2, <3>3, <3>4 DEF Logged
<1>6. InLine'
  BY <1>1, <1>2 DEF NotifierInv, InLine
<1>7. InHand'
  BY DEF InHand, Busy
<1> QED
  BY <1>4, <1>5, <1>6, <1>7 DEF NotifierInv

LEMMA StepLoad == NotifierInv /\ (LoadRecipients \/ LoadFails) => NotifierInv'
<1>1. ASSUME NotifierInv, LoadFails PROVE NotifierInv'
  <2>1. /\ inbox # <<>> /\ ~Busy /\ inbox' = Tail(inbox)
        /\ alerts' = [alerts EXCEPT ![Head(inbox)].fate = "unloaded"]
        /\ UNCHANGED <<notifier, current, log, dispatching>>
    BY <1>1 DEF LoadFails
  <2> QED
    BY <1>1, <2>1, Settled
<1>2. ASSUME NotifierInv, NEW order \in [1 .. Cardinality(Recipients) -> Recipients],
             IsInjective(order), ~Busy, inbox # <<>>, inbox' = Tail(inbox),
             NEW calls, calls = (IF alerts[Head(inbox)].org THEN Plan(order) ELSE <<>>),
             UNCHANGED <<notifier, log, dispatching>>,
             \/ /\ calls = <<>> /\ UNCHANGED current
                /\ alerts' = [alerts EXCEPT ![Head(inbox)].fate = "done"]
             \/ /\ calls # <<>> /\ UNCHANGED alerts
                /\ current' = [alert |-> Head(inbox), ahead |-> calls]
      PROVE  NotifierInv'
  <2>1. Plan(order) \in Seq(Wanted) /\ IsInjective(Plan(order)) /\ ToSet(Plan(order)) = Wanted
    BY <1>2, PlanIs
  <2>2. CASE calls = <<>>
    <3>1. ToSet(<<>>) = {}
      BY DEF ToSet
    <3>2. alerts[Head(inbox)].org => Wanted = {}
      BY <1>2, <2>1, <2>2, <3>1
    <3>3. /\ alerts' = [alerts EXCEPT ![Head(inbox)].fate = "done"]
          /\ UNCHANGED <<notifier, current, log, dispatching>>
      BY <1>2, <2>2
    <3> QED
      BY <1>2, <3>2, <3>3, Settled
  <2>3. CASE calls # <<>>
    <3> DEFINE a == Head(inbox)
    <3>1. /\ a \in DOMAIN alerts /\ a \in Nat /\ alerts[a].fate = "inbox" /\ CallsOf(a) = {}
          /\ \A i \in DOMAIN log : log[i].alert < a
          /\ inbox' \in Seq(Nat)
          /\ \A i \in DOMAIN inbox' :
               /\ inbox'[i] \in DOMAIN alerts \ {a} /\ alerts[inbox'[i]].fate = "inbox"
               /\ a < inbox'[i] /\ \A j \in DOMAIN log : log[j].alert < inbox'[i]
          /\ \A i, j \in DOMAIN inbox' : i < j => inbox'[i] < inbox'[j]
          /\ \A b \in DOMAIN alerts \ {a} :
               alerts[b].fate = "inbox" => \E i \in DOMAIN inbox' : inbox'[i] = b
      BY <1>2, Taken
    <3>2. /\ calls \in Seq(Wanted) /\ IsInjective(calls) /\ ToSet(calls) = Wanted
          /\ UNCHANGED alerts /\ current'.alert = a /\ current'.ahead = calls
          /\ current' \in [alert : Nat, ahead : Seq(Wanted)]
      BY <1>2, <2>1, <2>3, <3>1
    <3> HIDE DEF a
    <3>3. \A b : CallsOf(b)' = CallsOf(b)
      BY <1>2 DEF CallsOf
    <3>4. NotifierTyped'
      BY <1>2, <3>1, <3>2 DEF NotifierInv, NotifierTyped, dispatching
    <3>5. Logged'
      BY <1>2, <3>2, <3>3 DEF NotifierInv, Logged
    <3>6. InLine'
      BY <1>2, <3>1, <3>2 DEF NotifierInv, InLine
    <3>7. InHand'
      <4>1. \A i \in DOMAIN log : log[i].alert <= a
        <5>1. \A i \in DOMAIN log : log[i].alert \in Nat
          <6>1. log \in Seq(Call)
            BY <1>2 DEF NotifierInv, NotifierTyped
          <6>2. \A c \in Call : c.alert \in Nat
            BY DEF Call
          <6> QED
            BY <6>1, <6>2
        <5> QED
          BY <3>1, <5>1
      <4> QED
        BY <1>2, <2>3, <3>1, <3>2, <3>3, <4>1 DEF InHand
    <3> QED
      BY <3>4, <3>5, <3>6, <3>7 DEF NotifierInv
  <2> QED
    BY <2>2, <2>3
<1> QED
  BY <1>1, <1>2 DEF LoadRecipients

-----------------------------------------------------------------------------
LEMMA StepDeliver == NotifierInv /\ DeliverChannel => NotifierInv'
<1> SUFFICES ASSUME NotifierInv, DeliverChannel PROVE NotifierInv'
  OBVIOUS
<1>0. PICK a : a = current.alert
  OBVIOUS
<1> DEFINE c == Head(current.ahead)
           left == Tail(current.ahead)
           entry == [alert |-> a, user |-> c[1], channel |-> c[2]]
<1>1. /\ a \in DOMAIN alerts /\ a \in Nat /\ alerts[a].fate = "inbox"
      /\ current.ahead \in Seq(Wanted) /\ current.ahead # <<>> /\ IsInjective(current.ahead)
      /\ \A i \in DOMAIN log : log[i].alert <= a
      /\ CallsOf(a) \intersect ToSet(current.ahead) = {}
      /\ CallsOf(a) \union ToSet(current.ahead) = Wanted
  BY <1>0 DEF DeliverChannel, NotifierInv, NotifierTyped, InHand
<1>2. /\ left \in Seq(Wanted) /\ IsInjective(left) /\ ToSet(left) = ToSet(current.ahead) \ {c}
      /\ c \in ToSet(current.ahead) /\ (left = <<>> => ToSet(current.ahead) = {c})
  <2>1. left \in Seq(Wanted)
    BY <1>1, TailIs
  <2> QED
    BY <1>1, <2>1, HeadGoes
<1>3. c \in Wanted /\ c \notin CallsOf(a)
  BY <1>1, <1>2
<1>4. /\ log' = Append(log, entry) /\ UNCHANGED <<notifier, inbox, dispatching>>
      /\ current' = IF left = <<>> THEN Nothing ELSE [current EXCEPT !.ahead = left]
      /\ alerts' = IF left = <<>> THEN [alerts EXCEPT ![a].fate = "done"] ELSE alerts
  BY <1>0 DEF DeliverChannel
<1> HIDE DEF left, c
<1>5. entry \in Call /\ entry.alert = a /\ <<entry.user, entry.channel>> = c
  BY <1>1, <1>3, WantedIs DEF Call
<1> HIDE DEF entry
<1> DEFINE m == Len(log) + 1
<1>6. /\ log' \in Seq(Call) /\ m \in Nat /\ DOMAIN log' = DOMAIN log \union {m} /\ m \notin DOMAIN log
      /\ log'[m] = entry
      /\ \A i \in DOMAIN log : log'[i] = log[i] /\ i \in Nat /\ i < m
  <2>1. log \in Seq(Call)
    BY DEF NotifierInv, NotifierTyped
  <2>2. DOMAIN log = 1 .. Len(log) /\ Len(log) \in Nat
    BY <2>1
  <2> QED
    BY <1>4, <1>5, <2>1, <2>2, AppendIs
<1> HIDE DEF m
<1>7. CallsOf(a)' = CallsOf(a) \union {c} /\ \A b : b # a => CallsOf(b)' = CallsOf(b)
  <2>1. CallsOf(a)' = CallsOf(a) \union {c}
    <3>1. {x \in DOMAIN log' : log'[x].alert = a} = {x \in DOMAIN log : log[x].alert = a} \union {m}
      BY <1>5, <1>6
    <3>2. <<log'[m].user, log'[m].channel>> = c
      BY <1>5, <1>6
    <3>3. \A x \in DOMAIN log : <<log'[x].user, log'[x].channel>> = <<log[x].user, log[x].channel>>
      BY <1>6
    <3> QED
      BY <3>1, <3>2, <3>3 DEF CallsOf
  <2>2. ASSUME NEW b, b # a PROVE CallsOf(b)' = CallsOf(b)
    <3>1. {x \in DOMAIN log' : log'[x].alert = b} = {x \in DOMAIN log : log[x].alert = b}
      BY <1>5, <1>6, <2>2
    <3> QED
      BY <1>6, <3>1 DEF CallsOf
  <2> QED
    BY <2>1, <2>2
<1>8. /\ alerts' \in Seq(AlertRow) /\ DOMAIN alerts' = DOMAIN alerts
      /\ \A b \in DOMAIN alerts \ {a} : alerts'[b] = alerts[b]
      /\ alerts'[a].fate = (IF left = <<>> THEN "done" ELSE "inbox") /\ alerts'[a].org = alerts[a].org
  <2> DEFINE row == [alerts[a] EXCEPT !.fate = "done"]
  <2>1. alerts \in Seq(AlertRow) /\ alerts[a] \in AlertRow
    BY <1>1, RowsAre DEF NotifierInv
  <2>2. row \in AlertRow /\ row.fate = "done" /\ row.org = alerts[a].org
    BY <2>1, FateSet DEF Fates
  <2>3. CASE left = <<>>
    <3>1. alerts' = [alerts EXCEPT ![a] = row]
      BY <1>4, <2>3
    <3> HIDE DEF row
    <3>2. alerts' \in Seq(AlertRow) /\ DOMAIN alerts' = DOMAIN alerts
          /\ alerts'[a] = row /\ \A b \in DOMAIN alerts \ {a} : alerts'[b] = alerts[b]
      BY <1>1, <2>1, <2>2, <3>1
    <3> QED
      BY <2>2, <2>3, <3>2
  <2>4. CASE left # <<>>
    BY <1>1, <1>4, <2>1, <2>4
  <2> QED
    BY <2>3, <2>4
<1>9. /\ current' \in [alert : Nat, ahead : Seq(Wanted)]
      /\ left # <<>> => current'.alert = a /\ current'.ahead = left
      /\ left = <<>> => current' = Nothing /\ current'.alert = 0
  <2>1. current \in [alert : Nat, ahead : Seq(Wanted)]
    BY DEF NotifierInv, NotifierTyped
  <2>2. CASE left = <<>>
    BY <1>4, <2>2 DEF Nothing
  <2>3. CASE left # <<>>
    BY <1>0, <1>2, <1>4, <2>1, <2>3
  <2> QED
    BY <2>2, <2>3
<1>10. NotifierTyped'
  BY <1>4, <1>6, <1>8, <1>9 DEF NotifierInv, NotifierTyped, dispatching
<1>11. Logged'
  <2>1. \A i \in DOMAIN log' : log'[i].alert \in DOMAIN alerts'
    BY <1>1, <1>5, <1>6, <1>8 DEF NotifierInv, Logged
  <2>2. \A i, j \in DOMAIN log' : i < j => log'[i].alert <= log'[j].alert /\ log'[i] # log'[j]
    <3>1. ASSUME NEW i \in DOMAIN log PROVE log[i] # entry
      <4>1. log[i].alert = a => <<log[i].user, log[i].channel>> \in CallsOf(a)
        BY DEF CallsOf
      <4> QED
        BY <1>3, <1>5, <4>1
    <3>2. \A i \in DOMAIN log : ~(m < i)
      BY <1>6
    <3>3. ~(m < m)
      BY <1>6
    <3> QED
      BY <1>1, <1>5, <1>6, <3>1, <3>2, <3>3 DEF NotifierInv, Logged
  <2>3. ASSUME NEW b \in DOMAIN alerts, b # a
        PROVE  /\ CallsOf(b)' \subseteq Wanted
               /\ alerts'[b].fate = "done" /\ alerts'[b].org => CallsOf(b)' = Wanted
    BY <1>7, <1>8, <2>3 DEF NotifierInv, Logged
  <2>4. CallsOf(a)' \subseteq Wanted /\ (left = <<>> => CallsOf(a)' = Wanted)
    BY <1>1, <1>2, <1>3, <1>7
  <2> QED
    <3>1. alerts'[a].fate = "done" /\ alerts'[a].org => CallsOf(a)' = Wanted
      BY <1>8, <2>4
    <3> QED
      BY <1>8, <2>1, <2>2, <2>3, <2>4, <3>1 DEF Logged
<1>12. InLine'
  <2> USE DEF NotifierInv, InLine
  <2>1. \A i \in DOMAIN inbox : inbox[i] \in DOMAIN alerts /\ a < inbox[i] /\ inbox[i] # a /\ inbox[i] \in Nat
                                /\ alerts'[inbox[i]] = alerts[inbox[i]]
    <3>1. \A i \in DOMAIN inbox : inbox[i] \in DOMAIN alerts /\ a < inbox[i] /\ inbox[i] \in Nat
      BY <1>0 DEF NotifierTyped
    <3> QED
      BY <1>1, <1>8, <3>1
  <2>2. \A i \in DOMAIN inbox' : /\ inbox'[i] \in DOMAIN alerts' /\ alerts'[inbox'[i]].fate = "inbox"
                                 /\ current'.alert < inbox'[i]
    BY <1>1, <1>4, <1>8, <1>9, <2>1
  <2>3. \A i \in DOMAIN inbox', j \in DOMAIN log' : log'[j].alert < inbox'[i]
    BY <1>4, <1>5, <1>6, <2>1
  <2>4. \A b \in DOMAIN alerts' :
          alerts'[b].fate = "inbox" => b = current'.alert \/ \E i \in DOMAIN inbox' : inbox'[i] = b
    BY <1>0, <1>4, <1>8, <1>9
  <2> QED
    BY <1>4, <2>2, <2>3, <2>4
<1>13. InHand'
  <2>1. CASE left = <<>>
    BY <1>9, <2>1 DEF InHand, Busy
  <2>2. CASE left # <<>>
    <3>1. \A i \in DOMAIN log' : log'[i].alert <= a
      BY <1>1, <1>5, <1>6
    <3>2. /\ CallsOf(a)' \intersect ToSet(left) = {}
          /\ CallsOf(a)' \union ToSet(left) = Wanted
      BY <1>1, <1>2, <1>3, <1>7
    <3>3. alerts'[a].fate = "inbox" /\ a \in DOMAIN alerts'
      BY <1>1, <1>8, <2>2
    <3> QED
      BY <1>2, <1>9, <2>2, <3>1, <3>2, <3>3 DEF InHand
  <2> QED
    BY <2>1, <2>2
<1> QED
  BY <1>10, <1>11, <1>12, <1>13 DEF NotifierInv

\* A notifier that ends forgets the line, and what it has in hand if it is killed.
LEMMA StepEnd == NotifierInv /\ (NotifierExits \/ NotifierCrashes) => NotifierInv'
<1> SUFFICES ASSUME NotifierInv, NotifierExits \/ NotifierCrashes PROVE NotifierInv'
  OBVIOUS
<1>1. /\ notifier' = "down" /\ dispatcher' = dispatcher /\ log' = log
      /\ inbox' = <<>> /\ current' = Nothing /\ alerts' = Unread
  BY DEF NotifierExits, NotifierCrashes, Busy, dispatching
<1>2. /\ alerts' \in Seq(AlertRow) /\ DOMAIN alerts' = DOMAIN alerts
      /\ \A a \in DOMAIN alerts :
           /\ alerts'[a].fate = (IF alerts[a].fate = "inbox" THEN "lost" ELSE alerts[a].fate)
           /\ alerts'[a].org = alerts[a].org
  <2> DEFINE New(a) == IF alerts[a].fate = "inbox" THEN [alerts[a] EXCEPT !.fate = "lost"] ELSE alerts[a]
  <2>1. alerts \in Seq(AlertRow) /\ DOMAIN alerts = 1 .. Len(alerts) /\ Len(alerts) \in Nat
    BY DEF NotifierInv, NotifierTyped
  <2>2. \A a \in DOMAIN alerts :
          /\ New(a) \in AlertRow /\ New(a).org = alerts[a].org
          /\ New(a).fate = IF alerts[a].fate = "inbox" THEN "lost" ELSE alerts[a].fate
    <3>1. ASSUME NEW a \in DOMAIN alerts
          PROVE  /\ New(a) \in AlertRow /\ New(a).org = alerts[a].org
                 /\ New(a).fate = IF alerts[a].fate = "inbox" THEN "lost" ELSE alerts[a].fate
      <4>1. alerts[a] \in AlertRow /\ "lost" \in Fates
        BY RowsAre DEF NotifierInv, Fates
      <4> QED
        BY <4>1, FateSet
    <3> QED
      BY <3>1
  <2>3. alerts' = [a \in 1 .. Len(alerts) |-> New(a)]
    BY <1>1, <2>1 DEF Unread
  <2> HIDE DEF New
  <2>4. alerts' \in Seq(AlertRow) /\ DOMAIN alerts' = DOMAIN alerts
        /\ \A a \in DOMAIN alerts : alerts'[a] = New(a)
    BY <2>1, <2>2, <2>3
  <2> QED
    BY <2>2, <2>4
<1>3. DOMAIN inbox' = {} /\ inbox' \in Seq(Nat)
  BY <1>1
<1>4. \A b : CallsOf(b)' = CallsOf(b)
  BY <1>1 DEF CallsOf
<1>5. NotifierTyped'
  <2>1. current' \in [alert : Nat, ahead : Seq(Wanted)]
    BY <1>1 DEF Nothing
  <2> QED
    BY <1>1, <1>2, <1>3, <2>1 DEF NotifierInv, NotifierTyped
<1>6. Logged'
  BY <1>1, <1>2, <1>4 DEF NotifierInv, Logged
<1>7. InLine'
  BY <1>2, <1>3 DEF InLine
<1>8. InHand'
  BY <1>1 DEF InHand, Busy
<1> QED
  BY <1>5, <1>6, <1>7, <1>8 DEF NotifierInv

LEMMA NotifierInvariance == Spec => []NotifierInv
<1>1. Init => NotifierInv
  <2> SUFFICES ASSUME Init PROVE NotifierInv
    OBVIOUS
  <2>1. NotifierTyped
    BY DEF Init, NotifierTyped, Nothing
  <2>2. DOMAIN inbox = {} /\ DOMAIN log = {} /\ DOMAIN alerts = {} /\ ~Busy
    BY DEF Init, Busy
  <2> QED
    BY <2>1, <2>2 DEF NotifierInv, Logged, InLine, InHand
<1>2. NotifierInv /\ [Next]_vars => NotifierInv'
  <2> SUFFICES ASSUME NotifierInv, [Next]_vars PROVE NotifierInv'
    OBVIOUS
  <2>1. ASSUME UNCHANGED <<inbox, current, alerts, log>>,
               {notifier', dispatcher'} \subseteq {"up", "draining", "down"}
        PROVE  NotifierInv'
    <3>1. \A a : CallsOf(a)' = CallsOf(a)
      BY <2>1 DEF CallsOf
    <3> QED
      BY <2>1, <3>1 DEF NotifierInv, NotifierTyped, Logged, InLine, InHand, Busy
  <2>2. CASE \/ PublishHook \/ DispatcherExits \/ Stop \/ DispatcherCrashes \/ Restart \/ UNCHANGED vars
             \/ \E h \in DOMAIN hooks : TaskStep(h) \/ EndpointHandles(h) \/ EndpointHandlesStray(h)
    <3>1. UNCHANGED <<inbox, current, alerts, log>>
      BY <2>2 DEF PublishHook, DispatcherExits, Stop, DispatcherCrashes, Restart, vars, notifying, Turn,
         TaskStep, AttemptEnds, Post, Answer, Refuse, LoseAnswer, Wake, EndpointHandles, EndpointHandlesStray
    <3>2. {notifier', dispatcher'} \subseteq {"up", "draining", "down"}
      BY <2>2 DEF PublishHook, DispatcherExits, Stop, DispatcherCrashes, Restart, vars, notifying, Turn,
         TaskStep, AttemptEnds, Post, Answer, Refuse, LoseAnswer, Wake, EndpointHandles, EndpointHandlesStray,
         NotifierInv, NotifierTyped
    <3> QED
      BY <2>1, <3>1, <3>2
  <2> QED
    BY <2>2, StepPublishAlert, StepLoad, StepDeliver, StepEnd DEF Next, NotifierStep
<1> QED
  BY <1>1, <1>2, PTL DEF Spec

\* An alert whose delivery ends has been given to every channel a user enabled and
\* has an address for, once each and in the order of the alerts, whatever the other
\* channels did (run, process_event, deliver_to_recipient).
THEOREM ChannelsTried == Spec => []EveryChannelTried
<1>1. HooksInv /\ NotifierInv => EveryChannelTried
  <2> SUFFICES ASSUME HooksInv, NotifierInv PROVE EveryChannelTried
    OBVIOUS
  <2>1. TypeOK
    <3>1. ToSet(inbox) = {a \in DOMAIN alerts : alerts[a].fate = "inbox"} \ {current.alert}
      <4>1. \A i \in DOMAIN inbox : inbox[i] # current.alert
        BY DEF NotifierInv, NotifierTyped, InLine
      <4> QED
        BY <4>1 DEF NotifierInv, InLine, ToSet
    <3>2. \A a \in DOMAIN alerts : alerts[a].fate \in Fates
      BY RowsAre DEF NotifierInv
    <3>3. ASSUME NEW h \in DOMAIN hooks
          PROVE  hooks[h].phase \in Phases /\ hooks[h].attempts \in 0 .. AttemptsOf(hooks[h].policy)
      <4>1. HookInv(hooks[h])
        BY DEF HooksInv
      <4>2. AttemptsOf(hooks[h].policy) \in Nat
        BY <4>1, AttemptsTyped DEF HookInv, Hook
      <4> QED
        BY <4>1, <4>2 DEF HookInv, Hook
    <3> QED
      BY <3>1, <3>2, <3>3 DEF TypeOK, NotifierInv, NotifierTyped, Fates, Phases
  <2> QED
    BY <2>1 DEF EveryChannelTried, NotifierInv, Logged, CallsOf
<1> QED
  BY <1>1, HooksInvariance, NotifierInvariance, PTL

-----------------------------------------------------------------------------
(* The stored rules and the requests that edit them.                       *)

RuleRows == UNION {Rows(g, n) : g \in Graphs, n \in Nat}
RuleLinks == UNION {Links(g, n) : g \in Graphs, n \in Nat}

Request == [phase : {"idle", "begun", "selected", "cleared"}, rule : Rules \cup {NoRule},
            want : {"keep", "enabled", "disabled", "deleted"}, saves : BOOLEAN,
            was : {"unborn", "enabled", "disabled"}, edges : SUBSET RuleLinks,
            nodes : SUBSET RuleRows, stale : BOOLEAN, crossed : BOOLEAN]

TaskPhases == {"check", "load", "graphs", "asleep", "done", "lost"}

(* Sequences of tasks; of a task only the phase matters here.              *)
TasksTyped(s) ==
    /\ Len(s) \in Nat /\ s = [e \in 1 .. Len(s) |-> s[e]]
    /\ \A e \in 1 .. Len(s) : "phase" \in DOMAIN s[e] /\ s[e].phase \in TaskPhases

StoreTyped ==
    /\ plan \in {"free", "pro"} /\ paused \in BOOLEAN
    /\ worker \in {"up", "draining", "down"}
    /\ status \in [Rules -> {"unborn", "enabled", "disabled", "deleted"}]
    /\ nodes \in [Rules -> SUBSET RuleRows]
    /\ edges \in [Rules -> SUBSET RuleLinks]
    /\ spent \in [requests : Nat, saves : Nat, turns : Nat]
    /\ excused \in [limit : BOOLEAN, graph : SUBSET Rules]

EdgesJoin == \A r \in Rules : \A l \in edges[r] : {l[1], l[2]} \subseteq {n.id : n \in nodes[r]}

(* What an open request may rely on when it commits. *)
SoundRequest(q) ==
    /\ q.rule \in Rules
    /\ q.was = "unborn" => q.want \in {"enabled", "disabled"}
    /\ q.was # "unborn" => status[q.rule] # "unborn"
    /\ Activates(q) /\ ~q.stale => WithinLimit(q.rule)
    /\ q.phase = "cleared" /\ q.saves /\ ~q.crossed => nodes[q.rule] \subseteq q.nodes

RequestsSound == \A c \in Clients : Open(c) => SoundRequest(req[c])

LimitKept ==
    /\ IsFiniteSet(Active)
    /\ plan = "free" /\ ~excused.limit => Cardinality(Active) <= ActiveLimit

OneSave ==
    /\ \A r \in Rules : status[r] = "unborn" => nodes[r] = {}
    /\ \A r \in Rules \ excused.graph : \A n, m \in nodes[r] : n.id[1] = m.id[1]

RulesInv ==
    /\ StoreTyped /\ EdgesJoin
    /\ req \in [Clients -> Request] /\ RequestsSound
    /\ TasksTyped(tasks)
    /\ LimitKept /\ OneSave

-----------------------------------------------------------------------------
LEMMA RuleInvariants ==
    ASSUME RulesInv
    PROVE  RulesTypeOK /\ RuleLimitUnlessRaced /\ OneGraphUnlessCrossed
<1>1. RulesTypeOK
  <2>1. \A c \in Clients : req[c].phase \in {"idle", "begun", "selected", "cleared"}
    BY DEF RulesInv, Request
  <2>2. \A e \in DOMAIN tasks : tasks[e].phase \in TaskPhases
    <3>1. DOMAIN tasks = 1 .. Len(tasks)
      BY DEF RulesInv, TasksTyped
    <3> QED
      BY <3>1 DEF RulesInv, TasksTyped
  <2>3. \A r \in Rules, l \in UNION {edges[x] : x \in Rules} :
            l \in edges[r] => {l[1], l[2]} \subseteq {n.id : n \in nodes[r]}
    BY DEF RulesInv, EdgesJoin
  <2> QED
    BY <2>1, <2>2, <2>3 DEF RulesInv, StoreTyped, RulesTypeOK, TaskPhases
<1>2. RuleLimitUnlessRaced
  <2>1. Cardinality(Active) \in Nat
    BY FS_CardinalityType DEF RulesInv, LimitKept
  <2> QED
    BY <2>1, RuleEngineAssumption DEF RulesInv, LimitKept, StoreTyped, RuleLimitUnlessRaced
<1>3. ASSUME NEW r \in Rules, r \notin excused.graph
      PROVE  ~ Cardinality(Saves(r)) > 1
  <2>1. \A n, m \in nodes[r] : n.id[1] = m.id[1]
    BY <1>3 DEF RulesInv, OneSave
  <2>2. CASE nodes[r] = {}
    <3>1. Saves(r) = {}
      BY <2>2 DEF Saves
    <3> QED
      BY <3>1, FS_EmptySet
  <2>3. CASE nodes[r] # {}
    <3>1. PICK m \in nodes[r] : TRUE
      BY <2>3
    <3>2. Saves(r) = {m.id[1]}
      BY <2>1, <3>1 DEF Saves
    <3>3. Cardinality({m.id[1]}) = 1
      BY FS_Singleton, Zenon
    <3> QED
      BY <3>2, <3>3
  <2> QED
    BY <2>2, <2>3
<1> QED
  BY <1>1, <1>2, <1>3 DEF OneGraphUnlessCrossed

LEMMA IdleRequest == Idle \in Request /\ Idle.phase = "idle"
BY DEF Idle, Request, NoRule

LEMMA InitRules ==
    ASSUME RulesInit
    PROVE  RulesInv
<1>1. StoreTyped /\ EdgesJoin
  BY DEF RulesInit, StoreTyped, EdgesJoin
<1>2. req \in [Clients -> Request] /\ RequestsSound
  BY IdleRequest DEF RulesInit, RequestsSound, Open
<1>3. TasksTyped(tasks)
  BY DEF RulesInit, TasksTyped
<1>4. Active = {}
  BY DEF RulesInit, Active
<1>5. LimitKept
  BY <1>4, FS_EmptySet, RuleEngineAssumption DEF LimitKept
<1>6. OneSave
  BY DEF RulesInit, OneSave
<1> QED
  BY <1>1, <1>2, <1>3, <1>5, <1>6 DEF RulesInv

(* A step that leaves the store and the requests keeps what is said of     *)
(* them, whatever it does to the tasks.                                    *)
LEMMA StoreLeft ==
    ASSUME RulesInv, TasksTyped(tasks)',
           UNCHANGED <<plan, status, nodes, edges, req, excused>>,
           paused' \in BOOLEAN, worker' \in {"up", "draining", "down"},
           spent' \in [requests : Nat, saves : Nat, turns : Nat]
    PROVE  RulesInv'
<1>1. Active' = Active
  BY DEF Active
<1>2. \A r : WithinLimit(r)' <=> WithinLimit(r)
  BY <1>1 DEF WithinLimit
<1>3. RequestsSound'
  BY <1>2 DEF RulesInv, RequestsSound, SoundRequest, Open, Activates
<1>4. LimitKept'
  BY <1>1 DEF RulesInv, LimitKept
<1>5. StoreTyped' /\ EdgesJoin' /\ OneSave'
  BY DEF RulesInv, StoreTyped, EdgesJoin, OneSave
<1> QED
  BY <1>3, <1>4, <1>5 DEF RulesInv

-----------------------------------------------------------------------------
(* Tasks.                                                                  *)

LEMMA FunctionIsSequence ==
    ASSUME NEW n \in Nat, NEW s, s = [e \in 1 .. n |-> s[e]]
    PROVE  Len(s) = n /\ DOMAIN s = 1 .. n
<1>1. s \in Seq({s[e] : e \in 1 .. n})
  OBVIOUS
<1>2. DOMAIN s = 1 .. n
  OBVIOUS
<1> QED
  BY <1>1, <1>2

LEMMA TasksMapped ==
    ASSUME TasksTyped(tasks), tasks' = [e \in DOMAIN tasks |-> tasks'[e]],
           \A e \in 1 .. Len(tasks) : "phase" \in DOMAIN tasks'[e] /\ tasks'[e].phase \in TaskPhases
    PROVE  TasksTyped(tasks)'
<1>1. DOMAIN tasks = 1 .. Len(tasks)
  BY DEF TasksTyped
<1>2. Len(tasks') = Len(tasks)
  BY <1>1, FunctionIsSequence DEF TasksTyped
<1> QED
  BY <1>1, <1>2 DEF TasksTyped

LEMMA TaskAdvanced ==
    ASSUME TasksTyped(tasks), NEW e \in DOMAIN tasks, NEW t, Advance(e, t),
           "phase" \in DOMAIN t, t.phase \in TaskPhases
    PROVE  TasksTyped(tasks)'
<1>1. tasks' = [i \in DOMAIN tasks |-> IF i = e THEN t ELSE tasks[i]]
  BY DEF Advance
<1>2. DOMAIN tasks = 1 .. Len(tasks)
  BY DEF TasksTyped
<1> QED
  BY <1>1, <1>2, TasksMapped DEF TasksTyped

LEMMA TaskPhase ==
    ASSUME TasksTyped(tasks), NEW e \in DOMAIN tasks
    PROVE  "phase" \in DOMAIN tasks[e] /\ tasks[e].phase \in TaskPhases
<1>1. DOMAIN tasks = 1 .. Len(tasks)
  BY DEF TasksTyped
<1> QED
  BY <1>1 DEF TasksTyped

LEMMA TaskReceived ==
    ASSUME TasksTyped(tasks), Receive
    PROVE  TasksTyped(tasks)'
<1>1. PICK t : "phase" \in DOMAIN t /\ t.phase \in TaskPhases /\ tasks' = Append(tasks, t)
  BY DEF Receive, TaskPhases
<1> DEFINE n == Len(tasks)
<1>2. tasks \in Seq({tasks[e] : e \in 1 .. n} \cup {t})
  BY DEF TasksTyped
<1>3. Len(tasks') = n + 1 /\ tasks' = [e \in 1 .. n + 1 |-> tasks'[e]]
  <2>1. tasks' \in Seq({tasks[e] : e \in 1 .. n} \cup {t})
    BY <1>1, <1>2
  <2>2. Len(tasks') = n + 1
    BY <1>1, <1>2
  <2> QED
    BY <2>1, <2>2
<1>4. \A e \in 1 .. n : tasks'[e] = tasks[e]
  BY <1>1, <1>2
<1>5. tasks'[n + 1] = t
  BY <1>1, <1>2
<1>6. n \in Nat
  BY DEF TasksTyped
<1>7. ASSUME NEW e \in 1 .. n + 1
      PROVE  "phase" \in DOMAIN tasks'[e] /\ tasks'[e].phase \in TaskPhases
  <2>1. CASE e = n + 1
    BY <2>1, <1>1, <1>5
  <2>2. CASE e # n + 1
    BY <2>2, <1>4, <1>6 DEF TasksTyped
  <2> QED
    BY <2>1, <2>2
<1> QED
  BY <1>3, <1>6, <1>7 DEF TasksTyped

(* A write marks the tasks in flight and leaves their phases.              *)
LEMMA DisturbedTyped ==
    ASSUME TasksTyped(tasks), NEW r, tasks' = Disturbed(r)
    PROVE  TasksTyped(tasks)'
<1>1. tasks' = [e \in DOMAIN tasks |-> tasks'[e]]
  BY DEF Disturbed
<1>2. ASSUME NEW e \in 1 .. Len(tasks)
      PROVE  "phase" \in DOMAIN tasks'[e] /\ tasks'[e].phase \in TaskPhases
  <2>1. e \in DOMAIN tasks
    BY DEF TasksTyped
  <2>2. "phase" \in DOMAIN tasks[e] /\ tasks[e].phase \in TaskPhases
    BY <2>1, TaskPhase
  <2>3. \/ tasks'[e] = tasks[e]
        \/ tasks'[e] = [tasks[e] EXCEPT !.disturbed = @ \union {r}]
    BY <2>1 DEF Disturbed
  <2> QED
    BY <2>2, <2>3
<1> QED
  BY <1>1, <1>2, TasksMapped

(* What a task does for itself leaves the rest.                            *)
LEMMA EventSteps ==
    ASSUME RulesInv, NEW e \in DOMAIN tasks, EventStep(e)
    PROVE  RulesInv'
<1>1. PICK t : Advance(e, t) /\ "phase" \in DOMAIN t /\ t.phase \in TaskPhases
  <2>1. "phase" \in DOMAIN tasks[e] /\ tasks[e].phase \in TaskPhases
    BY TaskPhase DEF RulesInv
  <2>2. CASE CheckMaintenance(e)
    BY <2>1, <2>2 DEF CheckMaintenance, TaskPhases
  <2>3. CASE LoadRules(e)
    <3>1. CASE tasks[e].org
      <4> DEFINE t == [tasks[e] EXCEPT !.phase = "graphs", !.todo = Active]
      <4>1. Advance(e, t)
        BY <2>3, <3>1 DEF LoadRules
      <4>2. "phase" \in DOMAIN t /\ t.phase = "graphs"
        BY <2>1
      <4> QED
        BY <4>1, <4>2 DEF TaskPhases
    <3>2. CASE ~tasks[e].org
      <4>1. Advance(e, [tasks[e] EXCEPT !.phase = "done"])
        BY <2>3, <3>2 DEF LoadRules
      <4> QED
        BY <2>1, <4>1 DEF TaskPhases
    <3> QED
      BY <3>1, <3>2
  <2>4. CASE ReadNodes(e)
    <3>1. PICK r : Advance(e, [tasks[e] EXCEPT !.at = r, !.rows = nodes[r], !.todo = @ \ {r}])
      BY <2>4 DEF ReadNodes
    <3> DEFINE t == [tasks[e] EXCEPT !.at = r, !.rows = nodes[r], !.todo = @ \ {r}]
    <3>2. "phase" \in DOMAIN t /\ t.phase = tasks[e].phase
      BY <2>1
    <3> QED
      BY <2>1, <3>1, <3>2
  <2>5. CASE ReadEdges(e)
    <3>1. PICK plans : Advance(e, [tasks[e] EXCEPT !.at = NoRule, !.rows = {}, !.plans = plans])
      BY <2>5 DEF ReadEdges
    <3> DEFINE t == [tasks[e] EXCEPT !.at = NoRule, !.rows = {}, !.plans = plans]
    <3>2. "phase" \in DOMAIN t /\ t.phase = tasks[e].phase
      BY <2>1
    <3> QED
      BY <2>1, <3>1, <3>2
  <2>6. CASE Sleep(e)
    BY <2>1, <2>6 DEF Sleep, TaskPhases
  <2>7. CASE WakeTask(e)
    <3>1. PICK plans : Advance(e, [tasks[e] EXCEPT !.phase = "graphs", !.plans = plans])
      BY <2>7 DEF WakeTask
    <3> DEFINE t == [tasks[e] EXCEPT !.phase = "graphs", !.plans = plans]
    <3>2. "phase" \in DOMAIN t /\ t.phase = "graphs"
      BY <2>1
    <3> QED
      BY <3>1, <3>2 DEF TaskPhases
  <2>8. CASE RunStep(e)
    <3>1. PICK plans, fired : Advance(e, [tasks[e] EXCEPT !.plans = plans, !.fired = fired])
      BY <2>8 DEF RunStep
    <3> DEFINE t == [tasks[e] EXCEPT !.plans = plans, !.fired = fired]
    <3>2. "phase" \in DOMAIN t /\ t.phase = tasks[e].phase
      BY <2>1
    <3> QED
      BY <2>1, <3>1, <3>2
  <2>9. CASE FinishTask(e)
    BY <2>1, <2>9 DEF FinishTask, TaskPhases
  <2> QED
    BY <2>2, <2>3, <2>4, <2>5, <2>6, <2>7, <2>8, <2>9 DEF EventStep
<1>2. TasksTyped(tasks)'
  BY <1>1, TaskAdvanced DEF RulesInv
<1>3. UNCHANGED <<plan, status, nodes, edges, req, paused, worker, spent, excused>>
  BY <1>1 DEF Advance, store
<1> QED
  BY <1>2, <1>3, StoreLeft DEF RulesInv, StoreTyped

LEMMA SpentTurn ==
    ASSUME spent \in [requests : Nat, saves : Nat, turns : Nat]
    PROVE  /\ [spent EXCEPT !.turns = @ + 1] \in [requests : Nat, saves : Nat, turns : Nat]
           /\ [spent EXCEPT !.requests = @ + 1] \in [requests : Nat, saves : Nat, turns : Nat]
           /\ [spent EXCEPT !.saves = @ + 1] \in [requests : Nat, saves : Nat, turns : Nat]
OBVIOUS

LEMMA WorkerSteps ==
    ASSUME RulesInv, ToggleMaintenance \/ Receive \/ StopChecker \/ Exit \/ Crash \/ RestartChecker
    PROVE  RulesInv'
<1>1. spent \in [requests : Nat, saves : Nat, turns : Nat] /\ paused \in BOOLEAN
      /\ worker \in {"up", "draining", "down"} /\ TasksTyped(tasks)
  BY DEF RulesInv, StoreTyped
<1>2. CASE ToggleMaintenance
  <2>1. tasks' = [e \in DOMAIN tasks |-> tasks'[e]]
    BY <1>2 DEF ToggleMaintenance
  <2>2. ASSUME NEW e \in 1 .. Len(tasks)
        PROVE  "phase" \in DOMAIN tasks'[e] /\ tasks'[e].phase \in TaskPhases
    <3>1. e \in DOMAIN tasks
      BY <1>1 DEF TasksTyped
    <3>2. "phase" \in DOMAIN tasks[e] /\ tasks[e].phase \in TaskPhases
      BY <1>1, <3>1, TaskPhase
    <3>3. tasks'[e] = tasks[e] \/ tasks'[e] = [tasks[e] EXCEPT !.disturbed = Rules]
      BY <1>2, <3>1 DEF ToggleMaintenance
    <3> QED
      BY <3>2, <3>3
  <2>3. TasksTyped(tasks)'
    BY <1>1, <2>1, <2>2, TasksMapped
  <2> QED
    BY <1>1, <1>2, <2>3, StoreLeft, SpentTurn DEF ToggleMaintenance, store
<1>3. CASE Receive
  BY <1>1, <1>3, TaskReceived, StoreLeft DEF Receive, store
<1>4. CASE StopChecker
  BY <1>1, <1>4, StoreLeft, SpentTurn DEF StopChecker, store, TasksTyped
<1>5. CASE Exit
  BY <1>1, <1>5, StoreLeft DEF Exit, store, TasksTyped
<1>6. CASE Crash
  <2>1. tasks' = [e \in DOMAIN tasks |-> tasks'[e]]
    BY <1>6 DEF Crash
  <2>2. ASSUME NEW e \in 1 .. Len(tasks)
        PROVE  "phase" \in DOMAIN tasks'[e] /\ tasks'[e].phase \in TaskPhases
    <3>1. e \in DOMAIN tasks
      BY <1>1 DEF TasksTyped
    <3>2. "phase" \in DOMAIN tasks[e] /\ tasks[e].phase \in TaskPhases
      BY <1>1, <3>1, TaskPhase
    <3> DEFINE t == [tasks[e] EXCEPT !.phase = "lost", !.plans = <<>>, !.todo = {}, !.at = NoRule,
                                     !.rows = {}]
    <3>3. "phase" \in DOMAIN t /\ t.phase = "lost"
      BY <3>2
    <3>4. tasks'[e] = tasks[e] \/ tasks'[e] = t
      BY <1>6, <3>1 DEF Crash
    <3> QED
      BY <3>2, <3>3, <3>4 DEF TaskPhases
  <2>3. TasksTyped(tasks)'
    BY <1>1, <2>1, <2>2, TasksMapped
  <2> QED
    BY <1>1, <1>6, <2>3, StoreLeft, SpentTurn DEF Crash, store
<1>7. CASE RestartChecker
  BY <1>1, <1>7, StoreLeft DEF RestartChecker, store, TasksTyped
<1> QED
  BY <1>2, <1>3, <1>4, <1>5, <1>6, <1>7

-----------------------------------------------------------------------------
(* Requests before their commit.                                           *)

(* One request changes, and is idle or sound; the store does not change.   *)
LEMMA RequestChanged ==
    ASSUME RulesInv, NEW c \in Clients, NEW q \in Request, q.phase = "idle" \/ SoundRequest(q),
           req' = [req EXCEPT ![c] = q], spent' \in [requests : Nat, saves : Nat, turns : Nat],
           UNCHANGED <<plan, status, nodes, edges, paused, worker, tasks, excused>>
    PROVE  RulesInv'
<1>1. Active' = Active
  BY DEF Active
<1>2. \A r : WithinLimit(r)' <=> WithinLimit(r)
  BY <1>1 DEF WithinLimit
<1>3. req' \in [Clients -> Request]
  BY DEF RulesInv
<1>4. ASSUME NEW d \in Clients, Open(d)'
      PROVE  SoundRequest(req'[d])
  <2>1. CASE d = c
    BY <1>4, <2>1 DEF RulesInv, Open
  <2>2. CASE d # c
    BY <1>4, <2>2 DEF RulesInv, RequestsSound, Open
  <2> QED
    BY <2>1, <2>2
<1>5. RequestsSound'
  BY <1>2, <1>4 DEF RequestsSound, SoundRequest, Activates
<1>6. LimitKept'
  BY <1>1 DEF RulesInv, LimitKept
<1>7. StoreTyped' /\ EdgesJoin' /\ OneSave' /\ TasksTyped(tasks)'
  BY DEF RulesInv, StoreTyped, EdgesJoin, OneSave, TasksTyped
<1> QED
  BY <1>3, <1>5, <1>6, <1>7 DEF RulesInv

LEMMA RequestsBegin ==
    ASSUME RulesInv, NEW c \in Clients, BeginCreate(c) \/ BeginUpdate(c) \/ BeginDelete(c)
    PROVE  RulesInv'
<1>1. SUFFICES ASSUME NEW q \in Request, Begin(c, q),
                      q.rule \in Rules, ~q.crossed, ~q.stale,
                      q.was = "unborn" => q.want \in {"enabled", "disabled"},
                      q.was # "unborn" => status[q.rule] # "unborn",
                      q.phase = "cleared" /\ q.saves => nodes[q.rule] \subseteq q.nodes
               PROVE  RulesInv'
  <2>1. CASE BeginCreate(c)
    <3>1. PICK r \in Rules, want \in {"enabled", "disabled"} :
             /\ \A x \in Rules : (status[x] = "unborn" /\ \A d \in Clients : ~On(d, x)) <=> x >= r
             /\ Begin(c, [Idle EXCEPT !.phase = "cleared", !.rule = r, !.want = want, !.saves = TRUE])
      BY <2>1 DEF BeginCreate
    <3>2. status[r] = "unborn"
      BY <3>1, RuleEngineAssumption
    <3>3. nodes[r] = {}
      BY <3>2 DEF RulesInv, OneSave
    <3> DEFINE q == [Idle EXCEPT !.phase = "cleared", !.rule = r, !.want = want, !.saves = TRUE]
    <3>4. /\ q.phase = "cleared" /\ q.rule = r /\ q.want = want
          /\ q.saves = TRUE /\ q.was = "unborn" /\ q.nodes = {}
          /\ q.stale = FALSE /\ q.crossed = FALSE
      BY DEF Idle
    <3>5. q \in Request
      BY IdleRequest DEF Request
    <3> QED
      BY <1>1, <3>1, <3>3, <3>4, <3>5
  <2>2. CASE BeginUpdate(c)
    <3>1. PICK r \in Rules, saves \in BOOLEAN, want \in {"enabled", "disabled", "keep"} :
             /\ status[r] \in {"enabled", "disabled"}
             /\ Begin(c, [Idle EXCEPT !.phase = IF saves THEN "begun" ELSE "cleared",
                             !.rule = r, !.want = want, !.saves = saves, !.was = status[r]])
      BY <2>2 DEF BeginUpdate
    <3> DEFINE q == [Idle EXCEPT !.phase = IF saves THEN "begun" ELSE "cleared",
                             !.rule = r, !.want = want, !.saves = saves, !.was = status[r]]
    <3>4. /\ q.phase = (IF saves THEN "begun" ELSE "cleared") /\ q.rule = r /\ q.want = want
          /\ q.saves = saves /\ q.was = status[r] /\ q.nodes = {}
          /\ q.stale = FALSE /\ q.crossed = FALSE
      BY DEF Idle
    <3>5. q \in Request
      BY <3>1, IdleRequest DEF Request
    <3>6. ~(q.phase = "cleared" /\ q.saves)
      BY <3>4
    <3> QED
      BY <1>1, <3>1, <3>4, <3>5, <3>6
  <2>3. CASE BeginDelete(c)
    <3>1. PICK r \in Rules :
             /\ status[r] \in {"enabled", "disabled"}
             /\ Begin(c, [Idle EXCEPT !.phase = "begun", !.rule = r, !.want = "deleted",
                                      !.was = status[r]])
      BY <2>3 DEF BeginDelete
    <3> DEFINE q == [Idle EXCEPT !.phase = "begun", !.rule = r, !.want = "deleted", !.was = status[r]]
    <3>4. /\ q.phase = "begun" /\ q.rule = r /\ q.want = "deleted"
          /\ q.saves = FALSE /\ q.was = status[r] /\ q.nodes = {}
          /\ q.stale = FALSE /\ q.crossed = FALSE
      BY DEF Idle
    <3>5. q \in Request
      BY <3>1, IdleRequest DEF Request
    <3> QED
      BY <1>1, <3>1, <3>4, <3>5
  <2> QED
    BY <2>1, <2>2, <2>3
<1>2. SoundRequest(q)
  BY <1>1 DEF SoundRequest, Begin
<1>3. UNCHANGED <<plan, status, nodes, edges, paused, worker, tasks, excused>>
      /\ req' = [req EXCEPT ![c] = q] /\ spent' = [spent EXCEPT !.requests = @ + 1]
  BY <1>1 DEF Begin, store
<1> QED
  BY <1>1, <1>2, <1>3, SpentTurn, RequestChanged DEF RulesInv, StoreTyped

LEMMA RequestsAdvance ==
    ASSUME RulesInv, NEW c \in Clients, SelectEdges(c) \/ DeleteEdges(c) \/ Abort(c)
    PROVE  RulesInv'
<1>1. req[c] \in Request /\ spent \in [requests : Nat, saves : Nat, turns : Nat]
  BY DEF RulesInv, StoreTyped
<1>2. CASE SelectEdges(c)
  <2>1. SoundRequest(req[c]) /\ req[c].rule \in Rules
    BY <1>2 DEF RulesInv, RequestsSound, SelectEdges, Open, SoundRequest
  <2> DEFINE q == [req[c] EXCEPT !.phase = "selected", !.edges = edges[req[c].rule]]
  <2>2. q \in Request /\ q.phase = "selected" /\ q.rule = req[c].rule /\ q.want = req[c].want
        /\ q.was = req[c].was /\ q.stale = req[c].stale
    BY <1>1, <2>1 DEF Request, RulesInv, StoreTyped
  <2>3. SoundRequest(q)
    BY <2>1, <2>2 DEF SoundRequest, Activates
  <2>4. req' = [req EXCEPT ![c] = q] /\ UNCHANGED spent
        /\ UNCHANGED <<plan, status, nodes, edges, paused, worker, tasks, excused>>
    BY <1>2 DEF SelectEdges, store
  <2> QED
    BY <1>1, <2>2, <2>3, <2>4, RequestChanged
<1>3. CASE DeleteEdges(c)
  <2>1. SoundRequest(req[c]) /\ req[c].rule \in Rules
    BY <1>3 DEF RulesInv, RequestsSound, DeleteEdges, Open, SoundRequest
  <2> DEFINE q == [req[c] EXCEPT !.phase = "cleared", !.nodes = nodes[req[c].rule]]
  <2>2. q \in Request /\ q.rule = req[c].rule /\ q.want = req[c].want /\ q.nodes = nodes[req[c].rule]
        /\ q.was = req[c].was /\ q.stale = req[c].stale
    BY <1>1, <2>1 DEF Request, RulesInv, StoreTyped
  <2>3. SoundRequest(q)
    BY <2>1, <2>2 DEF SoundRequest, Activates
  <2>4. req' = [req EXCEPT ![c] = q] /\ UNCHANGED spent
        /\ UNCHANGED <<plan, status, nodes, edges, paused, worker, tasks, excused>>
    BY <1>3 DEF DeleteEdges, store
  <2> QED
    BY <1>1, <2>2, <2>3, <2>4, RequestChanged
<1>4. CASE Abort(c)
  BY <1>1, <1>4, IdleRequest, RequestChanged DEF Abort, store
<1> QED
  BY <1>2, <1>3, <1>4

-----------------------------------------------------------------------------
(* The commit.                                                             *)

(* The rows of a saved graph carry the number of the save, and its edges   *)
(* join them: a request whose edges name another node is refused.          *)
LEMMA GraphRows ==
    ASSUME NEW g \in Graphs, NEW k \in Nat
    PROVE  /\ Rows(g, k) \subseteq RuleRows /\ Links(g, k) \subseteq RuleLinks
           /\ \A n \in Rows(g, k) : n.id[1] = k
           /\ \A l \in Links(g, k) : {l[1], l[2]} \subseteq {n.id : n \in Rows(g, k)}
<1>1. Rows(g, k) \subseteq RuleRows /\ Links(g, k) \subseteq RuleLinks
  BY DEF RuleRows, RuleLinks
<1>2. ASSUME NEW n \in Rows(g, k)
      PROVE  n.id[1] = k
  BY <1>2 DEF Rows
<1>3. ASSUME NEW i \in DOMAIN g.nodes
      PROVE  <<k, i>> \in {n.id : n \in Rows(g, k)}
  <2> DEFINE n == [id |-> <<k, i>>, type |-> g.nodes[i].type, config |-> g.nodes[i].config]
  <2>1. n \in Rows(g, k)
    BY DEF Rows
  <2>2. n.id = <<k, i>>
    OBVIOUS
  <2> QED
    BY <2>1, <2>2
<1>4. ASSUME NEW l \in Links(g, k)
      PROVE  {l[1], l[2]} \subseteq {n.id : n \in Rows(g, k)}
  <2>1. PICK x \in g.edges : l = <<<<k, x[1]>>, <<k, x[2]>>>>
    BY DEF Links
  <2>2. x[1] \in DOMAIN g.nodes /\ x[2] \in DOMAIN g.nodes
    BY RuleEngineAssumption
  <2> QED
    BY <1>3, <2>1, <2>2
<1> QED
  BY <1>1, <1>2, <1>4

(* The graph of one rule is replaced, in part or in whole.                 *)
LEMMA GraphReplaced ==
    ASSUME RulesInv, NEW r \in Rules, NEW kept, kept \subseteq nodes[r], NEW read,
           NEW new \in SUBSET RuleRows, NEW links \in SUBSET RuleLinks,
           \A l \in links : {l[1], l[2]} \subseteq {n.id : n \in new},
           nodes' = [nodes EXCEPT ![r] = kept \union new],
           edges' = [edges EXCEPT ![r] = EdgesLeft(@, read, kept) \union links]
    PROVE  /\ nodes' \in [Rules -> SUBSET RuleRows]
           /\ edges' \in [Rules -> SUBSET RuleLinks]
           /\ EdgesJoin'
           /\ nodes'[r] = kept \union new
           /\ \A x \in Rules \ {r} : nodes'[x] = nodes[x]
<1>1. nodes \in [Rules -> SUBSET RuleRows] /\ edges \in [Rules -> SUBSET RuleLinks]
  BY DEF RulesInv, StoreTyped
<1>2. nodes'[r] = kept \union new /\ \A x \in Rules \ {r} : nodes'[x] = nodes[x]
  BY <1>1
<1>3. nodes' \in [Rules -> SUBSET RuleRows]
  BY <1>1
<1>4. edges'[r] = EdgesLeft(edges[r], read, kept) \union links
      /\ \A x \in Rules \ {r} : edges'[x] = edges[x]
  BY <1>1
<1>5. edges' \in [Rules -> SUBSET RuleLinks]
  BY <1>1 DEF EdgesLeft
<1>6. ASSUME NEW x \in Rules, NEW l \in edges'[x]
      PROVE  {l[1], l[2]} \subseteq {n.id : n \in nodes'[x]}
  <2>1. CASE x # r
    BY <1>2, <1>4, <2>1, <1>6 DEF RulesInv, EdgesJoin
  <2>2. CASE x = r /\ l \in links
    BY <1>2, <2>2
  <2>3. CASE x = r /\ l \in EdgesLeft(edges[r], read, kept)
    <3>1. {l[1], l[2]} \subseteq {n.id : n \in kept}
      BY <2>3 DEF EdgesLeft
    <3> QED
      BY <1>2, <2>3, <3>1
  <2> QED
    BY <1>4, <1>6, <2>1, <2>2, <2>3
<1> QED
  BY <1>2, <1>3, <1>5, <1>6 DEF EdgesJoin

(* What a commit leaves of the other requests.                             *)
LEMMA OthersMarked ==
    ASSUME NEW q \in Request, NEW a \in BOOLEAN, NEW b \in BOOLEAN, NEW p,
           p = [q EXCEPT !.stale = @ \/ a, !.crossed = @ \/ b]
    PROVE  /\ p \in Request
           /\ p.phase = q.phase /\ p.rule = q.rule /\ p.want = q.want /\ p.saves = q.saves
           /\ p.was = q.was /\ p.nodes = q.nodes
           /\ (p.stale <=> q.stale \/ a) /\ (p.crossed <=> q.crossed \/ b)
BY DEF Request

(* An activation adds one rule to those counted.                           *)
LEMMA ActiveAfter ==
    ASSUME RulesInv, NEW r \in Rules, NEW want \in {"enabled", "disabled", "deleted"},
           status' = [status EXCEPT ![r] = want]
    PROVE  /\ want = "enabled" => Active' = (Active \ {r}) \cup {r}
           /\ want # "enabled" => Active' = Active \ {r}
BY DEF RulesInv, StoreTyped, Active

LEMMA CountAfter ==
    ASSUME RulesInv, NEW r \in Rules
    PROVE  /\ IsFiniteSet(Active \ {r}) /\ IsFiniteSet((Active \ {r}) \cup {r})
           /\ Cardinality(Active) \in Nat /\ Cardinality(Active \ {r}) \in Nat
           /\ Cardinality(Active \ {r}) <= Cardinality(Active)
           /\ Cardinality((Active \ {r}) \cup {r}) = Cardinality(Active \ {r}) + 1
<1>1. IsFiniteSet(Active)
  BY DEF RulesInv, LimitKept
<1>2. IsFiniteSet(Active \ {r}) /\ Cardinality(Active \ {r}) <= Cardinality(Active)
  BY <1>1, FS_Subset
<1>3. Cardinality(Active) \in Nat /\ Cardinality(Active \ {r}) \in Nat
  BY <1>1, <1>2, FS_CardinalityType
<1>4. IsFiniteSet((Active \ {r}) \cup {r})
      /\ Cardinality((Active \ {r}) \cup {r}) = Cardinality(Active \ {r}) + 1
  <2>1. r \notin Active \ {r}
    OBVIOUS
  <2> QED
    BY <1>2, <2>1, FS_AddElement
<1> QED
  BY <1>1, <1>2, <1>3, <1>4

LEMMA CommitStep ==
    ASSUME RulesInv, NEW c \in Clients, Commit(c)
    PROVE  RulesInv'
<1> DEFINE q == req[c]
           r == q.rule
<1>1. q \in Request
  BY DEF RulesInv
<1>2. SoundRequest(q) /\ q.phase = "cleared"
  BY DEF RulesInv, RequestsSound, Open, Commit
<1> r \in Rules
  BY <1>2 DEF SoundRequest
<1>3. CASE status[r] = "deleted"
  <2>1. req' = [req EXCEPT ![c] = Idle]
        /\ UNCHANGED <<plan, status, nodes, edges, paused, worker, tasks, excused, spent>>
    BY <1>1, <1>2, <1>3 DEF Commit, store
  <2> QED
    BY <2>1, IdleRequest, RequestChanged DEF RulesInv, StoreTyped
<1>4. CASE status[r] # "deleted"
  <2> DEFINE k == spent.saves + 1
             dropped == IF q.want = "deleted" THEN nodes[r] ELSE q.nodes
  <2>1. PICK g \in Graphs :
          /\ status' = [status EXCEPT ![r] = IF WritesRow(q) THEN q.want ELSE @]
          /\ nodes' = [nodes EXCEPT ![r] = (nodes[r] \ dropped)
                                             \union (IF q.saves THEN Rows(g, k) ELSE {})]
          /\ edges' = [edges EXCEPT ![r] = EdgesLeft(@, q.edges, nodes[r] \ dropped)
                                             \union (IF q.saves THEN Links(g, k) ELSE {})]
          /\ spent' = [spent EXCEPT !.saves = @ + 1]
          /\ req' = [d \in Clients |->
                 IF d = c THEN Idle
                 ELSE [req[d] EXCEPT
                     !.stale = @ \/ (Activates(q) /\ Open(d)),
                     !.crossed = @ \/ (On(d, r) /\ q.saves /\ req[d].phase = "cleared")]]
          /\ excused' = [excused EXCEPT
                 !.limit = @ \/ (Activates(q) /\ q.stale),
                 !.graph = IF ~q.saves THEN @
                           ELSE IF q.crossed THEN @ \union {r} ELSE @ \ {r}]
          /\ tasks' = Disturbed(r)
          /\ UNCHANGED <<plan, paused, worker>>
    BY <1>4 DEF Commit
  <2> DEFINE kept == nodes[r] \ dropped
             new == IF q.saves THEN Rows(g, k) ELSE {}
             links == IF q.saves THEN Links(g, k) ELSE {}
             enables == Activates(q)
  <2>2. k \in Nat /\ spent' \in [requests : Nat, saves : Nat, turns : Nat]
    BY <2>1, SpentTurn DEF RulesInv, StoreTyped
  <2>3. /\ new \in SUBSET RuleRows /\ links \in SUBSET RuleLinks
        /\ \A n \in new : n.id[1] = k
        /\ \A l \in links : {l[1], l[2]} \subseteq {n.id : n \in new}
        /\ ~q.saves => new = {}
    <3>1. CASE q.saves
      BY <2>2, <3>1, GraphRows
    <3>2. CASE ~q.saves
      BY <3>2
    <3> QED
      BY <3>1, <3>2
  <2>4. /\ nodes' \in [Rules -> SUBSET RuleRows] /\ edges' \in [Rules -> SUBSET RuleLinks]
        /\ EdgesJoin'
        /\ nodes'[r] = kept \union new
        /\ \A x \in Rules \ {r} : nodes'[x] = nodes[x]
    <3>1. kept \subseteq nodes[r]
      OBVIOUS
    <3> HIDE DEF kept, new, links, q
    <3>2. nodes' = [nodes EXCEPT ![r] = kept \union new]
          /\ edges' = [edges EXCEPT ![r] = EdgesLeft(@, q.edges, kept) \union links]
      BY <2>1 DEF kept, new, links, q
    <3> QED
      BY <2>3, <3>1, <3>2, GraphReplaced
  <2>5. /\ status' \in [Rules -> {"unborn", "enabled", "disabled", "deleted"}]
        /\ \A x \in Rules \ {r} : status'[x] = status[x]
        /\ status'[r] = IF WritesRow(q) THEN q.want ELSE status[r]
    BY <1>1, <2>1 DEF Request, RulesInv, StoreTyped, WritesRow
  <2>6. /\ excused' \in [limit : BOOLEAN, graph : SUBSET Rules]
        /\ excused'.limit <=> excused.limit \/ (Activates(q) /\ q.stale)
        /\ excused'.graph = IF ~q.saves THEN excused.graph
                            ELSE IF q.crossed THEN excused.graph \union {r} ELSE excused.graph \ {r}
    <3>1. excused \in [limit : BOOLEAN, graph : SUBSET Rules]
      BY DEF RulesInv, StoreTyped
    <3>2. q.stale \in BOOLEAN
      BY <1>1 DEF Request
    <3> QED
      BY <2>1, <3>1, <3>2
  <2>7. StoreTyped'
    BY <2>1, <2>2, <2>4, <2>5, <2>6 DEF RulesInv, StoreTyped
  <2>8. TasksTyped(tasks)'
    BY <2>1, DisturbedTyped DEF RulesInv
  <2>9. ASSUME NEW d \in Clients, d # c
        PROVE  /\ req'[d] \in Request
               /\ req'[d].phase = req[d].phase /\ req'[d].rule = req[d].rule
               /\ req'[d].want = req[d].want /\ req'[d].saves = req[d].saves
               /\ req'[d].was = req[d].was /\ req'[d].nodes = req[d].nodes
               /\ req'[d].stale <=> req[d].stale \/ (Activates(q) /\ Open(d))
               /\ req'[d].crossed <=>
                     req[d].crossed \/ (On(d, r) /\ q.saves /\ req[d].phase = "cleared")
    <3> DEFINE a == Activates(q) /\ Open(d)
               b == On(d, r) /\ q.saves /\ req[d].phase = "cleared"
    <3>1. req'[d] = [req[d] EXCEPT !.stale = @ \/ a, !.crossed = @ \/ b]
      BY <2>1, <2>9
    <3>2. a \in BOOLEAN /\ b \in BOOLEAN /\ req[d] \in Request
      BY <1>1 DEF RulesInv, Request, Activates, Open, On
    <3> HIDE DEF a, b
    <3>3. /\ req'[d] \in Request
          /\ req'[d].phase = req[d].phase /\ req'[d].rule = req[d].rule
          /\ req'[d].want = req[d].want /\ req'[d].saves = req[d].saves
          /\ req'[d].was = req[d].was /\ req'[d].nodes = req[d].nodes
          /\ (req'[d].stale <=> req[d].stale \/ a) /\ (req'[d].crossed <=> req[d].crossed \/ b)
      BY <3>1, <3>2 DEF Request
    <3> QED
      BY <3>3 DEF a, b
  <2>10. req' \in [Clients -> Request] /\ req'[c] = Idle
    BY <2>1, <2>9, IdleRequest
  <2>11. Activates(q) => Active' = (Active \ {r}) \cup {r}
    BY <2>5 DEF Activates, WritesRow, Active
  <2>12. ~Activates(q) => Active' \subseteq Active
    BY <2>5 DEF Activates, WritesRow, Active
  <2>13. IsFiniteSet(Active) /\ IsFiniteSet(Active')
    <3>1. IsFiniteSet(Active)
      BY DEF RulesInv, LimitKept
    <3>2. CASE Activates(q)
      BY <2>11, <3>1, <3>2, CountAfter
    <3>3. CASE ~Activates(q)
      BY <2>12, <3>1, <3>3, FS_Subset
    <3> QED
      BY <3>1, <3>2, <3>3
  <2>14. ASSUME plan' = "free", ~excused'.limit
         PROVE  Cardinality(Active') <= ActiveLimit
    <3>1. plan = "free" /\ ~excused.limit /\ Cardinality(Active) <= ActiveLimit
      BY <2>1, <2>6, <2>14 DEF RulesInv, LimitKept
    <3>2. CASE Activates(q)
      <4>1. ~q.stale
        BY <2>6, <2>14, <3>2
      <4>2. Cardinality(Active \ {r}) < ActiveLimit
        BY <1>2, <3>1, <3>2, <4>1 DEF SoundRequest, WithinLimit
      <4>3. Cardinality(Active') = Cardinality(Active \ {r}) + 1 /\ Cardinality(Active \ {r}) \in Nat
        BY <2>11, <3>2, CountAfter
      <4> QED
        BY <4>2, <4>3, RuleEngineAssumption
    <3>3. CASE ~Activates(q)
      <4>1. Cardinality(Active') <= Cardinality(Active)
        BY <2>12, <2>13, <3>3, FS_Subset
      <4>2. Cardinality(Active') \in Nat /\ Cardinality(Active) \in Nat
        BY <2>13, FS_CardinalityType
      <4> QED
        BY <3>1, <4>1, <4>2, RuleEngineAssumption
    <3> QED
      BY <3>2, <3>3
  <2>15. LimitKept'
    BY <2>13, <2>14 DEF LimitKept
  <2>16. ASSUME NEW x \in Rules, status'[x] = "unborn"
         PROVE  nodes'[x] = {}
    <3>1. x # r
      BY <1>1, <1>2, <2>5, <2>16 DEF SoundRequest, WritesRow, Request
    <3> QED
      BY <2>4, <2>5, <2>16, <3>1 DEF RulesInv, OneSave
  <2>17. ASSUME NEW x \in Rules, x \notin excused'.graph, NEW n \in nodes'[x], NEW m \in nodes'[x]
         PROVE  n.id[1] = m.id[1]
    <3>1. CASE x # r
      <4>1. x \notin excused.graph
        BY <2>6, <2>17, <3>1
      <4> QED
        BY <2>4, <2>17, <3>1, <4>1 DEF RulesInv, OneSave
    <3>2. CASE x = r /\ ~q.saves
      <4>1. r \notin excused.graph
        BY <2>6, <2>17, <3>2
      <4>2. nodes'[r] \subseteq nodes[r]
        BY <2>3, <2>4, <3>2
      <4> QED
        BY <2>17, <3>2, <4>1, <4>2 DEF RulesInv, OneSave
    <3>3. CASE x = r /\ q.saves
      <4>1. ~q.crossed
        BY <2>6, <2>17, <3>3
      <4>2. kept = {}
        BY <1>2, <3>3, <4>1 DEF SoundRequest
      <4>3. nodes'[r] = new
        BY <2>4, <4>2
      <4> QED
        BY <2>3, <2>17, <3>3, <4>3
    <3> QED
      BY <3>1, <3>2, <3>3
  <2>18. OneSave'
    BY <2>16, <2>17 DEF OneSave
  <2>19. ASSUME NEW d \in Clients, d # c, req[d].phase # "idle"
         PROVE  SoundRequest(req[d])
    BY <2>19 DEF RulesInv, RequestsSound, Open
  <2>20. ASSUME NEW d \in Clients, d # c, req[d].phase # "idle",
                Activates(req'[d]), ~req'[d].stale
         PROVE  plan' = "pro" \/ Cardinality(Active' \ {req'[d].rule}) < ActiveLimit
    <3> DEFINE x == req[d].rule
    <3>1. req'[d].rule = x /\ Activates(req[d]) /\ ~req[d].stale /\ ~Activates(q) /\ x \in Rules
      BY <2>9, <2>19, <2>20 DEF Activates, Open, SoundRequest
    <3>2. CASE plan = "pro"
      BY <2>1, <3>2
    <3>3. CASE plan # "pro"
      <4>1. Cardinality(Active \ {x}) < ActiveLimit
        BY <2>19, <2>20, <3>1, <3>3 DEF SoundRequest, WithinLimit
      <4>2. Active' \ {x} \subseteq Active \ {x}
        BY <2>12, <3>1
      <4>3. IsFiniteSet(Active \ {x}) /\ Cardinality(Active \ {x}) \in Nat
        BY <3>1, CountAfter
      <4>4. Cardinality(Active' \ {x}) <= Cardinality(Active \ {x}) /\ IsFiniteSet(Active' \ {x})
        BY <4>2, <4>3, FS_Subset
      <4>5. Cardinality(Active' \ {x}) \in Nat
        BY <4>4, FS_CardinalityType
      <4> QED
        BY <3>1, <4>1, <4>3, <4>4, <4>5, RuleEngineAssumption
    <3> QED
      BY <3>2, <3>3
  <2>21. ASSUME NEW d \in Clients, d # c, req'[d].phase = "cleared", req'[d].saves, ~req'[d].crossed
         PROVE  nodes'[req'[d].rule] \subseteq req'[d].nodes
    <3>1. /\ req'[d].rule = req[d].rule /\ req'[d].nodes = req[d].nodes /\ req[d].phase = "cleared"
          /\ req[d].saves /\ ~req[d].crossed /\ ~(On(d, r) /\ q.saves)
      BY <2>9, <2>21
    <3>2. nodes[req[d].rule] \subseteq req[d].nodes /\ req[d].rule \in Rules
      BY <2>19, <2>21, <3>1 DEF SoundRequest
    <3>3. nodes'[req[d].rule] \subseteq nodes[req[d].rule]
      <4>1. CASE req[d].rule = r
        <5>1. ~q.saves
          BY <3>1, <4>1 DEF On
        <5> QED
          BY <2>3, <2>4, <4>1, <5>1
      <4>2. CASE req[d].rule # r
        BY <2>4, <3>2, <4>2
      <4> QED
        BY <4>1, <4>2
    <3> QED
      BY <3>1, <3>2, <3>3
  <2>22. ASSUME NEW d \in Clients, req'[d].phase # "idle"
         PROVE  SoundRequest(req[d])'
    <3>1. d # c
      BY <2>10, <2>22, IdleRequest
    <3>2. req[d].phase # "idle" /\ req'[d].rule = req[d].rule /\ req'[d].want = req[d].want
          /\ req'[d].was = req[d].was
      BY <2>9, <2>22, <3>1
    <3>3. SoundRequest(req[d])
      BY <2>19, <3>1, <3>2
    <3>4. req[d].was # "unborn" => status'[req[d].rule] # "unborn"
      BY <1>1, <2>5, <3>3 DEF SoundRequest, Request
    <3>5. req'[d].rule \in Rules /\ (req'[d].was = "unborn" => req'[d].want \in {"enabled", "disabled"})
      BY <3>2, <3>3 DEF SoundRequest
    <3>6. Activates(req'[d]) /\ ~req'[d].stale => WithinLimit(req[d].rule)'
      BY <2>20, <3>1, <3>2 DEF WithinLimit
    <3>7. req'[d].phase = "cleared" /\ req'[d].saves /\ ~req'[d].crossed
            => nodes'[req'[d].rule] \subseteq req'[d].nodes
      BY <2>21, <3>1
    <3> QED
      BY <3>2, <3>4, <3>5, <3>6, <3>7 DEF SoundRequest, Activates
  <2>23. RequestsSound'
    BY <2>22 DEF RequestsSound, Open
  <2> QED
    BY <2>4, <2>7, <2>8, <2>10, <2>15, <2>18, <2>23 DEF RulesInv
<1> QED
  BY <1>3, <1>4

-----------------------------------------------------------------------------
LEMMA RulesStep ==
    ASSUME RulesInv, [RulesNext]_ruleVars
    PROVE  RulesInv'
<1>1. CASE \E c \in Clients : RequestStep(c)
  <2>1. PICK c \in Clients : RequestStep(c)
    BY <1>1
  <2> QED
    BY <2>1, RequestsBegin, RequestsAdvance, CommitStep DEF RequestStep
<1>2. CASE \E e \in DOMAIN tasks : EventStep(e)
  BY <1>2, EventSteps
<1>3. CASE ToggleMaintenance \/ Receive \/ StopChecker \/ Exit \/ Crash \/ RestartChecker
  BY <1>3, WorkerSteps
<1>4. CASE UNCHANGED ruleVars
  BY <1>4, StoreLeft DEF ruleVars, RulesInv, StoreTyped, TasksTyped
<1> QED
  BY <1>1, <1>2, <1>3, <1>4 DEF RulesNext

LEMMA RulesInvariant == RulesSpec => []RulesInv
<1>1. RulesInit => RulesInv
  BY InitRules
<1>2. RulesInv /\ [RulesNext]_ruleVars => RulesInv'
  BY RulesStep
<1> QED
  BY <1>1, <1>2, PTL DEF RulesSpec

(* However many clients create, enable, save and delete rules at the same  *)
(* time, a Free organization exceeds its active rules only through a       *)
(* request that counted before another activation committed                *)
(* (_enforce_active_limit).                                                *)
THEOREM RuleLimit == RulesSpec => []RuleLimitUnlessRaced
<1>1. RulesInv => RuleLimitUnlessRaced
  BY RuleInvariants
<1> QED
  BY <1>1, RulesInvariant, PTL

(* Whatever graphs are saved, aborted and deleted in whatever order, the   *)
(* rows of a rule are of one save, unless two saves both read the graph    *)
(* before either committed, and every edge joins two of its rows           *)
(* (_delete_graph, _insert_graph).                                         *)
THEOREM OneGraph == RulesSpec => []OneGraphUnlessCrossed
<1>1. RulesInv => OneGraphUnlessCrossed
  BY RuleInvariants
<1> QED
  BY <1>1, RulesInvariant, PTL

=============================================================================
