------------------------------ MODULE RateLimit ------------------------------
(***************************************************************************)
(* The token buckets in front of the API                                   *)
(* (src/app/core/rate_limit.py,                                            *)
(* src/app/core/security/rate_limit_middleware.py).  A request takes a     *)
(* token from the bucket of its client address, then, if it carries a      *)
(* valid bearer token, one from the bucket of its organization.  The Lua   *)
(* script is atomic; the time it is given is read by the API process       *)
(* before the script is sent, so scripts run in another order than their   *)
(* times, and the clocks of two processes differ by up to Skew.            *)
(*                                                                         *)
(* Time is in ticks and tokens in units, chosen so that the refill of a    *)
(* tick and the cost of a request are whole numbers of units.              *)
(***************************************************************************)
EXTENDS Integers

CONSTANTS
    Requests,    \* requests in flight; an identity is used again when one ends
    IPs, Orgs,   \* the keys of the buckets
    None,        \* no time read yet, or no organization
    Policy,      \* Policy[k]: the capacity and the refill per tick of a bucket
    Cost,        \* the units of one token
    Second,      \* ticks in a second
    Skew         \* how far a process's clock may lag behind the fastest one

VARIABLES
    clock,       \* the fastest clock, in ticks
    request,     \* what dispatch knows of each request
    bucket,      \* Redis: the hash of each key and the end of its TTL
    charged,     \* history: the units a bucket has granted so far
    rewound      \* history: the ticks by which scripts set a bucket's time back

limiterVars == <<clock, request, bucket, charged, rewound>>

Keys == IPs \cup Orgs

Policies == [capacity : Nat, rate : Nat \ {0}]

(* What the defaults of the repository satisfy in a fine enough tick.      *)
Parameters ==
    /\ IPs \cap Orgs = {} /\ None \notin IPs \cup Orgs \cup Int
    /\ Policy \in [Keys -> Policies]
    /\ Cost \in Nat \ {0} /\ Second \in Nat \ {0} /\ Skew \in Nat

Idle == [at |-> "idle", ip |-> None, org |-> None, now |-> None]

Buckets == [live : BOOLEAN, tokens : Nat, ts : Int, expires : Int]

LimiterInit ==
    /\ clock = 0
    /\ request = [r \in Requests |-> Idle]
    /\ bucket = [k \in Keys |-> [live |-> FALSE, tokens |-> 0, ts |-> 0, expires |-> 0]]
    /\ charged = [k \in Keys |-> 0]
    /\ rewound = [k \in Keys |-> 0]

-----------------------------------------------------------------------------
(* The script.                                                             *)

Least(a, b) == IF a <= b THEN a ELSE b
Excess(a, b) == IF a > b THEN a - b ELSE 0

(* ttl_seconds: whole seconds to refill from empty, and a minute.          *)
TTL(k) == (Policy[k].capacity \div (Policy[k].rate * Second) + 60) * Second

(* Redis answers nothing for a key past its TTL.                           *)
Kept(k) == bucket[k].live /\ clock < bucket[k].expires

Refilled(k, now) ==
    IF Kept(k)
    THEN Least(Policy[k].capacity,
               bucket[k].tokens + Excess(now, bucket[k].ts) * Policy[k].rate)
    ELSE Policy[k].capacity

Enough(k, now) == Refilled(k, now) >= Cost

(* The time up to which the bucket has been refilled when the script runs. *)
RefilledUntil(k) == IF Kept(k) THEN bucket[k].ts ELSE bucket[k].expires

RunScript(k, now) ==
    LET paid == IF Enough(k, now) THEN Cost ELSE 0
    IN  /\ bucket' = [bucket EXCEPT ![k] = [live    |-> TRUE,
                                            tokens  |-> Refilled(k, now) - paid,
                                            ts      |-> now,
                                            expires |-> clock + TTL(k)]]
        /\ charged' = [charged EXCEPT ![k] = @ + paid]
        /\ rewound' = [rewound EXCEPT ![k] = @ + Excess(RefilledUntil(k), now)]

-----------------------------------------------------------------------------
(* dispatch.                                                               *)

KeyOf(r) == IF request[r].at = "ip" THEN request[r].ip ELSE request[r].org

(* The request has passed one bucket: the next one, or the route.          *)
Passed(r) ==
    IF request[r].at = "ip" /\ request[r].org # None
    THEN [request[r] EXCEPT !.at = "org", !.now = None]
    ELSE Idle

Arrive(r, ip, org) ==
    /\ request[r].at = "idle"
    /\ request' = [request EXCEPT ![r] = [at |-> "ip", ip |-> ip, org |-> org, now |-> None]]
    /\ UNCHANGED <<clock, bucket, charged, rewound>>

(* check_rate_limit reads the clock of its process.                        *)
ReadClock(r) ==
    /\ request[r].at # "idle" /\ request[r].now = None
    /\ \E now \in (clock - Skew)..clock :
         request' = [request EXCEPT ![r].now = now]
    /\ UNCHANGED <<clock, bucket, charged, rewound>>

(* The answer of the script lets the request pass, or ends it with a 429.  *)
Evaluate(r) ==
    /\ request[r].now # None
    /\ RunScript(KeyOf(r), request[r].now)
    /\ request' = [request EXCEPT ![r] =
                     IF Enough(KeyOf(r), request[r].now) THEN Passed(r) ELSE Idle]
    /\ UNCHANGED clock

(* Redis does not answer, whether or not the script ran: the request       *)
(* passes.                                                                 *)
FailOpen(r) ==
    /\ request[r].now # None
    /\ \/ RunScript(KeyOf(r), request[r].now)
       \/ UNCHANGED <<bucket, charged, rewound>>
    /\ request' = [request EXCEPT ![r] = Passed(r)]
    /\ UNCHANGED clock

ClockTick ==
    /\ clock' = clock + 1
    /\ UNCHANGED <<request, bucket, charged, rewound>>

LimiterNext ==
    \/ \E r \in Requests :
         \/ \E ip \in IPs, org \in Orgs \cup {None} : Arrive(r, ip, org)
         \/ ReadClock(r) \/ Evaluate(r) \/ FailOpen(r)
    \/ ClockTick

LimiterSpec == LimiterInit /\ [][LimiterNext]_limiterVars

-----------------------------------------------------------------------------
\* A bucket never grants more than its capacity and the refill of the time that
\* has passed, counted again where a late script set its time back: neither the
\* cap on the refill nor the loss of an idle bucket gives anything away.
GrantedWithinBudget ==
    \A k \in Keys :
        charged[k] <= Policy[k].capacity + Policy[k].rate * (clock + rewound[k])

\* A bucket Redis drops at the end of its TTL would have been full anyway.
ExpiryChangesNothing ==
    \A k \in Keys :
        bucket[k].live /\ clock >= bucket[k].expires
        => bucket[k].tokens + Policy[k].rate * (clock - bucket[k].ts) >= Policy[k].capacity
==============================================================================
