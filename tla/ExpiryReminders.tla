------------------------------ MODULE ExpiryReminders ------------------------------
(***************************************************************************)
(* The Subscription_Expiry worker.  Each sweep reads the active            *)
(* subscriptions once, decides which reminders are due, and mails them one *)
(* after the other, each behind a Redis key set with NX and a TTL.  A      *)
(* subscription is active exactly when it has a period end (ActiveWasPaid  *)
(* of SubscriptionBilling), and captures move that end at any time.        *)
(* Thresholds and times count in one unit, and time may pass in a sweep.   *)
(***************************************************************************)
EXTENDS Integers, Sequences, FiniteSets

CONSTANTS
  Subscriptions,
  BillingPeriod, \* the billing period
  Thresholds,    \* WARNING_THRESHOLDS (7, 3 and 1 days)
  GuardTTL,      \* _GUARD_TTL_SECONDS (30 h)
  LastInstant,   \* bound: last instant
  MaxRenewals,   \* bound: captures of one subscription
  MaxFaults,     \* bound: restarts, failing mails and failing Redis calls
  NoEnd

ASSUME ReminderAssumption ==
  /\ {BillingPeriod, GuardTTL} \cup Thresholds \subseteq Nat \ {0}
  /\ {LastInstant, MaxRenewals, MaxFaults} \subseteq Nat /\ NoEnd \notin Int

VARIABLES
  clock,     \* the time
  periodEnd, \* periodEnd[s]: current_period_end of an active subscription, or NoEnd
  renewals,  \* renewals[s]: captures so far
  pending,   \* reminders of the sweep under way, with the end they were decided on
  sweptAt,   \* when this process began its last sweep, or -1
  guard,     \* guard[s][t]: when the guard key expires
  mailed,    \* history: mailed[s][t]: the reminders mailed, with their time and end
  unguarded, \* history: the reminders mailed while Redis failed
  faults     \* faults so far

reminderVars == <<clock, periodEnd, renewals, pending, sweptAt, guard, mailed, unguarded, faults>>

Instants == 0..(LastInstant + MaxRenewals * BillingPeriod)
Buckets == Thresholds \cup {0}   \* 0: expired

\* No guard outlives its TTL, no sweep lies in the future, and all values have their type.
RemindersTypeOK ==
  /\ clock \in 0..LastInstant
  /\ periodEnd \in [Subscriptions -> Instants \cup {NoEnd}]
  /\ renewals \in [Subscriptions -> 0..MaxRenewals]
  /\ pending \subseteq Subscriptions \X Buckets \X Instants
  /\ sweptAt \in -1..clock
  /\ guard \in [Subscriptions -> [Buckets -> 0..(clock + GuardTTL)]]
  /\ mailed \in [Subscriptions -> [Buckets -> Seq([at : Instants, end : Instants])]]
  /\ unguarded \subseteq Subscriptions \X Buckets
  /\ faults \in 0..MaxFaults

RemindersInit ==
  /\ clock = 0
  /\ periodEnd = [s \in Subscriptions |-> NoEnd]
  /\ renewals = [s \in Subscriptions |-> 0]
  /\ pending = {} /\ sweptAt = -1
  /\ guard = [s \in Subscriptions |-> [t \in Buckets |-> 0]]
  /\ mailed = [s \in Subscriptions |-> [t \in Buckets |-> << >>]]
  /\ unguarded = {} /\ faults = 0

Fault == faults < MaxFaults /\ faults' = faults + 1

ClockTicks ==
  /\ clock < LastInstant /\ clock' = clock + 1
  /\ UNCHANGED <<periodEnd, renewals, pending, sweptAt, guard, mailed, unguarded, faults>>

\* _handle_capture: the period runs on from the later of now and its end.
Captured(s) ==
  /\ renewals[s] < MaxRenewals
  /\ renewals' = [renewals EXCEPT ![s] = @ + 1]
  /\ periodEnd' = [periodEnd EXCEPT
       ![s] = BillingPeriod + IF @ # NoEnd /\ @ > clock THEN @ ELSE clock]
  /\ UNCHANGED <<clock, pending, sweptAt, guard, mailed, unguarded, faults>>

-------------------------------------------------------------------------------
\* Mutant: only the day of the threshold itself counts.
DueExactly(s) == IF periodEnd[s] = NoEnd THEN {} ELSE {periodEnd[s] - clock} \cap Buckets

\* due_reminders: the smallest threshold that covers what is left, 0 once past.
\* (Days are rounded up, which changes neither comparison.)
Due(s) ==
  IF periodEnd[s] = NoEnd THEN {}
  ELSE LET left == periodEnd[s] - clock IN
       IF left <= 0 THEN {0}
       ELSE {t \in Thresholds : left <= t /\ \A u \in Thresholds : left <= u => t <= u}

\* sweep: one SELECT decides the reminders of the whole sweep, or the sweep fails.
SweepStart ==
  /\ pending = {} /\ sweptAt < clock
  /\ sweptAt' = clock
  /\ \/ /\ pending' = {r \in Subscriptions \X Buckets \X Instants :
                        r[2] \in Due(r[1]) /\ r[3] = periodEnd[r[1]]}
        /\ UNCHANGED faults
     \/ Fault /\ UNCHANGED pending
  /\ UNCHANGED <<clock, periodEnd, renewals, guard, mailed, unguarded>>

Mail(s, t, e) ==
  mailed' = [mailed EXCEPT ![s][t] = Append(@, [at |-> clock, end |-> e])]

\* Mutant: the key is set without NX.
RemindUnguarded(s, t, e) ==
  /\ <<s, t, e>> \in pending /\ pending' = pending \ {<<s, t, e>>}
  /\ guard' = [guard EXCEPT ![s][t] = clock + GuardTTL]
  /\ Mail(s, t, e)
  /\ UNCHANGED <<clock, periodEnd, renewals, sweptAt, unguarded, faults>>

\* _already_sent and the mail: nothing while the key lives; otherwise the key is set
\* and the mail goes out or fails, which leaves the key; when Redis fails, the mail
\* goes out without one.
Remind(s, t, e) ==
  /\ <<s, t, e>> \in pending /\ pending' = pending \ {<<s, t, e>>}
  /\ \/ clock < guard[s][t] /\ UNCHANGED <<guard, mailed, unguarded, faults>>
     \/ /\ clock >= guard[s][t]
        /\ guard' = [guard EXCEPT ![s][t] = clock + GuardTTL]
        /\ \/ Mail(s, t, e) /\ UNCHANGED faults
           \/ Fault /\ UNCHANGED mailed
        /\ UNCHANGED unguarded
     \/ /\ Fault /\ Mail(s, t, e)
        /\ unguarded' = unguarded \cup {<<s, t>>}
        /\ UNCHANGED guard
  /\ UNCHANGED <<clock, periodEnd, renewals, sweptAt>>

\* The worker dies; supervisord starts it and it sweeps at once.
Restart ==
  /\ Fault
  /\ pending' = {} /\ sweptAt' = -1
  /\ UNCHANGED <<clock, periodEnd, renewals, guard, mailed, unguarded>>

Reminding == \E s \in Subscriptions, t \in Buckets, e \in Instants : Remind(s, t, e)
Worker == SweepStart \/ Reminding

RemindersNext ==
  \/ ClockTicks \/ \E s \in Subscriptions : Captured(s)
  \/ Worker \/ Restart

RemindersSpec == RemindersInit /\ [][RemindersNext]_reminderVars

\* The loop goes on and its timer fires; time passes.
FairReminders == RemindersSpec /\ WF_reminderVars(Worker) /\ WF_reminderVars(ClockTicks)

-------------------------------------------------------------------------------
\* The SET NX guard: two mails of one reminder are at least the TTL apart, whatever
\* restarts, renewals and overlong sweeps come between, unless Redis failed.
RemindersAreSpaced ==
  /\ RemindersTypeOK
  /\ \A s \in Subscriptions, t \in Buckets :
       LET log == mailed[s][t] IN
       <<s, t>> \notin unguarded =>
         \A i, j \in DOMAIN log : i < j => log[j].at - log[i].at >= GuardTTL

\* sweep: "emails the owning organization as the renewal date approaches": whatever
\* instant the sweeps hit, a subscription that ends without renewal has been warned
\* for that end or told it expired, unless a fault or the guard of an earlier period
\* swallowed it.
EndIsAnnounced ==
  \A s \in Subscriptions, e \in 1..LastInstant :
    periodEnd[s] = e ~>
      \/ periodEnd[s] # e \/ faults > 0
      \/ \E t \in Buckets : \/ guard[s][t] > e
                            \/ \E i \in DOMAIN mailed[s][t] : mailed[s][t][i].end = e
===============================================================================
