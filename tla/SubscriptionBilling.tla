--------------------------- MODULE SubscriptionBilling ---------------------------
(***************************************************************************)
(* One order per subscription and payment, as SubscriptionService.subscribe*)
(* creates them.  Razorpay delivers its events at least once, in any order *)
(* and possibly twice at a time; each delivery is a request that reads the *)
(* payment, then the subscription, and writes both at its commit, without  *)
(* row locks.  Refunds call the gateway before their commit.               *)
(***************************************************************************)
EXTENDS Integers, FiniteSets, Pricing

CONSTANTS
  Orders,        \* orders; no two share a row
  Deliveries,    \* webhook requests, a bound on redeliveries
  Refunds,       \* refund requests
  Period,        \* the billing period (a month, a year)
  RefundWindow,  \* REFUND_WINDOW_DAYS (14)
  Offers,        \* what customers order: <<device count, cycle>>
  CouponStock,   \* the rows administrators give their coupon
  MaxEdits,      \* bound: creations, updates and deletions of the coupon
  MaxTime,       \* bound: last instant
  None

ASSUME PeriodAssumption ==
  /\ Period \in Nat \ {0} /\ {RefundWindow, MaxTime, MaxEdits} \subseteq Nat
  /\ IsFiniteSet(Deliveries)
  /\ None \notin Int \cup {"created", "active", "captured", "failed", "refunded"}
  /\ Offers \subseteq (Nat \ {0}) \X Cycles
  /\ CouponStock \subseteq CouponRows(Nat, Nat \cup {None}, Nat \cup {None})

VARIABLES
  now,          \* the time
  coupon,       \* the row of the coupon, or None
  edits,        \* edits of the coupon so far
  checkout,     \* checkout[o]: step of subscribe, gross and net total, coupon used or not
  payment,      \* payment[o]: status and paid_at of the row
  subscription, \* subscription[o]: status and current_period_end of the row
  emitted,      \* emitted[o]: the kinds of events Razorpay has for o
  delivery,     \* delivery[d]: step, order, event and what it has read
  refund,       \* refund[r]: step, order and the payment status read
  refunded,     \* refunded[o]: refunds made at the gateway
  extensions,   \* history: extensions[o]: commits that extended the period
  stale         \* history: orders with a step that acted on an outdated payment, or a
                \* refund made that another request could not know of

checkoutVars == <<coupon, edits, checkout>>
vars == <<now, coupon, edits, checkout, payment, subscription, emitted, delivery, refund, refunded, extensions, stale>>

Events == {"captured", "failed"}
PaymentStatuses == {None, "created", "captured", "failed", "refunded"}
Ended == {"done", "failed"}
Times == 0..(MaxTime + (Cardinality(Deliveries) + 1) * Period)

\* All values have their type, and what was captured has its time of purchase.
TypeOK ==
  /\ now \in 0..MaxTime
  /\ coupon \in CouponStock \cup {None} /\ edits \in 0..MaxEdits
  /\ checkout \in [Orders -> [step : {"idle", "order", "done", "failed"}, gross : Nat, net : Nat,
                              coupon : BOOLEAN]]
  /\ payment \in [Orders -> [status : PaymentStatuses, paid : Times \cup {None}]]
  /\ \A o \in Orders : payment[o].status \in {"captured", "refunded"} => payment[o].paid # None
  /\ subscription \in [Orders -> [status : {None, "created", "active"},
                                  end : Times \cup {None}]]
  /\ emitted \in [Orders -> SUBSET Events]
  /\ delivery \in [Deliveries -> [step : {"idle", "find", "commit"} \cup Ended,
                                  order : Orders \cup {None}, event : Events \cup {None},
                                  status : PaymentStatuses, end : Times \cup {None}]]
  /\ refund \in [Refunds -> [step : {"idle", "call", "commit"} \cup Ended,
                             order : Orders \cup {None}, status : PaymentStatuses]]
  /\ refunded \in [Orders -> Nat] /\ extensions \in [Orders -> Nat]
  /\ stale \subseteq Orders

Idle == [step |-> "idle", order |-> None, event |-> None, status |-> None, end |-> None]

Init ==
  /\ now = 0
  /\ coupon = None /\ edits = 0
  /\ checkout = [o \in Orders |-> [step |-> "idle", gross |-> 0, net |-> 0, coupon |-> FALSE]]
  /\ payment = [o \in Orders |-> [status |-> None, paid |-> None]]
  /\ subscription = [o \in Orders |-> [status |-> None, end |-> None]]
  /\ emitted = [o \in Orders |-> {}]
  /\ delivery = [d \in Deliveries |-> Idle]
  /\ refund = [r \in Refunds |-> [step |-> "idle", order |-> None, status |-> None]]
  /\ refunded = [o \in Orders |-> 0] /\ extensions = [o \in Orders |-> 0]
  /\ stale = {}

Tick ==
  /\ now < MaxTime /\ now' = now + 1
  /\ UNCHANGED <<checkoutVars, payment, subscription, emitted, delivery, refund, refunded, extensions, stale>>

-------------------------------------------------------------------------------
(* The customer, the gateway and subscribe.                                 *)

\* create_coupon, update_coupon and delete_coupon.  Only what happens to a coupon
\* before the orders exist is explored: no order reads it afterwards.
EditCoupon ==
  /\ edits < MaxEdits /\ edits' = edits + 1
  /\ \E o \in Orders : payment[o].status = None
  /\ \/ \E c \in CouponStock :
          /\ IF coupon = None THEN Creatable(c) ELSE Updatable(coupon, c)
          /\ coupon' = c
     \/ coupon # None /\ coupon' = None
  /\ UNCHANGED <<now, checkout, payment, subscription, emitted, delivery, refund, refunded, extensions, stale>>

\* subscribe computes the gross total and reads the coupon, if one is given.
Price(o, offer, withCoupon) ==
  /\ checkout[o].step \in {"idle", "failed"}
  /\ withCoupon => coupon # None /\ Usable(coupon, now, None)
  /\ LET gross == Gross(offer[1], offer[2]) IN
     checkout' = [checkout EXCEPT ![o] =
       [step |-> "order", gross |-> gross, coupon |-> withCoupon,
        net |-> IF withCoupon THEN Discounted(gross, coupon) ELSE gross]]
  /\ UNCHANGED <<now, coupon, edits, payment, subscription, emitted, delivery, refund, refunded, extensions,
                 stale>>

\* Then the order at Razorpay, which must not be for nothing, and a created
\* subscription and payment bound to it; the subscription refers to its coupon,
\* which must still be there.
Subscribe(o) ==
  /\ checkout[o].step = "order" /\ checkout[o].net > 0
  /\ checkout[o].coupon => coupon # None
  /\ checkout' = [checkout EXCEPT ![o].step = "done"]
  /\ payment' = [payment EXCEPT ![o].status = "created"]
  /\ subscription' = [subscription EXCEPT ![o].status = "created"]
  /\ UNCHANGED <<now, coupon, edits, emitted, delivery, refund, refunded, extensions, stale>>

\* Otherwise, or when a call fails, nothing is written.
SubscribeFails(o) ==
  /\ checkout[o].step = "order"
  /\ checkout' = [checkout EXCEPT ![o] = [step |-> "failed", gross |-> 0, net |-> 0, coupon |-> FALSE]]
  /\ UNCHANGED <<now, coupon, edits, payment, subscription, emitted, delivery, refund, refunded, extensions,
                 stale>>

\* A payment attempt fails, or the one that succeeds is captured.
Attempt(o, event) ==
  /\ payment[o].status # None
  /\ event \notin emitted[o]
  /\ event = "failed" => "captured" \notin emitted[o]
  /\ emitted' = [emitted EXCEPT ![o] = @ \cup {event}]
  /\ UNCHANGED <<now, checkoutVars, payment, subscription, delivery, refund, refunded, extensions, stale>>

-------------------------------------------------------------------------------
(* process_webhook_event.                                                   *)

\* The payment of o is not what the request that acts on it has read.
NoteStale(o, read) == stale' = IF payment[o].status = read THEN stale ELSE stale \cup {o}

\* A delivery, the first or a repeated one: _find_payment reads the payment.
WebhookFind(d, o, event) ==
  /\ delivery[d].step = "idle" /\ event \in emitted[o]
  /\ delivery' = [delivery EXCEPT ![d] =
       [step |-> "find", order |-> o, event |-> event,
        status |-> payment[o].status, end |-> None]]
  /\ UNCHANGED <<now, checkoutVars, payment, subscription, emitted, refund, refunded, extensions, stale>>

\* Then session.get reads the subscription.
WebhookReadSubscription(d) ==
  /\ delivery[d].step = "find"
  /\ delivery' = [delivery EXCEPT ![d].step = "commit",
                                  ![d].end = subscription[delivery[d].order].end]
  /\ UNCHANGED <<now, checkoutVars, payment, subscription, emitted, refund, refunded, extensions, stale>>

DeliveryEnds(d, event, outcome) ==
  /\ delivery[d].step = "commit" /\ delivery[d].event = event
  /\ delivery' = [delivery EXCEPT ![d] = [Idle EXCEPT !.step = outcome]]

\* Mutant: the duplicate check is missing.
CaptureUnchecked(d) ==
  LET o == delivery[d].order
      end == delivery[d].end
      base == IF end # None /\ end > now THEN end ELSE now IN
  /\ DeliveryEnds(d, "captured", "done")
  /\ payment' = [payment EXCEPT ![o] = [status |-> "captured", paid |-> now]]
  /\ subscription' = [subscription EXCEPT ![o] =
                        [status |-> "active", end |-> base + Period]]
  /\ extensions' = [extensions EXCEPT ![o] = @ + 1]
  /\ NoteStale(o, delivery[d].status)
  /\ UNCHANGED <<now, checkoutVars, emitted, refund, refunded>>

\* _handle_capture: a payment seen captured is left alone; otherwise it becomes
\* captured now, and the period runs on from the later of now and the end read.
Capture(d) ==
  LET o == delivery[d].order
      end == delivery[d].end
      base == IF end # None /\ end > now THEN end ELSE now IN
  /\ DeliveryEnds(d, "captured", "done")
  /\ IF delivery[d].status = "captured"
       THEN UNCHANGED <<payment, subscription, extensions, stale>>
       ELSE /\ payment' = [payment EXCEPT ![o] = [status |-> "captured", paid |-> now]]
            /\ subscription' = [subscription EXCEPT ![o] =
                                  [status |-> "active", end |-> base + Period]]
            /\ extensions' = [extensions EXCEPT ![o] = @ + 1]
            /\ NoteStale(o, delivery[d].status)
  /\ UNCHANGED <<now, checkoutVars, emitted, refund, refunded>>

\* Mutant: a failure after the capture is recorded like any other.
FailureUnchecked(d) ==
  LET o == delivery[d].order IN
  /\ DeliveryEnds(d, "failed", "done")
  /\ payment' = [payment EXCEPT ![o].status = "failed"]
  /\ NoteStale(o, delivery[d].status)
  /\ UNCHANGED <<now, checkoutVars, subscription, emitted, refund, refunded, extensions>>

\* _handle_failure: unless seen captured, the payment becomes failed (no UPDATE
\* when it was read as failed); the subscription keeps its state.
Failure(d) ==
  LET o == delivery[d].order IN
  /\ DeliveryEnds(d, "failed", "done")
  /\ IF delivery[d].status \in {"captured", "failed"}
       THEN UNCHANGED <<payment, stale>>
       ELSE payment' = [payment EXCEPT ![o].status = "failed"] /\ NoteStale(o, delivery[d].status)
  /\ UNCHANGED <<now, checkoutVars, subscription, emitted, refund, refunded, extensions>>

\* The request raises or the process dies; Razorpay will deliver the event again.
WebhookFails(d) ==
  /\ delivery[d].step \in {"find", "commit"}
  /\ delivery' = [delivery EXCEPT ![d] = [Idle EXCEPT !.step = "failed"]]
  /\ UNCHANGED <<now, checkoutVars, payment, subscription, emitted, refund, refunded, extensions, stale>>

-------------------------------------------------------------------------------
(* refund.                                                                  *)

\* Mutant: any payment with a purchase time can be refunded.
RefundLoadUnchecked(r, o) ==
  /\ refund[r].step = "idle" /\ payment[o].paid # None
  /\ refund' = [refund EXCEPT ![r] = [step |-> "call", order |-> o,
                                       status |-> payment[o].status]]
  /\ UNCHANGED <<now, checkoutVars, payment, subscription, emitted, delivery, refunded, extensions, stale>>

\* Only a captured payment, at most RefundWindow after its purchase.
RefundLoad(r, o) ==
  /\ refund[r].step = "idle" /\ payment[o].status # None
  /\ LET accepted == /\ payment[o].status = "captured"
                     /\ now <= payment[o].paid + RefundWindow IN
     /\ refund' = [refund EXCEPT ![r] =
          [step |-> IF accepted THEN "call" ELSE "failed", order |-> o,
           status |-> payment[o].status]]
  /\ UNCHANGED <<now, checkoutVars, payment, subscription, emitted, delivery, refunded, extensions, stale>>

\* The gateway refunds the money.
RefundCall(r) ==
  /\ refund[r].step = "call"
  /\ refund' = [refund EXCEPT ![r].step = "commit"]
  /\ refunded' = [refunded EXCEPT ![refund[r].order] = @ + 1]
  /\ IF \E q \in Refunds : refund[q].step = "commit" /\ refund[q].order = refund[r].order
       THEN stale' = stale \cup {refund[r].order}
       ELSE NoteStale(refund[r].order, refund[r].status)
  /\ UNCHANGED <<now, checkoutVars, payment, subscription, emitted, delivery, extensions>>

\* The payment becomes refunded; the subscription keeps its state.
RefundCommit(r) ==
  /\ refund[r].step = "commit"
  /\ refund' = [refund EXCEPT ![r].step = "done"]
  /\ payment' = [payment EXCEPT ![refund[r].order].status = "refunded"]
  /\ NoteStale(refund[r].order, refund[r].status)
  /\ UNCHANGED <<now, checkoutVars, subscription, emitted, delivery, refunded, extensions>>

\* The request raises or the process dies: nothing is written.
RefundFails(r) ==
  /\ refund[r].step \in {"call", "commit"}
  /\ refund' = [refund EXCEPT ![r].step = "failed"]
  /\ stale' = IF refund[r].step = "commit" THEN stale \cup {refund[r].order} ELSE stale
  /\ UNCHANGED <<now, checkoutVars, payment, subscription, emitted, delivery, refunded, extensions>>

-------------------------------------------------------------------------------
Webhook(d) ==
  \/ \E o \in Orders, event \in Events : WebhookFind(d, o, event)
  \/ WebhookReadSubscription(d) \/ Capture(d) \/ Failure(d) \/ WebhookFails(d)

Refund(r) ==
  \/ \E o \in Orders : RefundLoad(r, o)
  \/ RefundCall(r) \/ RefundCommit(r) \/ RefundFails(r)

Next ==
  \/ Tick
  \/ EditCoupon
  \/ \E o \in Orders :
       \/ \E offer \in Offers, withCoupon \in BOOLEAN : Price(o, offer, withCoupon)
       \/ Subscribe(o) \/ SubscribeFails(o)
       \/ \E event \in Events : Attempt(o, event)
  \/ \E d \in Deliveries : Webhook(d)
  \/ \E r \in Refunds : Refund(r)

Spec == Init /\ [][Next]_vars

-------------------------------------------------------------------------------
\* "A created-but-unpaid order never grants Pro access": only an order captured at the
\* gateway has an active subscription or an end, and the end is within the periods
\* that captures have granted.
ActiveWasPaid ==
  \A o \in Orders :
    LET s == subscription[o] IN
    /\ s.status = "active" <=> s.end # None
    /\ s.status = "active" => /\ "captured" \in emitted[o]
                             /\ s.end <= now + extensions[o] * Period

\* An order is never free and never above its quote, whatever administrators did to
\* the coupon before and while it was read (apply_coupon_discount, create_order).
ChargedWithinQuote ==
  \A o \in Orders : payment[o].status # None => checkout[o].net \in 1..checkout[o].gross

\* "A duplicate capture ... does not re-extend the period": redeliveries at any time
\* extend it once, and once more for each refund made; unless one acted on an
\* outdated payment.
DuplicatesExtendOnce ==
  \A o \in Orders : o \notin stale => extensions[o] <= refunded[o] + 1

\* refund: the gateway returns the money of one capture at most once, however many
\* refund requests there are and whatever is redelivered in between; unless a request
\* acted on an outdated payment, or a refund was not recorded yet or never.
RefundedOnce ==
  \A o \in Orders : o \notin stale => refunded[o] <= extensions[o]

\* Access, money and refunds agree at all times: the three above, on well-typed rows.
MoneyMatchesAccess == TypeOK /\ ChargedWithinQuote /\ ActiveWasPaid /\ RefundedOnce

\* "An already-captured payment is not downgraded by a stray failure event", however
\* late or often it comes, unless it was read before the capture was committed.
CaptureSurvivesFailure ==
  [][\A o \in Orders :
       payment[o].status = "captured" /\ payment'[o].status = "failed" => o \in stale']_vars
===============================================================================
