------------------------------ MODULE BillingProofs ------------------------------
(***************************************************************************)
(* What the price list promises for every number of devices and every      *)
(* coupon, and what holds of SubscriptionBilling for any orders, requests, *)
(* period and coupons: nobody is charged above the quote, access was paid  *)
(* for, and captures, periods and refunds balance unless a step acted on   *)
(* an outdated payment.  And the reminders of ExpiryReminders keep their   *)
(* distance, for any thresholds, TTL and period and any number of          *)
(* renewals, restarts and failures: the guard of a reminder covers every   *)
(* mail of it until a TTL after that mail, as long as Redis never failed   *)
(* for it, and an end lies at most one period per renewal after the last   *)
(* instant.                                                                *)
(***************************************************************************)
EXTENDS SubscriptionBilling, ExpiryReminders, FiniteSetTheorems, TLAPS

\* What subscribe has settled when: a payment exists once the order is placed,
\* the gateway speaks of existing payments only, and the quote is the bound.
CheckoutFollows ==
  \A o \in Orders :
    /\ payment[o].status # None <=> checkout[o].step = "done"
    /\ payment[o].status = None => emitted[o] = {}
    /\ checkout[o].step \in {"order", "done"} => checkout[o].net \in 0..checkout[o].gross
    /\ checkout[o].step = "done" => checkout[o].net > 0

\* What a delivery knows stays true: its event was emitted, and the end it has read
\* is covered by the captures there are.
DeliveriesKnow ==
  \A d \in Deliveries : delivery[d].step \in {"find", "commit"} =>
    /\ delivery[d].order \in Orders /\ delivery[d].event \in emitted[delivery[d].order]
    /\ delivery[d].end # None =>
         delivery[d].end <= now + extensions[delivery[d].order] * Period

\* A refund request under way has seen its payment captured.
RefundsKnow ==
  \A r \in Refunds : refund[r].step \in {"call", "commit"} =>
    /\ refund[r].order \in Orders /\ refund[r].status = "captured"
    /\ payment[refund[r].order].paid # None /\ payment[refund[r].order].status # None

\* Refund requests that have the money back and no row yet.
Unrecorded(o) == {r \in Refunds : refund[r].step = "commit" /\ refund[r].order = o}

\* The balance of an order on which nobody acted on an outdated payment: a captured
\* payment whose refund is not on its way is one extension ahead of the refunds.
Balanced ==
  \A o \in Orders \ stale :
    /\ \A q, r \in Unrecorded(o) : q = r
    /\ extensions[o] = refunded[o]
         + IF payment[o].status = "captured" /\ Unrecorded(o) = {} THEN 1 ELSE 0
    /\ payment[o].status # "captured" => Unrecorded(o) = {}

\* A delivery extends one period at most.
ExtensionsCounted ==
  \A o \in Orders : extensions[o] <= Cardinality({d \in Deliveries : delivery[d].step = "done"})

IInv == /\ TypeOK /\ CheckoutFollows /\ DeliveriesKnow /\ RefundsKnow
        /\ ActiveWasPaid /\ ExtensionsCounted /\ Balanced
-----------------------------------------------------------------------------
(* The price list.                                                         *)

LEMMA Tiers ==
    /\ DOMAIN PricingTiers = {1, 2, 3, 4}
    /\ \A n \in Int :
         /\ Within(PricingTiers[1], n) <=> n <= 10
         /\ Within(PricingTiers[2], n) <=> n <= 50
         /\ Within(PricingTiers[3], n) <=> n <= 200
         /\ Within(PricingTiers[4], n)
  BY DEF PricingTiers, Within

\* The walk over the tiers, spelled out.
LEMMA FirstFitIs ==
    ASSUME NEW n \in Nat \ {0}
    PROVE  FirstFit(n) = IF n <= 10 THEN 1 ELSE IF n <= 50 THEN 2 ELSE IF n <= 200 THEN 3 ELSE 4
<1> DEFINE w == IF n <= 10 THEN 1 ELSE IF n <= 50 THEN 2 ELSE IF n <= 200 THEN 3 ELSE 4
           Fits(i) == /\ Within(PricingTiers[i], n)
                      /\ \A j \in DOMAIN PricingTiers : j < i => ~Within(PricingTiers[j], n)
<1>1. w \in DOMAIN PricingTiers /\ Fits(w)
  BY Tiers
<1>2. \A i \in DOMAIN PricingTiers : Fits(i) => i = w
  BY Tiers
<1> QED
  BY <1>1, <1>2 DEF FirstFit

\* The published tiers are exact at their boundaries (unit_price_monthly).
THEOREM PublishedRates ==
    ASSUME NEW n \in Nat \ {0}
    PROVE  UnitPriceMonthly(n) =
             IF n <= 10 THEN 99 ELSE IF n <= 50 THEN 79 ELSE IF n <= 200 THEN 69 ELSE 59
  BY FirstFitIs DEF UnitPriceMonthly, PricingTiers

\* A larger purchase never raises the price of a device, on either cycle
\* (unit_price).
THEOREM NeverDearer ==
    ASSUME NEW m \in Nat \ {0}, NEW n \in Nat \ {0}, m <= n, NEW cycle \in Cycles
    PROVE  UnitPrice(n, cycle) <= UnitPrice(m, cycle)
  BY PublishedRates DEF UnitPrice, AnnualUnitPrice, Cycles

\* The price table shown beside the quote highlights exactly the tier that is
\* charged: its ranges are disjoint and leave no gap.
THEOREM OneRowHighlighted ==
    ASSUME NEW n \in Nat \ {0}, NEW i \in DOMAIN PricingTiers
    PROVE  Highlighted(i, n) <=> i = FirstFit(n)
  BY Tiers, FirstFitIs, PublishedRates DEF Highlighted, PricingTiers
-----------------------------------------------------------------------------
(* Coupons.                                                                *)

LEMMA Hundredths ==
    ASSUME NEW x \in Int
    PROVE  /\ x \div 100 \in Int /\ x % 100 \in 0..99
           /\ x = 100 * (x \div 100) + (x % 100)
  BY SMT

\* Python's round never passes a whole number its argument does not pass, and is
\* less than one away.
LEMMA RoundNear ==
    ASSUME NEW x \in Int, NEW k \in Int
    PROVE  /\ Round(x, 100) \in Int
           /\ x <= 100 * k => Round(x, 100) <= k
           /\ 100 * k <= x => k <= Round(x, 100)
  BY Hundredths DEF Round

\* Whatever coupon an administrator can save, a type-only update that leaves a
\* percentage above 100 included, the discount neither raises the price nor makes
\* it negative (apply_coupon_discount).
THEOREM DiscountStaysInRange ==
    ASSUME NEW total \in Nat, NEW caps, NEW ends, NEW c \in CouponRows(Nat, caps, ends)
    PROVE  Discounted(total, c) \in 0..total
<1>1. c.value \in Nat /\ c.type \in {"percent", "fixed"}
  BY DEF CouponRows, DiscountTypes
<1>2. CASE c.type = "percent"
  <2> DEFINE x == total * (100 - c.value)
  <2>1. x \in Int /\ x <= 100 * total
    <3>1. total * c.value \in Nat
      BY <1>1, SMT
    <3>2. x = 100 * total - total * c.value
      BY <1>1, SMT
    <3> QED
      BY <3>1, <3>2, SMT
  <2> HIDE DEF x
  <2>2. Round(x, 100) \in Int /\ Round(x, 100) <= total
    BY <2>1, RoundNear
  <2>3. Discounted(total, c) = IF Round(x, 100) < 0 THEN 0 ELSE Round(x, 100)
    BY <1>2 DEF Discounted, x
  <2> QED
    BY <2>2, <2>3
<1>3. CASE c.type = "fixed"
  BY <1>1, <1>3 DEF Discounted
<1> QED
  BY <1>1, <1>2, <1>3

\* Nor does a larger order become cheaper under a percentage that create_coupon
\* accepts.
THEOREM DiscountKeepsOrder ==
    ASSUME NEW s \in Nat, NEW t \in Nat, s <= t,
           NEW caps, NEW ends, NEW c \in CouponRows(Nat, caps, ends), Creatable(c)
    PROVE  Discounted(s, c) <= Discounted(t, c)
<1>1. c.value \in Nat /\ c.type \in {"percent", "fixed"}
  BY DEF CouponRows, DiscountTypes
<1>2. CASE c.type = "percent"
  <2> DEFINE x == s * (100 - c.value)
             y == t * (100 - c.value)
  <2>1. x \in Int /\ y \in Int /\ x <= y
    <3>1. 100 - c.value \in Nat
      BY <1>1, <1>2 DEF Creatable
    <3>2. (t - s) * (100 - c.value) \in Nat
      BY <3>1, SMT
    <3>3. y = x + (t - s) * (100 - c.value)
      BY <1>1, SMT
    <3> QED
      BY <1>1, <3>2, <3>3, SMT
  <2> HIDE DEF x, y
  <2>2. Round(x, 100) \in Int /\ Round(y, 100) \in Int /\ Round(x, 100) <= Round(y, 100)
    <3>1. CASE x \div 100 = y \div 100
      BY <2>1, <3>1, Hundredths DEF Round
    <3>2. CASE x \div 100 < y \div 100
      BY <2>1, <3>2, Hundredths DEF Round
    <3>3. x \div 100 <= y \div 100
      BY <2>1, Hundredths
    <3> QED
      BY <2>1, <3>1, <3>2, <3>3, Hundredths
  <2>3. /\ Discounted(s, c) = IF Round(x, 100) < 0 THEN 0 ELSE Round(x, 100)
        /\ Discounted(t, c) = IF Round(y, 100) < 0 THEN 0 ELSE Round(y, 100)
    BY <1>2 DEF Discounted, x, y
  <2> QED
    BY <2>2, <2>3
<1>3. CASE c.type = "fixed"
  BY <1>1, <1>3 DEF Discounted
<1> QED
  BY <1>1, <1>2, <1>3
-----------------------------------------------------------------------------
(* Rows and their types.                                                   *)

CheckoutRow == [step : {"idle", "order", "done", "failed"}, gross : Nat, net : Nat, coupon : BOOLEAN]
PaymentRow == [status : PaymentStatuses, paid : Times \cup {None}]
SubscriptionRow == [status : {None, "created", "active"}, end : Times \cup {None}]
DeliveryRow == [step : {"idle", "find", "commit"} \cup Ended, order : Orders \cup {None},
                event : Events \cup {None}, status : PaymentStatuses, end : Times \cup {None}]
RefundRow == [step : {"idle", "call", "commit"} \cup Ended, order : Orders \cup {None},
              status : PaymentStatuses]

LEMMA Rows ==
    ASSUME TypeOK
    PROVE  /\ checkout \in [Orders -> CheckoutRow] /\ payment \in [Orders -> PaymentRow]
           /\ subscription \in [Orders -> SubscriptionRow] /\ delivery \in [Deliveries -> DeliveryRow]
           /\ refund \in [Refunds -> RefundRow]
  BY DEF TypeOK, CheckoutRow, PaymentRow, SubscriptionRow, DeliveryRow, RefundRow

\* A quote and the coupon's discount on it.
LEMMA QuoteTyped ==
    ASSUME NEW offer \in Offers, NEW withCoupon \in BOOLEAN,
           coupon \in CouponStock \cup {None}, withCoupon => coupon # None
    PROVE  LET gross == Gross(offer[1], offer[2]) IN
           /\ gross \in Nat
           /\ (IF withCoupon THEN Discounted(gross, coupon) ELSE gross) \in 0..gross
<1> DEFINE gross == Gross(offer[1], offer[2])
<1>1. offer[1] \in Nat \ {0} /\ offer[2] \in Cycles
  BY PeriodAssumption
<1>2. UnitPrice(offer[1], offer[2]) \in Nat
  BY <1>1, PublishedRates DEF UnitPrice, AnnualUnitPrice
<1>3. gross \in Nat
  BY <1>1, <1>2, SMT DEF Gross
<1> HIDE DEF gross
<1>4. ASSUME withCoupon PROVE Discounted(gross, coupon) \in 0..gross
  <2>1. coupon \in CouponRows(Nat, Nat \cup {None}, Nat \cup {None})
    BY <1>4, PeriodAssumption
  <2> QED
    BY <1>3, <2>1, DiscountStaysInRange
<1> QED
  BY <1>3, <1>4 DEF gross

LEMMA PeriodsAdd ==
    ASSUME NEW m \in Nat, NEW n \in Nat, m <= n
    PROVE  /\ m * Period \in Nat /\ n * Period \in Nat /\ m * Period <= n * Period
           /\ (n + 1) * Period = n * Period + Period
<1>1. Period \in Nat /\ n - m \in Nat
  BY PeriodAssumption
<1>2. (n - m) * Period \in Nat /\ m * Period \in Nat /\ n * Period \in Nat
  BY <1>1, SMT
<1>3. n * Period = m * Period + (n - m) * Period /\ (n + 1) * Period = n * Period + Period
  BY <1>1, SMT
<1> QED
  BY <1>2, <1>3

LEMMA DeliveriesCounted ==
    /\ Cardinality(Deliveries) \in Nat
    /\ \A D \in SUBSET Deliveries : /\ IsFiniteSet(D) /\ Cardinality(D) \in Nat
                                    /\ Cardinality(D) <= Cardinality(Deliveries)
  BY PeriodAssumption, FS_Subset, FS_CardinalityType

\* What a capture that is not a duplicate writes.
LEMMA CaptureExtends ==
    ASSUME IInv, NEW d \in Deliveries, Capture(d), delivery[d].status # "captured"
    PROVE  LET o == delivery[d].order IN
           /\ o \in Orders /\ "captured" \in emitted[o] /\ now \in Times
           /\ payment' = [payment EXCEPT ![o] = [status |-> "captured", paid |-> now]]
           /\ extensions' = [extensions EXCEPT ![o] = extensions[o] + 1]
           /\ \E e \in Times :
                /\ subscription' = [subscription EXCEPT ![o] = [status |-> "active", end |-> e]]
                /\ e <= now + (extensions[o] + 1) * Period
<1> DEFINE o == delivery[d].order
           end == delivery[d].end
           base == IF end # None /\ end > now THEN end ELSE now
           k == extensions[o]
<1>1. /\ delivery[d].step = "commit" /\ delivery[d].event = "captured"
      /\ payment' = [payment EXCEPT ![o] = [status |-> "captured", paid |-> now]]
      /\ extensions' = [extensions EXCEPT ![o] = extensions[o] + 1]
      /\ subscription' = [subscription EXCEPT ![o] = [status |-> "active", end |-> base + Period]]
  BY DEF Capture, DeliveryEnds
<1>2. o \in Orders /\ "captured" \in emitted[o] /\ (end # None => end <= now + k * Period)
  BY <1>1 DEF IInv, DeliveriesKnow
<1>3. /\ now \in 0..MaxTime /\ MaxTime \in Nat /\ Period \in Nat /\ k \in Nat
      /\ end \in Times \cup {None} /\ None \notin Int
  BY <1>2, PeriodAssumption, Rows DEF IInv, TypeOK, DeliveryRow
<1>4. Cardinality(Deliveries) \in Nat /\ k <= Cardinality(Deliveries)
  <2>1. k <= Cardinality({e \in Deliveries : delivery[e].step = "done"})
    BY <1>2 DEF IInv, ExtensionsCounted
  <2> QED
    BY <1>3, <2>1, DeliveriesCounted
<1> DEFINE c == Cardinality(Deliveries)
           top == MaxTime + (c + 1) * Period
<1>5. /\ k * Period \in Nat /\ k * Period <= c * Period /\ c * Period \in Nat
      /\ (k + 1) * Period = k * Period + Period /\ (c + 1) * Period = c * Period + Period
  BY <1>3, <1>4, PeriodsAdd
<1>6. Times = 0..top
  BY DEF Times
<1> HIDE DEF o, c, k, end
<1>7. top \in Nat /\ now \in 0..top
  BY <1>3, <1>5
<1>8. base \in Nat /\ base <= now + k * Period
  BY <1>2, <1>3, <1>5, <1>6, <1>7
<1>9. base + Period \in 0..top /\ base + Period <= now + (k + 1) * Period
  BY <1>3, <1>5, <1>7, <1>8
<1> QED
  BY <1>1, <1>2, <1>6, <1>7, <1>9 DEF o, k
-----------------------------------------------------------------------------
(* Steps.                                                                  *)

LEMMA StepTyped == ASSUME IInv, [Next]_vars PROVE TypeOK'
<1>a. TypeOK /\ RefundsKnow
  BY DEF IInv
<1>b. /\ checkout \in [Orders -> CheckoutRow] /\ payment \in [Orders -> PaymentRow]
      /\ subscription \in [Orders -> SubscriptionRow] /\ delivery \in [Deliveries -> DeliveryRow]
      /\ refund \in [Refunds -> RefundRow]
  BY <1>a, Rows
<1>c. /\ None \notin Int \cup {"created", "active", "captured", "failed", "refunded"}
      /\ MaxTime \in Nat /\ MaxEdits \in Nat
  BY PeriodAssumption
<1>1. CASE Tick
  BY <1>a, <1>c, <1>1 DEF Tick, TypeOK, checkoutVars
<1>2. CASE EditCoupon
  BY <1>a, <1>c, <1>2 DEF EditCoupon, TypeOK
<1>3. ASSUME NEW o \in Orders, NEW offer \in Offers, NEW withCoupon \in BOOLEAN,
             Price(o, offer, withCoupon)
      PROVE  TypeOK'
  <2> DEFINE gross == Gross(offer[1], offer[2])
             net == IF withCoupon THEN Discounted(gross, coupon) ELSE gross
             row == [step |-> "order", gross |-> gross, coupon |-> withCoupon, net |-> net]
  <2>1. coupon \in CouponStock \cup {None} /\ (withCoupon => coupon # None)
        /\ checkout' = [checkout EXCEPT ![o] = row]
    BY <1>a, <1>3 DEF Price, TypeOK
  <2>2. gross \in Nat /\ net \in 0..gross
    BY <2>1, QuoteTyped
  <2>3. row \in CheckoutRow
    <3> HIDE DEF gross, net
    <3> QED
      BY <2>2 DEF CheckoutRow
  <2>4. checkout' \in [Orders -> CheckoutRow]
    <3> HIDE DEF row
    <3> QED
      BY <1>b, <2>1, <2>3
  <2> QED
    BY <1>a, <1>3, <2>4 DEF Price, TypeOK, CheckoutRow
<1>4. ASSUME NEW o \in Orders, Subscribe(o) PROVE TypeOK'
  <2>1. checkout' \in [Orders -> CheckoutRow]
    BY <1>b, <1>4 DEF Subscribe, CheckoutRow
  <2>2. payment' \in [Orders -> PaymentRow]
    BY <1>b, <1>4 DEF Subscribe, PaymentRow, PaymentStatuses
  <2>3. subscription' \in [Orders -> SubscriptionRow]
    BY <1>b, <1>4 DEF Subscribe, SubscriptionRow
  <2>4. \A e \in Orders : payment'[e].status \in {"captured", "refunded"} => payment'[e].paid # None
    BY <1>a, <1>4 DEF Subscribe, TypeOK
  <2> QED
    BY <1>a, <1>4, <2>1, <2>2, <2>3, <2>4
    DEF Subscribe, TypeOK, CheckoutRow, PaymentRow, SubscriptionRow
<1>5. ASSUME NEW o \in Orders, SubscribeFails(o) PROVE TypeOK'
  <2> DEFINE row == [step |-> "failed", gross |-> 0, net |-> 0, coupon |-> FALSE]
  <2>1. row \in CheckoutRow /\ checkout' = [checkout EXCEPT ![o] = row]
    BY <1>5 DEF SubscribeFails, CheckoutRow
  <2>2. checkout' \in [Orders -> CheckoutRow]
    BY <1>b, <2>1
  <2> QED
    BY <1>a, <1>5, <2>2 DEF SubscribeFails, TypeOK, CheckoutRow
<1>6. ASSUME NEW o \in Orders, NEW event \in Events, Attempt(o, event) PROVE TypeOK'
  BY <1>a, <1>6 DEF Attempt, TypeOK, checkoutVars
<1>7. ASSUME NEW d \in Deliveries, NEW o \in Orders, NEW event \in Events, WebhookFind(d, o, event)
      PROVE  TypeOK'
  <2> DEFINE row == [step |-> "find", order |-> o, event |-> event,
                     status |-> payment[o].status, end |-> None]
  <2>1. row \in DeliveryRow /\ delivery' = [delivery EXCEPT ![d] = row]
    BY <1>b, <1>7 DEF WebhookFind, DeliveryRow, PaymentRow
  <2>2. delivery' \in [Deliveries -> DeliveryRow]
    BY <1>b, <2>1
  <2> QED
    BY <1>a, <1>7, <2>2 DEF WebhookFind, TypeOK, DeliveryRow, checkoutVars
<1>8. ASSUME NEW d \in Deliveries, WebhookReadSubscription(d) PROVE TypeOK'
  <2> DEFINE end == subscription[delivery[d].order].end
  <2>1. end \in Times \cup {None}
    BY <1>a, <1>b, <1>8 DEF WebhookReadSubscription, IInv, DeliveriesKnow, SubscriptionRow
  <2>2. delivery' \in [Deliveries -> DeliveryRow]
    <3>1. delivery' = [delivery EXCEPT ![d].step = "commit", ![d].end = end]
      BY <1>8 DEF WebhookReadSubscription
    <3> HIDE DEF end
    <3>2. [delivery[d] EXCEPT !.step = "commit", !.end = end] \in DeliveryRow
      BY <1>b, <2>1 DEF DeliveryRow
    <3>3. delivery' = [delivery EXCEPT ![d] = [delivery[d] EXCEPT !.step = "commit", !.end = end]]
      BY <3>1
    <3> QED
      BY <1>b, <3>2, <3>3
  <2> QED
    BY <1>a, <1>8, <2>2 DEF WebhookReadSubscription, TypeOK, DeliveryRow, checkoutVars
<1>d. ASSUME NEW d \in Deliveries, NEW outcome \in Ended,
             delivery' = [delivery EXCEPT ![d] = [Idle EXCEPT !.step = outcome]]
      PROVE  delivery' \in [Deliveries -> DeliveryRow]
  <2>1. [Idle EXCEPT !.step = outcome] \in DeliveryRow
    BY DEF Idle, DeliveryRow, PaymentStatuses
  <2> QED
    BY <1>b, <1>d, <2>1
<1>9. ASSUME NEW d \in Deliveries, Capture(d) PROVE TypeOK'
  <2>1. delivery' \in [Deliveries -> DeliveryRow]
    BY <1>d, <1>9 DEF Capture, DeliveryEnds, Ended
  <2>2. CASE delivery[d].status = "captured"
    BY <1>a, <1>9, <2>1, <2>2 DEF Capture, TypeOK, DeliveryRow, checkoutVars
  <2>3. CASE delivery[d].status # "captured"
    <3> DEFINE o == delivery[d].order
               row == [status |-> "captured", paid |-> now]
    <3>1. PICK e \in Times : subscription' = [subscription EXCEPT ![o] = [status |-> "active", end |-> e]]
      BY <1>9, <2>3, CaptureExtends
    <3>2. /\ o \in Orders /\ now \in Times /\ payment' = [payment EXCEPT ![o] = row]
          /\ extensions' = [extensions EXCEPT ![o] = extensions[o] + 1]
      BY <1>9, <2>3, CaptureExtends
    <3> HIDE DEF o
    <3>3. payment' \in [Orders -> PaymentRow]
      BY <1>b, <3>2 DEF PaymentRow, PaymentStatuses
    <3>4. subscription' \in [Orders -> SubscriptionRow]
      BY <1>b, <3>1, <3>2 DEF SubscriptionRow
    <3>5. extensions' \in [Orders -> Nat]
      BY <1>a, <3>2 DEF TypeOK
    <3>6. \A e2 \in Orders : payment'[e2].status \in {"captured", "refunded"} => payment'[e2].paid # None
      BY <1>a, <1>c, <3>2 DEF TypeOK
    <3>7. stale' \subseteq Orders
      BY <1>a, <1>9, <2>3, <3>2 DEF Capture, NoteStale, TypeOK, o
    <3> QED
      BY <1>a, <1>9, <2>1, <3>3, <3>4, <3>5, <3>6, <3>7
      DEF Capture, TypeOK, DeliveryRow, PaymentRow, SubscriptionRow, checkoutVars
  <2> QED
    BY <2>2, <2>3
<1>10. ASSUME NEW d \in Deliveries, Failure(d) PROVE TypeOK'
  <2> DEFINE o == delivery[d].order
  <2>1. delivery' \in [Deliveries -> DeliveryRow]
    BY <1>d, <1>10 DEF Failure, DeliveryEnds, Ended
  <2>2. o \in Orders
    BY <1>10 DEF Failure, DeliveryEnds, IInv, DeliveriesKnow
  <2>3. UNCHANGED payment \/ payment' = [payment EXCEPT ![o].status = "failed"]
    BY <1>10 DEF Failure
  <2>4. payment' \in [Orders -> PaymentRow]
    <3> HIDE DEF o
    <3> QED
      BY <1>b, <2>2, <2>3 DEF PaymentRow, PaymentStatuses
  <2>5. ASSUME NEW e \in Orders, payment'[e].status \in {"captured", "refunded"}
        PROVE  payment'[e].paid # None
    <3> HIDE DEF o
    <3>1. payment'[e] = payment[e] \/ payment'[e].status = "failed"
      BY <1>b, <2>2, <2>3 DEF PaymentRow
    <3> QED
      BY <1>a, <2>5, <3>1 DEF TypeOK
  <2>6. stale' \subseteq Orders
    BY <1>a, <1>10, <2>2 DEF Failure, NoteStale, TypeOK
  <2> QED
    BY <1>a, <1>10, <2>1, <2>4, <2>5, <2>6 DEF Failure, TypeOK, DeliveryRow, PaymentRow, checkoutVars
<1>11. ASSUME NEW d \in Deliveries, WebhookFails(d) PROVE TypeOK'
  <2>1. delivery' \in [Deliveries -> DeliveryRow]
    BY <1>d, <1>11 DEF WebhookFails, Ended
  <2> QED
    BY <1>a, <1>11, <2>1 DEF WebhookFails, TypeOK, DeliveryRow, checkoutVars
<1>12. ASSUME NEW r \in Refunds, NEW o \in Orders, RefundLoad(r, o) PROVE TypeOK'
  <2> DEFINE accepted == payment[o].status = "captured" /\ now <= payment[o].paid + RefundWindow
             row == [step |-> IF accepted THEN "call" ELSE "failed", order |-> o,
                     status |-> payment[o].status]
  <2>1. refund' = [refund EXCEPT ![r] = row]
    BY <1>12 DEF RefundLoad
  <2>2. row \in RefundRow
    <3>1. payment[o].status \in PaymentStatuses
      BY <1>b DEF PaymentRow
    <3> HIDE DEF accepted
    <3> QED
      BY <3>1 DEF RefundRow, Ended
  <2>3. refund' \in [Refunds -> RefundRow]
    <3> HIDE DEF row
    <3> QED
      BY <1>b, <2>1, <2>2
  <2> QED
    BY <1>a, <1>12, <2>3 DEF RefundLoad, TypeOK, RefundRow, checkoutVars
<1>e. ASSUME NEW r \in Refunds, NEW to \in {"commit"} \cup Ended, refund' = [refund EXCEPT ![r].step = to]
      PROVE  refund' \in [Refunds -> RefundRow]
  <2>1. [refund[r] EXCEPT !.step = to] \in RefundRow
    BY <1>b DEF RefundRow
  <2>2. refund' = [refund EXCEPT ![r] = [refund[r] EXCEPT !.step = to]]
    BY <1>e
  <2> QED
    BY <1>b, <2>1, <2>2
<1>13. ASSUME NEW r \in Refunds, RefundCall(r) PROVE TypeOK'
  <2>1. refund' \in [Refunds -> RefundRow]
    BY <1>e, <1>13 DEF RefundCall
  <2>2. refund[r].order \in Orders
    BY <1>a, <1>13 DEF RefundCall, RefundsKnow
  <2>3. refunded' \in [Orders -> Nat]
    BY <1>a, <1>13, <2>2 DEF RefundCall, TypeOK
  <2>4. stale' \subseteq Orders
    BY <1>a, <1>13, <2>2 DEF RefundCall, NoteStale, TypeOK
  <2> QED
    BY <1>a, <1>13, <2>1, <2>3, <2>4 DEF RefundCall, TypeOK, RefundRow, checkoutVars
<1>14. ASSUME NEW r \in Refunds, RefundCommit(r) PROVE TypeOK'
  <2> DEFINE o == refund[r].order
  <2>1. refund' \in [Refunds -> RefundRow]
    BY <1>e, <1>14 DEF RefundCommit, Ended
  <2>2. /\ o \in Orders /\ payment[o].paid # None
        /\ payment' = [payment EXCEPT ![o].status = "refunded"]
    BY <1>a, <1>14 DEF RefundCommit, RefundsKnow
  <2>3. payment' \in [Orders -> PaymentRow]
    <3> HIDE DEF o
    <3> QED
      BY <1>b, <2>2 DEF PaymentRow, PaymentStatuses
  <2>4. \A e \in Orders : payment'[e].status \in {"captured", "refunded"} => payment'[e].paid # None
    <3> HIDE DEF o
    <3> QED
      BY <1>a, <2>2 DEF TypeOK
  <2>5. stale' \subseteq Orders
    BY <1>a, <1>14, <2>2 DEF RefundCommit, NoteStale, TypeOK
  <2> QED
    BY <1>a, <1>14, <2>1, <2>3, <2>4, <2>5 DEF RefundCommit, TypeOK, RefundRow, PaymentRow, checkoutVars
<1>15. ASSUME NEW r \in Refunds, RefundFails(r) PROVE TypeOK'
  <2>1. refund' \in [Refunds -> RefundRow]
    BY <1>e, <1>15 DEF RefundFails, Ended
  <2>2. stale' \subseteq Orders
    BY <1>a, <1>15 DEF RefundFails, RefundsKnow, TypeOK
  <2> QED
    BY <1>a, <1>15, <2>1, <2>2 DEF RefundFails, TypeOK, RefundRow, checkoutVars
<1>16. CASE UNCHANGED vars
  BY <1>a, <1>16 DEF vars, TypeOK
<1> QED
  BY <1>1, <1>2, <1>3, <1>4, <1>5, <1>6, <1>7, <1>8, <1>9, <1>10, <1>11, <1>12, <1>13, <1>14, <1>15, <1>16
  DEF Next, Webhook, Refund

\* Only subscribe writes a payment that was not there, and no one takes it away.
LEMMA PaymentsStay ==
    ASSUME IInv, [Next]_vars, NEW o \in Orders,
           \A e \in Orders : ~Subscribe(e)
    PROVE  /\ payment'[o].status = None <=> payment[o].status = None
           /\ payment[o].paid # None => payment'[o].paid # None
<1>a. /\ payment \in [Orders -> PaymentRow]
      /\ None \notin Int \cup {"created", "active", "captured", "failed", "refunded"}
  BY PeriodAssumption, Rows DEF IInv
<1>b. ASSUME NEW e \in Orders, payment[e].status # None, payment'[o] = payment[o] \/ o = e,
             NEW s \in {"captured", "failed", "refunded"}, payment'[e].status = s,
             payment'[e].paid = payment[e].paid \/ payment'[e].paid # None
      PROVE  /\ payment'[o].status = None <=> payment[o].status = None
             /\ payment[o].paid # None => payment'[o].paid # None
  BY <1>a, <1>b
<1>1. ASSUME NEW d \in Deliveries, Capture(d), delivery[d].status # "captured"
      PROVE  /\ payment'[o].status = None <=> payment[o].status = None
             /\ payment[o].paid # None => payment'[o].paid # None
  <2> DEFINE e == delivery[d].order
  <2>1. /\ e \in Orders /\ "captured" \in emitted[e]
        /\ payment' = [payment EXCEPT ![e] = [status |-> "captured", paid |-> now]]
    BY <1>1, CaptureExtends
  <2>2. payment[e].status # None /\ now # None
    BY <1>a, <2>1 DEF IInv, CheckoutFollows, TypeOK
  <2>3. payment'[e].status = "captured" /\ payment'[e].paid = now /\ (payment'[o] = payment[o] \/ o = e)
    BY <1>a, <2>1
  <2> HIDE DEF e
  <2> QED
    BY <1>b, <2>1, <2>2, <2>3
<1>2. ASSUME NEW d \in Deliveries, Failure(d)
      PROVE  /\ payment'[o].status = None <=> payment[o].status = None
             /\ payment[o].paid # None => payment'[o].paid # None
  <2> DEFINE e == delivery[d].order
  <2>1. /\ e \in Orders /\ emitted[e] # {}
        /\ payment' = payment \/ payment' = [payment EXCEPT ![e].status = "failed"]
    BY <1>2 DEF Failure, DeliveryEnds, IInv, DeliveriesKnow
  <2>2. payment[e].status # None
    BY <2>1 DEF IInv, CheckoutFollows
  <2> HIDE DEF e
  <2>3. CASE payment' # payment
    <3>1. /\ payment'[e].status = "failed" /\ payment'[e].paid = payment[e].paid
          /\ payment'[o] = payment[o] \/ o = e
      BY <1>a, <2>1, <2>3 DEF PaymentRow
    <3> QED
      BY <1>b, <2>1, <2>2, <3>1
  <2> QED
    BY <2>3
<1>3. ASSUME NEW r \in Refunds, RefundCommit(r)
      PROVE  /\ payment'[o].status = None <=> payment[o].status = None
             /\ payment[o].paid # None => payment'[o].paid # None
  <2> DEFINE e == refund[r].order
  <2>1. /\ e \in Orders /\ payment[e].status # None
        /\ payment' = [payment EXCEPT ![e].status = "refunded"]
    BY <1>3 DEF RefundCommit, IInv, RefundsKnow
  <2> HIDE DEF e
  <2>2. /\ payment'[e].status = "refunded" /\ payment'[e].paid = payment[e].paid
        /\ payment'[o] = payment[o] \/ o = e
    BY <1>a, <2>1 DEF PaymentRow
  <2> QED
    BY <1>b, <2>1, <2>2
<1>4. \/ UNCHANGED payment
      \/ \E d \in Deliveries : Capture(d) /\ delivery[d].status # "captured"
      \/ \E d \in Deliveries : Failure(d)
      \/ \E r \in Refunds : RefundCommit(r)
  BY DEF Next, Webhook, Refund, Tick, EditCoupon, Price, SubscribeFails, Attempt, WebhookFind,
         WebhookReadSubscription, Capture, WebhookFails, RefundLoad, RefundCall, RefundFails, vars
<1> QED
  BY <1>1, <1>2, <1>3, <1>4

LEMMA StepCheckout == ASSUME IInv, [Next]_vars PROVE CheckoutFollows'
<1>a. checkout \in [Orders -> CheckoutRow] /\ payment \in [Orders -> PaymentRow] /\ emitted \in [Orders -> SUBSET Events]
  BY Rows DEF IInv, TypeOK
<1>b. CheckoutFollows
  BY DEF IInv
<1>1. ASSUME NEW o \in Orders, NEW offer \in Offers, NEW withCoupon \in BOOLEAN,
             Price(o, offer, withCoupon)
      PROVE  CheckoutFollows'
  <2> DEFINE gross == Gross(offer[1], offer[2])
             net == IF withCoupon THEN Discounted(gross, coupon) ELSE gross
  <2>1. coupon \in CouponStock \cup {None} /\ (withCoupon => coupon # None)
    BY <1>1 DEF Price, IInv, TypeOK
  <2>2. net \in 0..gross
    BY <2>1, QuoteTyped
  <2>3. /\ UNCHANGED <<payment, emitted>> /\ checkout[o].step \in {"idle", "failed"}
        /\ checkout' = [checkout EXCEPT ![o] =
             [step |-> "order", gross |-> gross, coupon |-> withCoupon, net |-> net]]
    BY <1>1 DEF Price
  <2> HIDE DEF gross, net
  <2>4. /\ checkout'[o].step = "order" /\ checkout'[o].net \in 0..checkout'[o].gross
        /\ \A e \in Orders \ {o} : checkout'[e] = checkout[e]
    BY <1>a, <2>2, <2>3
  <2> QED
    BY <1>b, <2>3, <2>4 DEF CheckoutFollows
<1>2. ASSUME NEW o \in Orders, Subscribe(o) PROVE CheckoutFollows'
  <2>1. /\ UNCHANGED emitted /\ checkout[o].step = "order" /\ checkout[o].net > 0
        /\ checkout'[o].step = "done" /\ checkout'[o].net = checkout[o].net
        /\ checkout'[o].gross = checkout[o].gross /\ payment'[o].status = "created"
        /\ \A e \in Orders \ {o} : checkout'[e] = checkout[e] /\ payment'[e] = payment[e]
    BY <1>a, <1>2 DEF Subscribe, CheckoutRow, PaymentRow
  <2> QED
    BY <1>b, <2>1, PeriodAssumption DEF CheckoutFollows
<1>3. ASSUME \A o \in Orders : ~Subscribe(o), UNCHANGED <<checkout, emitted>> PROVE CheckoutFollows'
  BY <1>b, <1>3, PaymentsStay DEF CheckoutFollows
<1>4. ASSUME NEW o \in Orders, SubscribeFails(o) PROVE CheckoutFollows'
  <2>1. /\ UNCHANGED <<payment, emitted>> /\ checkout[o].step = "order" /\ checkout'[o].step = "failed"
        /\ \A e \in Orders \ {o} : checkout'[e] = checkout[e]
    BY <1>a, <1>4 DEF SubscribeFails
  <2> QED
    BY <1>b, <2>1 DEF CheckoutFollows
<1>5. ASSUME NEW o \in Orders, NEW event \in Events, Attempt(o, event) PROVE CheckoutFollows'
  <2>1. /\ UNCHANGED <<payment, checkout>> /\ payment[o].status # None
        /\ \A e \in Orders \ {o} : emitted'[e] = emitted[e]
    BY <1>a, <1>5 DEF Attempt, checkoutVars
  <2> QED
    BY <1>b, <2>1 DEF CheckoutFollows
<1>6. \/ \E o \in Orders : \/ Subscribe(o) \/ SubscribeFails(o)
                           \/ \E offer \in Offers, withCoupon \in BOOLEAN : Price(o, offer, withCoupon)
                           \/ \E event \in Events : Attempt(o, event)
      \/ UNCHANGED <<checkout, emitted>>
  BY DEF Next, Webhook, Refund, Tick, EditCoupon, WebhookFind, WebhookReadSubscription, Capture,
         Failure, WebhookFails, RefundLoad, RefundCall, RefundCommit, RefundFails, vars, checkoutVars
<1> QED
  BY <1>1, <1>2, <1>3, <1>4, <1>5, <1>6

\* Time, what was emitted and what was extended only grow.
LEMMA StepGrows ==
    ASSUME IInv, [Next]_vars
    PROVE  /\ now \in Nat /\ now' \in Nat /\ now <= now'
           /\ \A o \in Orders : /\ emitted[o] \subseteq emitted'[o]
                                /\ extensions[o] \in Nat /\ extensions'[o] \in Nat
                                /\ extensions[o] <= extensions'[o]
<1>a. /\ now \in Nat /\ emitted \in [Orders -> SUBSET Events] /\ extensions \in [Orders -> Nat]
  BY PeriodAssumption DEF IInv, TypeOK
<1>1. now' \in {now, now + 1} /\ (UNCHANGED emitted \/ UNCHANGED extensions)
  BY DEF Next, Webhook, Refund, Tick, EditCoupon, Price, Subscribe, SubscribeFails, Attempt,
         WebhookFind, WebhookReadSubscription, Capture, Failure, WebhookFails, RefundLoad,
         RefundCall, RefundCommit, RefundFails, vars
<1>2. \/ UNCHANGED emitted
      \/ \E e \in Orders, event \in Events : emitted' = [emitted EXCEPT ![e] = emitted[e] \cup {event}]
  BY DEF Next, Webhook, Refund, Tick, EditCoupon, Price, Subscribe, SubscribeFails, Attempt,
         WebhookFind, WebhookReadSubscription, Capture, Failure, WebhookFails, RefundLoad,
         RefundCall, RefundCommit, RefundFails, vars
<1>3. \/ UNCHANGED extensions
      \/ \E e \in Orders : extensions' = [extensions EXCEPT ![e] = extensions[e] + 1]
  <2>1. UNCHANGED extensions \/ \E d \in Deliveries : Capture(d) /\ delivery[d].status # "captured"
    BY DEF Next, Webhook, Refund, Tick, EditCoupon, Price, Subscribe, SubscribeFails, Attempt,
           WebhookFind, WebhookReadSubscription, Capture, Failure, WebhookFails, RefundLoad,
           RefundCall, RefundCommit, RefundFails, vars
  <2> QED
    BY <2>1, CaptureExtends
<1> QED
  BY <1>a, <1>1, <1>2, <1>3

LEMMA StepDeliveries == ASSUME IInv, [Next]_vars PROVE DeliveriesKnow'
<1>a. /\ DeliveriesKnow /\ delivery \in [Deliveries -> DeliveryRow]
      /\ \A o \in Orders : subscription[o].end \in Times \cup {None}
  BY Rows DEF IInv, SubscriptionRow
\* What was covered stays covered.
<1>b. ASSUME NEW o \in Orders, NEW end \in Times, end <= now + extensions[o] * Period
      PROVE  end <= now' + extensions'[o] * Period
  <2>1. /\ now \in Nat /\ now' \in Nat /\ now <= now'
        /\ extensions[o] \in Nat /\ extensions'[o] \in Nat /\ extensions[o] <= extensions'[o]
    BY StepGrows
  <2>2. /\ extensions[o] * Period \in Nat /\ extensions'[o] * Period \in Nat
        /\ extensions[o] * Period <= extensions'[o] * Period
    BY <2>1, PeriodsAdd
  <2>3. end \in Int
    BY DEF Times
  <2> QED
    BY <1>b, <2>1, <2>2, <2>3
<1>1. ASSUME NEW d \in Deliveries, delivery[d].step \in {"find", "commit"},
             delivery'[d].order = delivery[d].order, delivery'[d].event = delivery[d].event,
             \/ delivery'[d].end = delivery[d].end
             \/ delivery'[d].end = subscription[delivery[d].order].end
      PROVE  /\ delivery'[d].order \in Orders /\ delivery'[d].event \in emitted'[delivery'[d].order]
             /\ delivery'[d].end # None =>
                  delivery'[d].end <= now' + extensions'[delivery'[d].order] * Period
  <2> DEFINE o == delivery[d].order
             end == delivery'[d].end
  <2>1. o \in Orders /\ delivery[d].event \in emitted'[o] /\ end \in Times \cup {None}
    BY <1>a, <1>1, StepGrows DEF DeliveriesKnow, DeliveryRow
  <2>2. end # None => end <= now + extensions[o] * Period
    BY <1>a, <1>1, <2>1 DEF DeliveriesKnow, IInv, ActiveWasPaid
  <2> HIDE DEF o, end
  <2>3. end # None => end <= now' + extensions'[o] * Period
    BY <1>b, <2>1, <2>2
  <2> QED
    BY <1>1, <2>1, <2>3 DEF o, end
<1>2. ASSUME NEW d \in Deliveries, NEW o \in Orders, NEW event \in Events, WebhookFind(d, o, event)
      PROVE  DeliveriesKnow'
  <2>1. /\ delivery'[d].order = o /\ delivery'[d].event \in emitted'[o] /\ delivery'[d].end = None
        /\ \A e \in Deliveries \ {d} : delivery'[e] = delivery[e]
    BY <1>a, <1>2 DEF WebhookFind
  <2>2. ASSUME NEW e \in Deliveries, delivery'[e].step \in {"find", "commit"}, e # d
        PROVE  /\ delivery'[e].order \in Orders /\ delivery'[e].event \in emitted'[delivery'[e].order]
               /\ delivery'[e].end # None =>
                    delivery'[e].end <= now' + extensions'[delivery'[e].order] * Period
    BY <1>1, <2>1, <2>2
  <2> QED
    BY <2>1, <2>2 DEF DeliveriesKnow
<1>3. ASSUME \A d \in Deliveries : delivery'[d].step \in {"find", "commit"} =>
               /\ delivery[d].step \in {"find", "commit"}
               /\ delivery'[d].order = delivery[d].order /\ delivery'[d].event = delivery[d].event
               /\ \/ delivery'[d].end = delivery[d].end
                  \/ delivery'[d].end = subscription[delivery[d].order].end
      PROVE  DeliveriesKnow'
  BY <1>1, <1>3 DEF DeliveriesKnow
<1>4. ASSUME NEW d \in Deliveries, WebhookReadSubscription(d) PROVE DeliveriesKnow'
  <2>1. /\ delivery[d].step = "find"
        /\ delivery'[d].order = delivery[d].order /\ delivery'[d].event = delivery[d].event
        /\ delivery'[d].end = subscription[delivery[d].order].end
        /\ \A e \in Deliveries \ {d} : delivery'[e] = delivery[e]
    BY <1>a, <1>4 DEF WebhookReadSubscription, DeliveryRow
  <2> QED
    BY <1>3, <2>1
<1>5. ASSUME NEW d \in Deliveries, Capture(d) \/ Failure(d) \/ WebhookFails(d) PROVE DeliveriesKnow'
  <2>1. delivery'[d].step \in Ended /\ \A e \in Deliveries \ {d} : delivery'[e] = delivery[e]
    BY <1>a, <1>5 DEF Capture, Failure, WebhookFails, DeliveryEnds, Idle, Ended
  <2> QED
    BY <1>3, <2>1 DEF Ended
<1>6. CASE UNCHANGED delivery
  BY <1>3, <1>6
<1>7. \/ UNCHANGED delivery
      \/ \E d \in Deliveries : \/ \E o \in Orders, event \in Events : WebhookFind(d, o, event)
                               \/ WebhookReadSubscription(d) \/ Capture(d) \/ Failure(d) \/ WebhookFails(d)
  BY DEF Next, Webhook, Refund, Tick, EditCoupon, Price, Subscribe, SubscribeFails, Attempt,
         RefundLoad, RefundCall, RefundCommit, RefundFails, vars
<1> QED
  BY <1>2, <1>4, <1>5, <1>6, <1>7

LEMMA StepRefunds == ASSUME IInv, [Next]_vars PROVE RefundsKnow'
<1>a. /\ RefundsKnow /\ refund \in [Refunds -> RefundRow] /\ payment \in [Orders -> PaymentRow]
      /\ None \notin Int \cup {"created", "active", "captured", "failed", "refunded"}
  BY Rows, PeriodAssumption DEF IInv
\* The rows a request has read stay paid.
<1>b. ASSUME NEW o \in Orders
      PROVE  /\ payment[o].paid # None => payment'[o].paid # None
             /\ payment[o].status # None => payment'[o].status # None
  <2>1. ASSUME NEW e \in Orders, Subscribe(e)
        PROVE  payment'[o].paid = payment[o].paid /\ payment'[o].status \in {"created", payment[o].status}
    BY <1>a, <2>1 DEF Subscribe, PaymentRow
  <2> QED
    BY <1>a, <2>1, PaymentsStay
<1>1. ASSUME \A r \in Refunds : refund'[r].step \in {"call", "commit"} =>
               /\ refund[r].step \in {"call", "commit"}
               /\ refund'[r].order = refund[r].order /\ refund'[r].status = refund[r].status
      PROVE  RefundsKnow'
  BY <1>a, <1>b, <1>1 DEF RefundsKnow
<1>2. ASSUME NEW r \in Refunds, NEW o \in Orders, RefundLoad(r, o) PROVE RefundsKnow'
  <2> DEFINE accepted == payment[o].status = "captured" /\ now <= payment[o].paid + RefundWindow
  <2>1. /\ refund' = [refund EXCEPT ![r] = [step |-> IF accepted THEN "call" ELSE "failed", order |-> o,
                                            status |-> payment[o].status]]
        /\ UNCHANGED payment
    BY <1>2 DEF RefundLoad
  <2>2. accepted => payment[o].status = "captured" /\ payment[o].paid # None
    BY DEF IInv, TypeOK
  <2> HIDE DEF accepted
  <2>3. /\ refund'[r].step = (IF accepted THEN "call" ELSE "failed")
        /\ refund'[r].order = o /\ refund'[r].status = payment[o].status
        /\ \A q \in Refunds \ {r} : refund'[q] = refund[q]
    BY <1>a, <2>1
  <2> QED
    BY <1>a, <2>1, <2>2, <2>3 DEF RefundsKnow
<1>3. ASSUME NEW r \in Refunds, RefundCall(r) \/ RefundCommit(r) \/ RefundFails(r) PROVE RefundsKnow'
  <2>1. /\ refund[r].step \in {"call", "commit"}
        /\ refund'[r].order = refund[r].order /\ refund'[r].status = refund[r].status
        /\ \A q \in Refunds \ {r} : refund'[q] = refund[q]
    BY <1>a, <1>3 DEF RefundCall, RefundCommit, RefundFails, RefundRow
  <2> QED
    BY <1>1, <2>1
<1>4. CASE UNCHANGED refund
  BY <1>1, <1>4
<1>5. \/ UNCHANGED refund
      \/ \E r \in Refunds : \/ \E o \in Orders : RefundLoad(r, o)
                            \/ RefundCall(r) \/ RefundCommit(r) \/ RefundFails(r)
  BY DEF Next, Webhook, Refund, Tick, EditCoupon, Price, Subscribe, SubscribeFails, Attempt,
         WebhookFind, WebhookReadSubscription, Capture, Failure, WebhookFails, vars
<1> QED
  BY <1>2, <1>3, <1>4, <1>5

LEMMA StepActive == ASSUME IInv, [Next]_vars PROVE ActiveWasPaid'
<1>a. /\ ActiveWasPaid /\ subscription \in [Orders -> SubscriptionRow]
      /\ None \notin Int \cup {"created", "active", "captured", "failed", "refunded"}
  BY Rows, PeriodAssumption DEF IInv
<1>1. ASSUME NEW o \in Orders, UNCHANGED <<subscription[o].status, subscription[o].end>>
      PROVE  /\ subscription'[o].status = "active" <=> subscription'[o].end # None
             /\ subscription'[o].status = "active" =>
                  /\ "captured" \in emitted'[o]
                  /\ subscription'[o].end <= now' + extensions'[o] * Period
  <2> DEFINE end == subscription[o].end
  <2>1. CASE subscription[o].status = "active"
    <3>1. "captured" \in emitted[o] /\ end <= now + extensions[o] * Period /\ end \in Times /\ end # None
      BY <1>a, <2>1 DEF ActiveWasPaid, SubscriptionRow
    <3>2. /\ now \in Nat /\ now' \in Nat /\ now <= now' /\ emitted[o] \subseteq emitted'[o]
          /\ extensions[o] \in Nat /\ extensions'[o] \in Nat /\ extensions[o] <= extensions'[o]
      BY StepGrows
    <3>3. /\ extensions[o] * Period \in Nat /\ extensions'[o] * Period \in Nat
          /\ extensions[o] * Period <= extensions'[o] * Period
      BY <3>2, PeriodsAdd
    <3>5. end \in Int
      BY <3>1 DEF Times
    <3> HIDE DEF end
    <3>4. end <= now' + extensions'[o] * Period
      BY <3>1, <3>2, <3>3, <3>5
    <3> QED
      BY <1>1, <2>1, <3>1, <3>2, <3>4 DEF end
  <2>2. CASE subscription[o].status # "active"
    BY <1>a, <1>1, <2>2 DEF ActiveWasPaid
  <2> QED
    BY <2>1, <2>2
<1>2. ASSUME NEW o \in Orders, Subscribe(o) PROVE ActiveWasPaid'
  <2>1. emitted[o] = {}
    BY <1>2 DEF Subscribe, IInv, CheckoutFollows
  <2>2. /\ subscription'[o].status = "created" /\ subscription'[o].end = subscription[o].end
        /\ \A e \in Orders \ {o} : subscription'[e] = subscription[e]
    BY <1>a, <1>2 DEF Subscribe, SubscriptionRow
  <2>3. subscription[o].end = None
    BY <1>a, <2>1 DEF ActiveWasPaid
  <2> QED
    BY <1>1, <2>2, <2>3 DEF ActiveWasPaid
<1>3. ASSUME NEW d \in Deliveries, Capture(d), delivery[d].status # "captured" PROVE ActiveWasPaid'
  <2> DEFINE o == delivery[d].order
  <2>1. PICK e \in Times : /\ subscription' = [subscription EXCEPT ![o] = [status |-> "active", end |-> e]]
                           /\ e <= now + (extensions[o] + 1) * Period
    BY <1>3, CaptureExtends
  <2>2. /\ o \in Orders /\ "captured" \in emitted[o]
        /\ extensions' = [extensions EXCEPT ![o] = extensions[o] + 1]
    BY <1>3, CaptureExtends
  <2>3. UNCHANGED <<now, emitted>> /\ extensions \in [Orders -> Nat]
    BY <1>3 DEF Capture, IInv, TypeOK
  <2> HIDE DEF o
  <2>4. /\ subscription'[o].status = "active" /\ subscription'[o].end = e
        /\ extensions'[o] = extensions[o] + 1
        /\ \A q \in Orders \ {o} : subscription'[q] = subscription[q]
    BY <1>a, <2>1, <2>2, <2>3
  <2>5. e # None
    BY <1>a DEF Times
  <2> QED
    BY <1>1, <2>1, <2>2, <2>3, <2>4, <2>5 DEF ActiveWasPaid
<1>4. CASE UNCHANGED subscription
  BY <1>1, <1>4 DEF ActiveWasPaid
<1>5. \/ UNCHANGED subscription
      \/ \E o \in Orders : Subscribe(o)
      \/ \E d \in Deliveries : Capture(d) /\ delivery[d].status # "captured"
  BY DEF Next, Webhook, Refund, Tick, EditCoupon, Price, SubscribeFails, Attempt, WebhookFind,
         WebhookReadSubscription, Capture, Failure, WebhookFails, RefundLoad, RefundCall,
         RefundCommit, RefundFails, vars
<1> QED
  BY <1>2, <1>3, <1>4, <1>5

LEMMA StepCounted == ASSUME IInv, [Next]_vars PROVE ExtensionsCounted'
<1> DEFINE Done == {d \in Deliveries : delivery[d].step = "done"}
<1>a. /\ ExtensionsCounted /\ delivery \in [Deliveries -> DeliveryRow] /\ extensions \in [Orders -> Nat]
      /\ \A o \in Orders : extensions[o] <= Cardinality(Done)
  BY Rows DEF IInv, TypeOK, ExtensionsCounted
<1>b. /\ IsFiniteSet(Done) /\ IsFiniteSet(Done')
      /\ Cardinality(Done) \in Nat /\ Cardinality(Done') \in Nat
  BY PeriodAssumption, FS_Subset, FS_CardinalityType
<1>1. ASSUME Done \subseteq Done', UNCHANGED extensions PROVE ExtensionsCounted'
  <2>1. Cardinality(Done) <= Cardinality(Done')
    BY <1>b, <1>1, FS_Subset
  <2> QED
    BY <1>a, <1>b, <1>1, <2>1 DEF ExtensionsCounted
<1>2. ASSUME NEW d \in Deliveries, Capture(d), delivery[d].status # "captured" PROVE ExtensionsCounted'
  <2>1. /\ delivery[d].step = "commit" /\ delivery' = [delivery EXCEPT ![d] = [Idle EXCEPT !.step = "done"]]
        /\ \E o \in Orders : extensions' = [extensions EXCEPT ![o] = extensions[o] + 1]
    BY <1>2, CaptureExtends DEF Capture, DeliveryEnds
  <2>2. Done' = Done \cup {d} /\ d \notin Done
    BY <1>a, <2>1 DEF Idle
  <2>3. Cardinality(Done') = Cardinality(Done) + 1
    BY <1>b, <2>2, FS_AddElement
  <2> HIDE DEF Done
  <2>4. \A o \in Orders : extensions'[o] <= Cardinality(Done')
    BY <1>a, <1>b, <2>1, <2>3
  <2> QED
    BY <2>4 DEF ExtensionsCounted, Done
<1>3. ASSUME NEW d \in Deliveries, UNCHANGED extensions, delivery[d].step # "done",
             \A e \in Deliveries \ {d} : delivery'[e] = delivery[e]
      PROVE  ExtensionsCounted'
  BY <1>1, <1>3
<1>4. ASSUME NEW d \in Deliveries, Webhook(d), ~(Capture(d) /\ delivery[d].status # "captured")
      PROVE  ExtensionsCounted'
  <2>1. UNCHANGED extensions /\ delivery[d].step # "done"
    BY <1>4 DEF Webhook, WebhookFind, WebhookReadSubscription, Capture, Failure, WebhookFails, DeliveryEnds
  <2>2. \A e \in Deliveries \ {d} : delivery'[e] = delivery[e]
    BY <1>a, <1>4 DEF Webhook, WebhookFind, WebhookReadSubscription, Capture, Failure, WebhookFails, DeliveryEnds
  <2> QED
    BY <1>3, <2>1, <2>2
<1>5. CASE UNCHANGED <<delivery, extensions>>
  BY <1>1, <1>5
<1>6. UNCHANGED <<delivery, extensions>> \/ \E d \in Deliveries : Webhook(d)
  BY DEF Next, Refund, Tick, EditCoupon, Price, Subscribe, SubscribeFails, Attempt, RefundLoad,
         RefundCall, RefundCommit, RefundFails, vars
<1> QED
  BY <1>2, <1>4, <1>5, <1>6

\* The balance of one order.
BalancedAt(o) ==
  /\ \A q, r \in Unrecorded(o) : q = r
  /\ extensions[o] = refunded[o]
       + IF payment[o].status = "captured" /\ Unrecorded(o) = {} THEN 1 ELSE 0
  /\ payment[o].status # "captured" => Unrecorded(o) = {}

LEMMA StepBalanced == ASSUME IInv, [Next]_vars PROVE Balanced'
<1>a. /\ \A o \in Orders \ stale : BalancedAt(o)
      /\ payment \in [Orders -> PaymentRow] /\ refund \in [Refunds -> RefundRow]
      /\ extensions \in [Orders -> Nat] /\ refunded \in [Orders -> Nat] /\ RefundsKnow
      /\ None \notin Int \cup {"created", "active", "captured", "failed", "refunded"}
  BY Rows, PeriodAssumption DEF IInv, TypeOK, Balanced, BalancedAt
<1>1. ASSUME \A o \in Orders \ stale' : BalancedAt(o)' PROVE Balanced'
  BY <1>1 DEF Balanced, BalancedAt
\* An order that a step does not touch, or touches without moving its money.
<1>2. ASSUME NEW o \in Orders \ stale, Unrecorded(o)' = Unrecorded(o),
             UNCHANGED <<extensions[o], refunded[o]>>,
             (payment'[o].status = "captured") <=> (payment[o].status = "captured")
      PROVE  BalancedAt(o)'
  BY <1>a, <1>2 DEF BalancedAt
<1>3. ASSUME UNCHANGED <<extensions, refunded, refund>>, stale \subseteq stale',
             \A o \in Orders \ stale' :
               (payment'[o].status = "captured") <=> (payment[o].status = "captured")
      PROVE  Balanced'
  <2>1. \A o : Unrecorded(o)' = Unrecorded(o)
    BY <1>3 DEF Unrecorded
  <2> QED
    BY <1>1, <1>2, <1>3, <2>1
<1>4. ASSUME NEW o \in Orders, Subscribe(o) PROVE Balanced'
  <2>1. payment[o].status = None
    BY <1>4 DEF Subscribe, IInv, CheckoutFollows
  <2>2. /\ UNCHANGED <<extensions, refunded, refund, stale>> /\ payment'[o].status = "created"
        /\ \A e \in Orders \ {o} : payment'[e] = payment[e]
    BY <1>a, <1>4 DEF Subscribe, PaymentRow
  <2> QED
    BY <1>a, <1>3, <2>1, <2>2
<1>5. ASSUME NEW d \in Deliveries, Capture(d), delivery[d].status # "captured" PROVE Balanced'
  <2>0. PICK o \in Orders : o = delivery[d].order
    BY <1>5, CaptureExtends
  <2>1. /\ payment' = [payment EXCEPT ![o] = [status |-> "captured", paid |-> now]]
        /\ extensions' = [extensions EXCEPT ![o] = extensions[o] + 1]
    BY <1>5, <2>0, CaptureExtends
  <2>2. /\ UNCHANGED <<refunded, refund>>
        /\ stale' = IF payment[o].status = delivery[d].status THEN stale ELSE stale \cup {o}
    BY <1>5, <2>0 DEF Capture, NoteStale
  <2>3. o \notin stale' => payment[o].status # "captured"
    BY <1>5, <2>2
  <2>4. /\ payment'[o].status = "captured" /\ extensions'[o] = extensions[o] + 1 /\ extensions[o] \in Nat
        /\ \A e \in Orders \ {o} : payment'[e] = payment[e] /\ extensions'[e] = extensions[e]
    BY <1>a, <2>1
  <2>5. \A e : Unrecorded(e)' = Unrecorded(e)
    BY <2>2 DEF Unrecorded
  <2>6. ASSUME o \notin stale' PROVE BalancedAt(o)'
    <3>1. BalancedAt(o) /\ payment[o].status # "captured" /\ refunded[o] \in Nat
      BY <1>a, <2>1, <2>2, <2>3, <2>6
    <3>2. Unrecorded(o) = {} /\ extensions[o] = refunded[o]
      BY <3>1 DEF BalancedAt
    <3> QED
      BY <2>2, <2>4, <2>5, <3>1, <3>2 DEF BalancedAt
  <2>7. ASSUME NEW e \in Orders \ stale', e # o PROVE BalancedAt(e)'
    BY <1>2, <2>2, <2>4, <2>5, <2>7
  <2> QED
    BY <1>1, <2>6, <2>7
<1>6. ASSUME NEW d \in Deliveries, Failure(d) PROVE Balanced'
  <2> DEFINE o == delivery[d].order
  <2>1. /\ o \in Orders /\ UNCHANGED <<extensions, refunded, refund>>
        /\ \/ UNCHANGED <<payment, stale>>
           \/ /\ delivery[d].status # "captured"
              /\ payment' = [payment EXCEPT ![o].status = "failed"]
              /\ stale' = IF payment[o].status = delivery[d].status THEN stale ELSE stale \cup {o}
    BY <1>6 DEF Failure, DeliveryEnds, NoteStale, IInv, DeliveriesKnow
  <2> HIDE DEF o
  <2>2. CASE UNCHANGED <<payment, stale>>
    BY <1>3, <2>1, <2>2
  <2>3. CASE ~UNCHANGED <<payment, stale>>
    <3>1. /\ payment'[o].status = "failed" /\ (o \notin stale' => payment[o].status # "captured")
          /\ \A e \in Orders \ {o} : payment'[e] = payment[e]
          /\ stale \subseteq stale'
      BY <1>a, <2>1, <2>3 DEF PaymentRow
    <3> QED
      BY <1>3, <2>1, <3>1
  <2> QED
    BY <2>2, <2>3
<1>7. ASSUME NEW r \in Refunds, NEW o \in Orders, RefundLoad(r, o) PROVE Balanced'
  <2>1. /\ UNCHANGED <<payment, extensions, refunded, stale>>
        /\ refund[r].step = "idle" /\ refund'[r].step \in {"call", "failed"}
        /\ \A q \in Refunds \ {r} : refund'[q] = refund[q]
    BY <1>a, <1>7 DEF RefundLoad
  <2>2. \A e : Unrecorded(e)' = Unrecorded(e)
    BY <2>1 DEF Unrecorded
  <2> QED
    BY <1>1, <1>2, <2>1, <2>2
<1>8. ASSUME NEW r \in Refunds, RefundCall(r) PROVE Balanced'
  <2>0. PICK o \in Orders : o = refund[r].order
    BY <1>a, <1>8 DEF RefundCall, RefundsKnow
  <2>1. /\ UNCHANGED <<payment, extensions>> /\ refund[r].status = "captured"
        /\ refund[r].step = "call" /\ refund' = [refund EXCEPT ![r].step = "commit"]
        /\ refunded' = [refunded EXCEPT ![o] = refunded[o] + 1]
        /\ stale \subseteq stale'
        /\ o \notin stale' => Unrecorded(o) = {} /\ payment[o].status = "captured"
    BY <1>a, <1>8, <2>0 DEF RefundCall, NoteStale, Unrecorded, RefundsKnow
  <2>2. /\ refund'[r].step = "commit" /\ refund'[r].order = o
        /\ \A q \in Refunds \ {r} : refund'[q] = refund[q]
        /\ refunded'[o] = refunded[o] + 1 /\ \A e \in Orders \ {o} : refunded'[e] = refunded[e]
    BY <1>a, <2>0, <2>1 DEF RefundRow
  <2>3. Unrecorded(o)' = Unrecorded(o) \cup {r} /\ \A e \in Orders \ {o} : Unrecorded(e)' = Unrecorded(e)
    BY <2>0, <2>1, <2>2 DEF Unrecorded
  <2>4. ASSUME o \notin stale' PROVE BalancedAt(o)'
    <3>1. /\ BalancedAt(o) /\ Unrecorded(o)' = {r} /\ Unrecorded(o) = {}
          /\ payment[o].status = "captured" /\ extensions[o] \in Nat /\ refunded[o] \in Nat
      BY <1>a, <2>1, <2>3, <2>4
    <3>2. extensions[o] = refunded[o] + 1
      BY <3>1 DEF BalancedAt
    <3> QED
      BY <2>1, <2>2, <3>1, <3>2 DEF BalancedAt
  <2>5. ASSUME NEW e \in Orders \ stale', e # o PROVE BalancedAt(e)'
    BY <1>2, <2>1, <2>2, <2>3, <2>5
  <2> QED
    BY <1>1, <2>4, <2>5
<1>9. ASSUME NEW r \in Refunds, RefundCommit(r) PROVE Balanced'
  <2>0. PICK o \in Orders : o = refund[r].order
    BY <1>a, <1>9 DEF RefundCommit, RefundsKnow
  <2>1. /\ UNCHANGED <<refunded, extensions>> /\ refund[r].status = "captured"
        /\ refund[r].step = "commit" /\ refund' = [refund EXCEPT ![r].step = "done"]
        /\ payment' = [payment EXCEPT ![o].status = "refunded"]
        /\ stale \subseteq stale'
        /\ o \notin stale' => payment[o].status = "captured"
    BY <1>a, <1>9, <2>0 DEF RefundCommit, NoteStale, RefundsKnow
  <2>2. /\ refund'[r].step = "done" /\ \A q \in Refunds \ {r} : refund'[q] = refund[q]
        /\ payment'[o].status = "refunded" /\ \A e \in Orders \ {o} : payment'[e] = payment[e]
    BY <1>a, <2>1 DEF RefundRow, PaymentRow
  <2>3. /\ r \in Unrecorded(o) /\ Unrecorded(o)' = Unrecorded(o) \ {r}
        /\ \A e \in Orders \ {o} : Unrecorded(e)' = Unrecorded(e)
    BY <2>0, <2>1, <2>2 DEF Unrecorded
  <2>4. ASSUME o \notin stale' PROVE BalancedAt(o)'
    <3>1. BalancedAt(o) /\ extensions[o] \in Nat /\ refunded[o] \in Nat
      BY <1>a, <2>1, <2>4
    <3>2. Unrecorded(o)' = {} /\ extensions[o] = refunded[o]
      BY <2>3, <3>1 DEF BalancedAt
    <3> QED
      BY <2>1, <2>2, <3>1, <3>2 DEF BalancedAt
  <2>5. ASSUME NEW e \in Orders \ stale', e # o PROVE BalancedAt(e)'
    BY <1>2, <2>1, <2>2, <2>3, <2>5
  <2> QED
    BY <1>1, <2>4, <2>5
<1>10. ASSUME NEW r \in Refunds, RefundFails(r) PROVE Balanced'
  <2> DEFINE o == refund[r].order
  <2>1. /\ UNCHANGED <<payment, refunded, extensions>>
        /\ refund'[r].step = "failed" /\ \A q \in Refunds \ {r} : refund'[q] = refund[q]
        /\ stale \subseteq stale' /\ (o \notin stale' => refund[r].step # "commit")
    BY <1>a, <1>10 DEF RefundFails, RefundRow
  <2>2. \A e \in Orders \ stale' : Unrecorded(e)' = Unrecorded(e)
    BY <2>1 DEF Unrecorded
  <2> QED
    BY <1>1, <1>2, <2>1, <2>2
<1>11. CASE UNCHANGED <<payment, extensions, refunded, refund, stale>>
  BY <1>3, <1>11
<1>12. \/ UNCHANGED <<payment, extensions, refunded, refund, stale>>
       \/ \E o \in Orders : Subscribe(o)
       \/ \E d \in Deliveries : Failure(d) \/ (Capture(d) /\ delivery[d].status # "captured")
       \/ \E r \in Refunds : \/ \E o \in Orders : RefundLoad(r, o)
                             \/ RefundCall(r) \/ RefundCommit(r) \/ RefundFails(r)
  <2>1. CASE UNCHANGED vars \/ Tick \/ EditCoupon
    BY <2>1 DEF vars, Tick, EditCoupon
  <2>2. ASSUME NEW o \in Orders,
               \/ \E offer \in Offers, withCoupon \in BOOLEAN : Price(o, offer, withCoupon)
               \/ SubscribeFails(o) \/ \E event \in Events : Attempt(o, event)
        PROVE  UNCHANGED <<payment, extensions, refunded, refund, stale>>
    BY <2>2 DEF Price, SubscribeFails, Attempt
  <2>3. ASSUME NEW d \in Deliveries, Webhook(d)
        PROVE  \/ UNCHANGED <<payment, extensions, refunded, refund, stale>>
               \/ Failure(d) \/ (Capture(d) /\ delivery[d].status # "captured")
    BY <2>3 DEF Webhook, WebhookFind, WebhookReadSubscription, Capture, WebhookFails
  <2>4. ASSUME NEW r \in Refunds, Refund(r)
        PROVE  \/ \E o \in Orders : RefundLoad(r, o)
               \/ RefundCall(r) \/ RefundCommit(r) \/ RefundFails(r)
    BY <2>4 DEF Refund
  <2> QED
    BY <2>1, <2>2, <2>3, <2>4 DEF Next
<1> QED
  BY <1>4, <1>5, <1>6, <1>7, <1>8, <1>9, <1>10, <1>11, <1>12

LEMMA InitIInv == Init => IInv
<1> SUFFICES ASSUME Init PROVE IInv
  OBVIOUS
<1> USE PeriodAssumption DEF Init
<1>1. TypeOK
  BY DEF TypeOK, Idle, PaymentStatuses
<1>2. CheckoutFollows /\ DeliveriesKnow /\ RefundsKnow /\ ActiveWasPaid
  BY DEF CheckoutFollows, DeliveriesKnow, RefundsKnow, ActiveWasPaid, Idle
<1>3. ExtensionsCounted
  BY DeliveriesCounted DEF ExtensionsCounted
<1>4. Balanced
  <2>1. \A o : Unrecorded(o) = {}
    BY DEF Unrecorded
  <2> QED
    BY <2>1 DEF Balanced
<1> QED
  BY <1>1, <1>2, <1>3, <1>4 DEF IInv

LEMMA Invariance == Spec => []IInv
<1>1. IInv /\ [Next]_vars => IInv'
  BY StepTyped, StepCheckout, StepDeliveries, StepRefunds, StepActive, StepCounted, StepBalanced DEF IInv
<1> QED
  BY InitIInv, <1>1, PTL DEF Spec

\* Rows keep their types, an order never costs nothing nor more than its quote, access
\* was paid for, and the money of a capture goes back once: unless, for the last, a
\* request acted on an outdated payment (process_webhook_event, refund, subscribe).
THEOREM MoneyMatches == Spec => []MoneyMatchesAccess
<1>1. IInv => MoneyMatchesAccess
  <2> SUFFICES ASSUME IInv PROVE MoneyMatchesAccess
    OBVIOUS
  <2>1. ChargedWithinQuote
    <3>1. \A o \in Orders : checkout[o].gross \in Nat
      BY DEF IInv, TypeOK
    <3> QED
      BY <3>1 DEF IInv, CheckoutFollows, ChargedWithinQuote
  <2>2. ASSUME NEW o \in Orders, o \notin stale PROVE refunded[o] <= extensions[o]
    <3>1. extensions[o] \in {refunded[o], refunded[o] + 1} /\ refunded[o] \in Nat
      BY <2>2 DEF IInv, TypeOK, Balanced
    <3> QED
      BY <3>1
  <2> QED
    BY <2>1, <2>2 DEF IInv, RefundedOnce, MoneyMatchesAccess
<1> QED
  BY <1>1, Invariance, PTL

\* However often and late a capture is redelivered, it extends the period once, and
\* once more for each refund made (_handle_capture), unless a request acted on an
\* outdated payment.
THEOREM RedeliveryExtendsOnce == Spec => []DuplicatesExtendOnce
<1>1. IInv => DuplicatesExtendOnce
  <2> SUFFICES ASSUME IInv, NEW o \in Orders, o \notin stale PROVE extensions[o] <= refunded[o] + 1
    BY DEF DuplicatesExtendOnce
  <2>1. extensions[o] \in {refunded[o], refunded[o] + 1} /\ refunded[o] \in Nat
    BY DEF IInv, TypeOK, Balanced
  <2> QED
    BY <2>1
<1> QED
  BY <1>1, Invariance, PTL

\* A failure event does not undo a capture that its request could have seen
\* (_handle_failure).
THEOREM StrayFailuresIgnored == Spec => CaptureSurvivesFailure
<1>1. IInv /\ [Next]_vars =>
        [\A o \in Orders :
           payment[o].status = "captured" /\ payment'[o].status = "failed" => o \in stale']_vars
  <2> SUFFICES ASSUME IInv, [Next]_vars, NEW o \in Orders,
                      payment[o].status = "captured", payment'[o].status = "failed"
               PROVE  o \in stale'
    OBVIOUS
  <2>a. payment \in [Orders -> PaymentRow]
    BY Rows DEF IInv
  <2>1. ASSUME NEW d \in Deliveries, Failure(d) PROVE o \in stale'
    <3> DEFINE e == delivery[d].order
    <3>1. /\ payment' # payment
          /\ payment' = [payment EXCEPT ![e].status = "failed"]
          /\ delivery[d].status # "captured"
          /\ stale' = IF payment[e].status = delivery[d].status THEN stale ELSE stale \cup {e}
      BY <2>1 DEF Failure, NoteStale
    <3>2. o = e
      BY <2>a, <3>1
    <3> QED
      BY <3>1, <3>2
  <2>2. ASSUME NEW e, NEW s \in {"created", "refunded"}, payment' = [payment EXCEPT ![e].status = s]
        PROVE  FALSE
    <3>1. payment'[o].status \in {s, "captured"}
      BY <2>a, <2>2 DEF PaymentRow
    <3> QED
      BY <3>1
  <2>3. ASSUME NEW d \in Deliveries, Capture(d) PROVE FALSE
    BY <2>a, <2>3 DEF Capture
  <2>4. payment' # payment
    OBVIOUS
  <2>5. \/ \E d \in Deliveries : Failure(d) \/ Capture(d)
        \/ \E e \in Orders : payment' = [payment EXCEPT ![e].status = "created"]
        \/ \E r \in Refunds : payment' = [payment EXCEPT ![refund[r].order].status = "refunded"]
    BY <2>4 DEF Next, Webhook, Refund, Tick, EditCoupon, Price, Subscribe, SubscribeFails,
       Attempt, WebhookFind, WebhookReadSubscription, WebhookFails, RefundLoad, RefundCall,
       RefundCommit, RefundFails, vars
  <2> QED
    BY <2>1, <2>2, <2>3, <2>5
<1> QED
  BY <1>1, Invariance, PTL DEF Spec, CaptureSurvivesFailure

-----------------------------------------------------------------------------
(* Expiry reminders.                                                      *)

Mails == Seq([at : Instants, end : Instants])

(* A period for each renewal.                                              *)
EndsBounded ==
  \A s \in Subscriptions : periodEnd[s] # NoEnd => periodEnd[s] <= LastInstant + renewals[s] * BillingPeriod

(* The guard covers every mail.                                            *)
Guarded ==
  \A s \in Subscriptions, t \in Buckets : <<s, t>> \notin unguarded =>
    \A i \in DOMAIN mailed[s][t] : mailed[s][t][i].at + GuardTTL <= guard[s][t]

RemindersInv == EndsBounded /\ Guarded /\ RemindersAreSpaced

-------------------------------------------------------------------------------
LEMMA ReminderNumbers ==
    /\ BillingPeriod \in Nat /\ GuardTTL \in Nat /\ LastInstant \in Nat /\ MaxRenewals \in Nat
    /\ MaxFaults \in Nat /\ NoEnd \notin Int /\ Buckets \subseteq Nat
  BY ReminderAssumption DEF Buckets

\* Renewals add a period each, and never exceed the last one.
LEMMA Renewed ==
    ASSUME NEW r \in Nat, r < MaxRenewals
    PROVE  /\ r * BillingPeriod \in Nat /\ MaxRenewals * BillingPeriod \in Nat
           /\ (r + 1) * BillingPeriod = r * BillingPeriod + BillingPeriod
           /\ (r + 1) * BillingPeriod <= MaxRenewals * BillingPeriod
<1>1. \A p \in Nat : r * p \in Nat /\ MaxRenewals * p \in Nat /\ (r + 1) * p = r * p + p
  BY ReminderNumbers
<1>2. \A p, k \in Nat : k * p \in Nat /\ (r + 1 + k) * p = (r + 1) * p + k * p
  OBVIOUS
<1>3. PICK k \in Nat : MaxRenewals = r + 1 + k
  <2>1. MaxRenewals - (r + 1) \in Nat /\ MaxRenewals = r + 1 + (MaxRenewals - (r + 1))
    BY ReminderNumbers
  <2> QED
    BY <2>1
<1>4. MaxRenewals * BillingPeriod = (r + 1) * BillingPeriod + k * BillingPeriod /\ k * BillingPeriod \in Nat
  BY <1>2, <1>3, ReminderNumbers
<1> QED
  BY <1>1, <1>4, ReminderNumbers

LEMMA InitReminders == RemindersInit => RemindersInv
<1> SUFFICES ASSUME RemindersInit PROVE RemindersInv
  OBVIOUS
<1> USE ReminderNumbers DEF RemindersInit
<1>1. RemindersTypeOK
  <2>2. << >> \in Mails
    BY DEF Mails
  <2>3. mailed \in [Subscriptions -> [Buckets -> Mails]]
    BY <2>2
  <2> QED
    BY <2>3 DEF RemindersTypeOK, Mails
<1>2. EndsBounded /\ Guarded
  BY DEF EndsBounded, Guarded
<1>3. RemindersAreSpaced
  BY <1>1 DEF RemindersAreSpaced
<1> QED
  BY <1>2, <1>3 DEF RemindersInv

LEMMA ReminderBasics ==
    ASSUME RemindersInv
    PROVE  /\ RemindersTypeOK /\ clock \in Nat /\ clock <= LastInstant /\ clock \in Instants
           /\ clock + GuardTTL \in Nat /\ faults \in 0..MaxFaults
<1>1. RemindersTypeOK
  BY DEF RemindersInv, RemindersAreSpaced
<1>2. clock \in 0..LastInstant /\ faults \in 0..MaxFaults
  BY <1>1 DEF RemindersTypeOK
<1>3. MaxRenewals * BillingPeriod \in Nat
  BY ReminderNumbers
<1> QED
  BY <1>1, <1>2, <1>3, ReminderNumbers DEF Instants

\* What a step keeps that touches no guard and no mail.
LEMMA MailsKept ==
    ASSUME RemindersInv, UNCHANGED <<guard, mailed, unguarded>>, RemindersTypeOK', EndsBounded'
    PROVE  RemindersInv'
  BY DEF RemindersInv, Guarded, RemindersAreSpaced

LEMMA StepTick == RemindersInv /\ ClockTicks => RemindersInv'
<1> SUFFICES ASSUME RemindersInv, ClockTicks PROVE RemindersInv'
  OBVIOUS
<1>1. /\ RemindersTypeOK /\ clock \in Nat /\ clock' = clock + 1 /\ clock < LastInstant
      /\ UNCHANGED <<periodEnd, renewals, pending, sweptAt, guard, mailed, unguarded, faults>>
  BY ReminderBasics DEF ClockTicks
<1>2. /\ 0..(clock + GuardTTL) \subseteq 0..(clock' + GuardTTL) /\ -1..clock \subseteq -1..clock'
      /\ clock' \in 0..LastInstant
  BY <1>1, ReminderNumbers
<1>3. guard \in [Subscriptions -> [Buckets -> 0..(clock' + GuardTTL)]]
  BY <1>1, <1>2 DEF RemindersTypeOK
<1>4. sweptAt' \in -1..clock'
  BY <1>1, <1>2 DEF RemindersTypeOK
<1>5. RemindersTypeOK'
  BY <1>1, <1>2, <1>3, <1>4 DEF RemindersTypeOK
<1> QED
  BY <1>1, <1>5, MailsKept DEF RemindersInv, EndsBounded

LEMMA StepCaptured ==
    ASSUME RemindersInv, NEW s \in Subscriptions, Captured(s)
    PROVE  RemindersInv'
<1> DEFINE r == renewals[s]
           from == IF periodEnd[s] # NoEnd /\ periodEnd[s] > clock THEN periodEnd[s] ELSE clock
<1>1. /\ RemindersTypeOK /\ r \in Nat /\ r < MaxRenewals /\ clock \in Nat /\ clock <= LastInstant
      /\ renewals' = [renewals EXCEPT ![s] = r + 1] /\ periodEnd' = [periodEnd EXCEPT ![s] = BillingPeriod + from]
      /\ UNCHANGED <<clock, pending, sweptAt, guard, mailed, unguarded, faults>>
  <2>1. RemindersTypeOK /\ clock \in Nat /\ clock <= LastInstant
    BY ReminderBasics
  <2>2. r \in Nat
    BY <2>1, ReminderNumbers DEF RemindersTypeOK
  <2> QED
    BY <2>1, <2>2 DEF Captured
<1>2. /\ renewals'[s] = r + 1 /\ renewals' \in [Subscriptions -> 0..MaxRenewals]
      /\ \A u \in Subscriptions \ {s} : renewals'[u] = renewals[u] /\ periodEnd'[u] = periodEnd[u]
      /\ periodEnd'[s] = BillingPeriod + from
  BY <1>1, ReminderNumbers DEF RemindersTypeOK
<1>3. periodEnd[s] = NoEnd \/ (periodEnd[s] \in Nat /\ periodEnd[s] <= LastInstant + r * BillingPeriod)
  BY <1>1, ReminderNumbers DEF RemindersTypeOK, Instants, RemindersInv, EndsBounded
<1>4. /\ r * BillingPeriod \in Nat /\ (r + 1) * BillingPeriod = r * BillingPeriod + BillingPeriod
      /\ (r + 1) * BillingPeriod <= MaxRenewals * BillingPeriod /\ MaxRenewals * BillingPeriod \in Nat
  BY <1>1, Renewed
<1>5. from \in Nat /\ from <= LastInstant + r * BillingPeriod
  BY <1>1, <1>3, <1>4, ReminderNumbers
<1> HIDE DEF r, from
<1>6. periodEnd'[s] \in Nat /\ periodEnd'[s] <= LastInstant + (r + 1) * BillingPeriod /\ periodEnd'[s] \in Instants
  BY <1>2, <1>4, <1>5, ReminderNumbers DEF Instants
<1>7. periodEnd' \in [Subscriptions -> Instants \cup {NoEnd}]
  BY <1>1, <1>2, <1>6 DEF RemindersTypeOK
<1>8. RemindersTypeOK'
  BY <1>1, <1>2, <1>7 DEF RemindersTypeOK
<1>9. EndsBounded'
  BY <1>2, <1>6 DEF RemindersInv, EndsBounded
<1> QED
  BY <1>1, <1>8, <1>9, MailsKept

LEMMA StepSweep == RemindersInv /\ SweepStart => RemindersInv'
<1> SUFFICES ASSUME RemindersInv, SweepStart PROVE RemindersInv'
  OBVIOUS
<1>1. /\ RemindersTypeOK /\ clock \in Nat /\ sweptAt' = clock
      /\ UNCHANGED <<clock, periodEnd, renewals, guard, mailed, unguarded>>
  BY ReminderBasics DEF SweepStart
<1>2. faults' \in 0..MaxFaults
  BY <1>1, ReminderNumbers DEF SweepStart, Fault, RemindersTypeOK
<1>3. pending' \subseteq Subscriptions \X Buckets \X Instants
  BY <1>1 DEF SweepStart, RemindersTypeOK
<1>4. sweptAt' \in -1..clock'
  BY <1>1
<1>5. RemindersTypeOK'
  BY <1>1, <1>2, <1>3, <1>4 DEF RemindersTypeOK
<1> QED
  BY <1>1, <1>5, MailsKept DEF RemindersInv, EndsBounded

LEMMA StepRestart == RemindersInv /\ Restart => RemindersInv'
<1> SUFFICES ASSUME RemindersInv, Restart PROVE RemindersInv'
  OBVIOUS
<1>0. -1 \in -1..clock /\ faults' \in 0..MaxFaults
  BY ReminderBasics, ReminderNumbers DEF Restart, Fault
<1>1. RemindersTypeOK'
  BY <1>0, ReminderBasics DEF RemindersTypeOK, Restart
<1> QED
  BY <1>1, MailsKept DEF RemindersInv, EndsBounded, Restart

-------------------------------------------------------------------------------
(* The guard.                                                              *)

LEMMA ElementTyped ==
    ASSUME NEW S, NEW log \in Seq(S)
    PROVE  /\ Len(log) \in Nat /\ DOMAIN log = 1..Len(log)
           /\ \A i \in DOMAIN log : log[i] \in S
  OBVIOUS

\* One more mail, a TTL after all the others and covered by the new guard.
LEMMA OneMore ==
    ASSUME NEW log \in Mails, NEW covers \in Nat, NEW at \in Instants, NEW e \in Instants,
           at \in Nat, covers <= at,
           \A i \in DOMAIN log : log[i].at + GuardTTL <= covers,
           \A i, j \in DOMAIN log : i < j => log[j].at - log[i].at >= GuardTTL
    PROVE  LET more == Append(log, [at |-> at, end |-> e])
           IN  /\ \A i \in DOMAIN more : more[i].at + GuardTTL <= at + GuardTTL
               /\ \A i, j \in DOMAIN more : i < j => more[j].at - more[i].at >= GuardTTL
<1> DEFINE entry == [at |-> at, end |-> e]
           more == Append(log, entry)
           n == Len(log)
<1>1. /\ n \in Nat /\ DOMAIN log = 1..n /\ DOMAIN more = 1..(n + 1)
      /\ more[n + 1] = entry /\ \A i \in 1..n : more[i] = log[i]
      /\ \A i \in 1..n : log[i] \in [at : Instants, end : Instants]
  <2>1. entry \in [at : Instants, end : Instants] /\ log \in Seq([at : Instants, end : Instants])
    BY DEF Mails
  <2> HIDE DEF entry
  <2>2. n \in Nat /\ DOMAIN log = 1..n /\ \A i \in 1..n : log[i] \in [at : Instants, end : Instants]
    BY <2>1, ElementTyped
  <2>3. DOMAIN more = 1..(n + 1) /\ more[n + 1] = entry /\ \A i \in 1..n : more[i] = log[i]
    BY <2>1
  <2> QED
    BY <2>2, <2>3
<1>2. Instants \subseteq Int /\ GuardTTL \in Nat
  BY ReminderNumbers DEF Instants
<1>3. more[n + 1].at = at
  BY <1>1
<1> HIDE DEF entry, more, n
<1>4. \A i \in 1..n : more[i].at \in Int /\ more[i].at + GuardTTL <= covers
  BY <1>1, <1>2
<1>5. \A i \in DOMAIN more : i \in 1..n \/ i = n + 1
  BY <1>1
<1>6. \A i \in DOMAIN more : more[i].at + GuardTTL <= at + GuardTTL
  BY <1>2, <1>3, <1>4, <1>5
<1>7. ASSUME NEW i \in DOMAIN more, NEW j \in DOMAIN more, i < j
      PROVE  more[j].at - more[i].at >= GuardTTL
  <2>1. i \in 1..n
    BY <1>1, <1>7
  <2>2. CASE j = n + 1
    BY <1>2, <1>3, <1>4, <2>1, <2>2
  <2>3. CASE j \in 1..n
    BY <1>1, <1>7, <2>1, <2>3
  <2> QED
    BY <1>5, <2>2, <2>3
<1> QED
  BY <1>6, <1>7 DEF more, entry

LEMMA StepRemind ==
    ASSUME RemindersInv, NEW s \in Subscriptions, NEW t \in Buckets, NEW e \in Instants, Remind(s, t, e)
    PROVE  RemindersInv'
<1> DEFINE log == mailed[s][t]
           more == Append(log, [at |-> clock, end |-> e])
<1>1. /\ RemindersTypeOK /\ clock \in Nat /\ clock \in Instants /\ GuardTTL \in Nat
      /\ UNCHANGED <<clock, periodEnd, renewals, sweptAt>> /\ pending' \subseteq pending
      /\ log \in Mails /\ guard[s][t] \in 0..(clock + GuardTTL)
  <2>1. log \in Mails /\ guard[s][t] \in 0..(clock + GuardTTL)
    BY ReminderBasics DEF RemindersTypeOK, Mails
  <2>2. UNCHANGED <<clock, periodEnd, renewals, sweptAt>> /\ pending' \subseteq pending
    BY DEF Remind
  <2> QED
    BY <2>1, <2>2, ReminderBasics, ReminderNumbers
<1>2. faults' \in 0..MaxFaults /\ unguarded' \subseteq Subscriptions \X Buckets
  <2>1. faults \in 0..MaxFaults /\ unguarded \subseteq Subscriptions \X Buckets
    BY <1>1 DEF RemindersTypeOK
  <2>2. UNCHANGED faults \/ Fault
    BY DEF Remind
  <2>3. faults' \in 0..MaxFaults
    BY <2>1, <2>2, ReminderNumbers DEF Fault
  <2>4. UNCHANGED unguarded \/ unguarded' = unguarded \cup {<<s, t>>}
    BY DEF Remind
  <2> QED
    BY <2>1, <2>3, <2>4
<1>3. /\ guard' = guard \/ (guard' = [guard EXCEPT ![s][t] = clock + GuardTTL] /\ guard[s][t] <= clock)
      /\ mailed' = mailed \/ mailed' = [mailed EXCEPT ![s][t] = more]
      /\ unguarded \subseteq unguarded'
  BY <1>1, ReminderNumbers DEF Remind, Mail
<1>4. more \in Mails
  <2>1. [at |-> clock, end |-> e] \in [at : Instants, end : Instants]
    BY <1>1
  <2> QED
    BY <1>1, <2>1 DEF Mails
<1>5. /\ mailed' \in [Subscriptions -> [Buckets -> Mails]]
      /\ guard' \in [Subscriptions -> [Buckets -> 0..(clock + GuardTTL)]]
  <2>1. mailed \in [Subscriptions -> [Buckets -> Mails]]
    BY <1>1 DEF RemindersTypeOK, Mails
  <2>2. clock + GuardTTL \in 0..(clock + GuardTTL)
    BY <1>1
  <2>3. guard \in [Subscriptions -> [Buckets -> 0..(clock + GuardTTL)]]
    BY <1>1 DEF RemindersTypeOK
  <2> HIDE DEF more
  <2>4. mailed' \in [Subscriptions -> [Buckets -> Mails]]
    BY <1>3, <1>4, <2>1
  <2>5. guard' \in [Subscriptions -> [Buckets -> 0..(clock + GuardTTL)]]
    BY <1>3, <2>2, <2>3
  <2> QED
    BY <2>4, <2>5
<1>6. RemindersTypeOK'
  BY <1>1, <1>2, <1>5 DEF RemindersTypeOK, Mails
<1>7. \A u \in Subscriptions, v \in Buckets : <<u, v>> # <<s, t>> =>
        mailed'[u][v] = mailed[u][v] /\ guard'[u][v] = guard[u][v]
  <2> HIDE DEF more
  <2> QED
    BY <1>1, <1>3 DEF RemindersTypeOK
<1>8. ASSUME <<s, t>> \notin unguarded'
      PROVE  /\ \A i \in DOMAIN mailed'[s][t] : mailed'[s][t][i].at + GuardTTL <= guard'[s][t]
             /\ \A i, j \in DOMAIN mailed'[s][t] : i < j =>
                  mailed'[s][t][j].at - mailed'[s][t][i].at >= GuardTTL
  <2>1. /\ \A i \in DOMAIN log : log[i].at + GuardTTL <= guard[s][t]
        /\ \A i, j \in DOMAIN log : i < j => log[j].at - log[i].at >= GuardTTL
    BY <1>3, <1>8 DEF RemindersInv, Guarded, RemindersAreSpaced
  <2>2. CASE UNCHANGED mailed /\ guard' = guard
    BY <2>1, <2>2
  <2>3. CASE UNCHANGED mailed /\ guard' = [guard EXCEPT ![s][t] = clock + GuardTTL] /\ guard[s][t] <= clock
    <3>1. guard'[s][t] = clock + GuardTTL /\ mailed'[s][t] = log
      BY <1>1, <2>3 DEF RemindersTypeOK
    <3>2. \A i \in DOMAIN log : log[i].at \in Int
      <4>1. \A i \in DOMAIN log : log[i] \in [at : Instants, end : Instants]
        BY <1>1, ElementTyped DEF Mails
      <4> QED
        BY <4>1 DEF Instants
    <3> HIDE DEF log
    <3>3. \A i \in DOMAIN log : log[i].at + GuardTTL <= clock + GuardTTL
      BY <1>1, <2>1, <2>3, <3>2
    <3> QED
      BY <2>1, <3>1, <3>3
  <2>4. CASE /\ mailed' = [mailed EXCEPT ![s][t] = more] /\ guard[s][t] <= clock
             /\ guard' = [guard EXCEPT ![s][t] = clock + GuardTTL]
    <3>1. guard'[s][t] = clock + GuardTTL /\ mailed'[s][t] = more
      BY <1>1, <2>4 DEF RemindersTypeOK
    <3>2. guard[s][t] \in Nat
      BY <1>1
    <3>3. /\ \A i \in DOMAIN more : more[i].at + GuardTTL <= clock + GuardTTL
          /\ \A i, j \in DOMAIN more : i < j => more[j].at - more[i].at >= GuardTTL
      <4> HIDE DEF log
      <4> QED
        BY <1>1, <2>1, <2>4, <3>2, OneMore
    <3> QED
      BY <3>1, <3>3
  <2> QED
    BY <1>1, <1>8, <2>2, <2>3, <2>4 DEF Remind, Mail
<1>9. Guarded' /\ RemindersAreSpaced'
  <2>1. ASSUME NEW u \in Subscriptions, NEW v \in Buckets, <<u, v>> \notin unguarded'
        PROVE  /\ \A i \in DOMAIN mailed'[u][v] : mailed'[u][v][i].at + GuardTTL <= guard'[u][v]
               /\ \A i, j \in DOMAIN mailed'[u][v] : i < j =>
                    mailed'[u][v][j].at - mailed'[u][v][i].at >= GuardTTL
    <3>1. CASE <<u, v>> = <<s, t>>
      BY <1>8, <2>1, <3>1
    <3>2. CASE <<u, v>> # <<s, t>>
      <4>1. <<u, v>> \notin unguarded
        BY <1>3, <2>1
      <4> QED
        BY <1>7, <3>2, <4>1 DEF RemindersInv, Guarded, RemindersAreSpaced
    <3> QED
      BY <3>1, <3>2
  <2> QED
    BY <1>6, <2>1 DEF Guarded, RemindersAreSpaced
<1> QED
  BY <1>1, <1>9 DEF RemindersInv, EndsBounded

-------------------------------------------------------------------------------
LEMMA StepReminders == RemindersInv /\ [RemindersNext]_reminderVars => RemindersInv'
<1> SUFFICES ASSUME RemindersInv, [RemindersNext]_reminderVars PROVE RemindersInv'
  OBVIOUS
<1>1. CASE UNCHANGED reminderVars
  <2>1. RemindersTypeOK'
    BY <1>1 DEF RemindersInv, RemindersAreSpaced, RemindersTypeOK, reminderVars
  <2> QED
    BY <1>1, <2>1, MailsKept DEF RemindersInv, EndsBounded, reminderVars
<1> QED
  BY <1>1, StepTick, StepCaptured, StepSweep, StepRemind, StepRestart DEF RemindersNext, Worker, Reminding

\* Two mails of one reminder are at least the TTL of its guard apart unless Redis
\* failed (_already_sent, sweep).
THEOREM RemindersSpaced == RemindersSpec => []RemindersAreSpaced
<1>1. RemindersInit => RemindersInv
  BY InitReminders
<1>2. RemindersInv /\ [RemindersNext]_reminderVars => RemindersInv'
  BY StepReminders
<1>3. RemindersInv => RemindersAreSpaced
  BY DEF RemindersInv
<1> QED
  BY <1>1, <1>2, <1>3, PTL DEF RemindersSpec
=============================================================================
