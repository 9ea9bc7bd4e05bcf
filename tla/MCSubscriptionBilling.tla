--------------------------- MODULE MCSubscriptionBilling ---------------------------
(* Two webhook requests and two refund requests for one order, and a third webhook. *)
EXTENDS SubscriptionBilling, TLC

\* Eleven devices a month are 869 rupees: half of them is not a whole number, and 900
\* off, or 900 percent, leaves nothing to pay.  One row is switched off, one used up.
MCOffers == {<<11, "monthly">>}
MCCouponStock ==
    {c \in CouponRows({50, 900}, {None, 0}, {1}) :
        (c.type = "percent" /\ c.value = 50) \/ (c.active /\ c.cap = None)}

\* The requests are interchangeable, and no liveness is checked.
Symmetry == Permutations(Deliveries) \cup Permutations(Refunds)
====================================================================================
