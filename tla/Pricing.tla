------------------------------- MODULE Pricing -------------------------------
(***************************************************************************)
(* What a Pro order costs: the volume tiers                                *)
(* (src/app/services/billing_service.py), the coupons an administrator     *)
(* keeps (src/app/services/admin_content_service.py) and the discount of   *)
(* subscribe (src/app/services/subscription_service.py).  Whole rupees;    *)
(* the value of a coupon is taken as a whole number too.                   *)
(***************************************************************************)
EXTENDS Integers

Cycles == {"monthly", "yearly"}
DiscountTypes == {"percent", "fixed"}
AnnualUnitPrice == 948

(* PRICING_TIERS; the last tier, whose max_devices is None, is open-ended.  *)
PricingTiers == <<[min |->   1, max |->  10, price |-> 99],
                  [min |->  11, max |->  50, price |-> 79],
                  [min |->  51, max |-> 200, price |-> 69],
                  [min |-> 201,              price |-> 59]>>

Within(tier, devices) == "max" \in DOMAIN tier => devices <= tier.max

(* unit_price_monthly walks the tiers and returns the first that fits.     *)
FirstFit(devices) ==
    CHOOSE i \in DOMAIN PricingTiers :
        /\ Within(PricingTiers[i], devices)
        /\ \A j \in DOMAIN PricingTiers : j < i => ~Within(PricingTiers[j], devices)

UnitPriceMonthly(devices) == PricingTiers[FirstFit(devices)].price

(* The row QuoteCalculator highlights: the displayed range holds the count *)
(* and the displayed rate is the one charged.                              *)
Highlighted(i, devices) ==
    /\ UnitPriceMonthly(devices) = PricingTiers[i].price
    /\ PricingTiers[i].min <= devices
    /\ Within(PricingTiers[i], devices)

UnitPrice(devices, cycle) ==
    IF cycle = "yearly" THEN AnnualUnitPrice ELSE UnitPriceMonthly(devices)

(* quote and subscribe: the gross total.                                   *)
Gross(devices, cycle) == devices * UnitPrice(devices, cycle)

-----------------------------------------------------------------------------
(* Coupon rows; max_redemptions and valid_until may be null.               *)
CouponRows(values, caps, ends) ==
    [type : DiscountTypes, value : values, cap : caps, until : ends, active : BOOLEAN]

(* create_coupon: no percent above 100, nothing negative.                  *)
Creatable(c) == c.value >= 0 /\ (c.type = "percent" => c.value <= 100)

(* update_coupon: what is supplied is checked, against the type after the  *)
(* update; a type supplied alone is not checked against the value kept.    *)
Updatable(c, d) == d.value # c.value => Creatable(d)

(* _resolve_coupon.  Nothing ever increments redemptions, so a cap refuses *)
(* the coupon only when it is zero.                                        *)
Usable(c, now, none) ==
    /\ c.active
    /\ c.until # none => now <= c.until
    /\ c.cap # none => 0 < c.cap

(* int(round(n / d)) of Python: halves go to the even neighbour.           *)
Round(n, d) ==
    LET floor == n \div d
        twice == 2 * (n % d)
    IN  IF twice < d \/ (twice = d /\ floor % 2 = 0) THEN floor ELSE floor + 1

(* apply_coupon_discount.                                                  *)
Discounted(total, c) ==
    LET net == IF c.type = "percent" THEN Round(total * (100 - c.value), 100) ELSE total - c.value
    IN  IF net < 0 THEN 0 ELSE net
==============================================================================
