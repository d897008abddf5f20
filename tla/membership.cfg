\* Two users, two orders, one coupon, both providers, one refund at the provider.
SPECIFICATION Spec
CONSTANTS
    Users = {u1, u2}
    Orders = {1, 2}
    Coupons = {1}
    Providers = {"wechat_native", "manual_test"}
    MinSpends = {1990}
    Ttl = 1
    Period = 1
    MaxTime = 1
    MaxBilled = 1
    MaxAsked = 1
    MaxRefunds = 1
    None = None
CHECK_DEADLOCK FALSE
SYMMETRY UserSymmetry
INVARIANTS EntitlementIsPaidFor CouponBacksItsOrder RefundTakesReward RefundIsBookable
PROPERTIES DeadStaysDead
