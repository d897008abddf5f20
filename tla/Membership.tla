----------------------------- MODULE Membership -----------------------------
(***************************************************************************)
(* Membership orders, payments, refunds, coupons and invite rewards:       *)
(* membership_store.py, membership_marketing_store.py, the routes of       *)
(* routers/membership.py and routers/admin.py that drive them, and the     *)
(* payment provider as membership_payment_service.py uses it.              *)
(*                                                                         *)
(* Every store operation is one SQLite transaction, so one action; `db` is *)
(* what is committed.  An operation that returns or raises before its      *)
(* commit leaves db as it was, the rows it expired on the way included.    *)
(* A request that asks the provider reads, calls and then writes, in       *)
(* transactions of its own, so its answer may be old when it is written.   *)
(* `reports` holds the states the provider has reported, by a notification *)
(* or by an answer: each may be handled late, after a newer one, several   *)
(* times or not at all.                                                    *)
(***************************************************************************)
EXTENDS Integers, FiniteSets, FiniteSetsExt

CONSTANTS
    Users, Orders, Coupons,  \* the rows that may come to exist
    Providers,               \* {"wechat_native"} or with "manual_test"
    MinSpends,               \* minimum spends an administrator grants coupons with
    Ttl,                     \* ORDER_TTL_MINUTES, in ticks
    Period,                  \* MEMBERSHIP_PERIOD_DAYS, and a coupon's life, in ticks
    MaxTime,                 \* bound on the clock
    MaxBilled,               \* bound: orders that go to the provider
    MaxAsked,                \* bound: requests between their checks and their write
    MaxRefunds,              \* bound: orders the provider is asked to refund
    None

ASSUME RowAssumption == Orders \subseteq Nat
ASSUME TimeAssumption ==
    /\ Ttl \in Nat \ {0} /\ Period \in Nat \ {0} /\ MaxTime \in Nat 
    /\ MaxBilled \in Nat /\ MaxAsked \in Nat /\ MaxRefunds \in Nat
    /\ Ttl <= Period
ASSUME ProviderAssumption == Providers \subseteq {"wechat_native", "manual_test"}
ASSUME SpendAssumption == MinSpends \subseteq Nat
ASSUME NoneAssumption ==
    /\ None \notin Users \cup Orders \cup Coupons
    /\ None \notin {"wechat_native", "manual_test"}

VARIABLES
    now,      \* the clock, in ticks
    db,       \* the committed tables
    asked,    \* requests between their checks and their write
    bills,    \* the payment pages the provider shows for an order
    charge,   \* what the provider did with an order's money
    reports   \* what the provider has reported about an order so far

vars == <<now, db, asked, bills, charge, reports>>

-----------------------------------------------------------------------------
(* Prices, in cents. *)

BASE_MONTHLY_PRICE_CENT == 1990
FIRST_ORDER_DISCOUNT_CENT == 500
INVITE_REWARD_COUPON_AMOUNT_CENT == 500
INVITE_REWARD_COUPON_MIN_SPEND_CENT == 1490

PreCouponPrice(kind) ==
    BASE_MONTHLY_PRICE_CENT
      - (IF kind = "first_purchase" THEN FIRST_ORDER_DISCOUNT_CENT ELSE 0)

\* Every coupon is worth INVITE_REWARD_COUPON_AMOUNT_CENT here.
Price(kind, coupon) ==
    PreCouponPrice(kind)
      - (IF coupon = None THEN 0 ELSE INVITE_REWARD_COUPON_AMOUNT_CENT)

-----------------------------------------------------------------------------
(* The tables. *)

OrderStatus == {"none", "pending", "paid", "closed", "expired",
                "refund_pending", "refunded"}

\* The provider_trade_no of a payment: the provider's transaction, or the order's
\* own number when the provider reports none.
Trades == {"transaction", "order"}

NoOrder == [status |-> "none", user |-> None, provider |-> None,
            kind |-> "renewal", coupon |-> None, until |-> 0, paidAt |-> 0]
NoEntitlement == [status |-> "none", start |-> 0, end |-> 0]
NoCoupon == [status |-> "none", user |-> None, usedBy |-> None, min |-> 0, until |-> 0]

OrdersOf(d, u) == {o \in Orders : d.orders[o].user = u}
PaidOrders(d, u) == {o \in OrdersOf(d, u) : d.orders[o].status = "paid"}
OrderPrice(row) == Price(row.kind, row.coupon)

\* _sync_expired_coupons
ExpiredCoupons(d, us, t) ==
    [c \in Coupons |->
       LET k == d.coupons[c] IN
       IF k.user \in us /\ k.status = "available" /\ k.until <= t
       THEN [k EXCEPT !.status = "expired"] ELSE k]

(* _sync_expired_rows: what is over at time t becomes expired. *)
Expire(d, us, t) ==
    [d EXCEPT
      !.orders = [o \in Orders |->
         LET r == d.orders[o] IN
         IF r.user \in us /\ r.status = "pending" /\ r.until <= t
         THEN [r EXCEPT !.status = "expired"] ELSE r],
      !.ents = [o \in Orders |->
         LET e == d.ents[o] IN
         IF d.orders[o].user \in us /\ e.status = "active" /\ e.end <= t
         THEN [e EXCEPT !.status = "expired"] ELSE e],
      !.coupons = ExpiredCoupons(d, us, t)]

Kind(d, u) == IF PaidOrders(d, u) = {} THEN "first_purchase" ELSE "renewal"

-----------------------------------------------------------------------------
(* Creating and closing an order. *)

FreeOrders == {o \in Orders : db.orders[o].status = "none"}
FreeCoupons(d) == {c \in Coupons : d.coupons[c].status = "none"}
NewCoupon(d) == CHOOSE c \in FreeCoupons(d) : TRUE

\* _resolve_coupon_aware_preview: the coupon is checked before create_order runs.
ResolveCoupon(u, c) ==
    /\ Cardinality(asked) < MaxAsked
    /\ LET d == Expire(db, {u}, now) IN
       /\ d.coupons[c].user = u
       /\ d.coupons[c].status = "available"
       /\ d.coupons[c].min <= PreCouponPrice(Kind(d, u))
    /\ asked' = asked \cup {[type |-> "order", user |-> u, with |-> c]}
    /\ UNCHANGED <<now, db, bills, charge, reports>>

PendingOrders(d, u, p) ==
    {o \in OrdersOf(d, u) : d.orders[o].status = "pending" /\ d.orders[o].provider = p}

Placed(d, o, u, p, c) ==
    [d EXCEPT !.orders[o] =
        [status |-> "pending", user |-> u, provider |-> p, kind |-> Kind(d, u),
         coupon |-> c, until |-> now + Ttl, paidAt |-> 0]]

\* The requests that may create an order with this coupon: one without a coupon has
\* nothing to check before.
OrderRequests(u, c) ==
    IF c = None THEN {{}}
    ELSE {{a} : a \in {b \in asked : b.type = "order" /\ b.user = u /\ b.with = c}}

BilledOrders(d) == {o \in Orders : d.orders[o].provider = "wechat_native"}

\* The provider opens a page for the order; earlier pages stay open.  A call that
\* fails is like a page that nobody pays.
Billed(o, row) ==
    IF row.provider # "wechat_native" THEN bills
    ELSE [bills EXCEPT ![o] = @ \cup {[amount |-> OrderPrice(row), until |-> row.until]}]

\* create_order reprices the pending order of the same provider, or inserts one; the
\* provider is then asked for a page with the price and the time limit of that moment.
CreateOrder(u, p, c) ==
    LET d == Expire(db, {u}, now)
        pending == PendingOrders(d, u, p) IN
    /\ \E request \in OrderRequests(u, c) : asked' = asked \ request
    /\ \E o \in IF pending # {} THEN pending
                ELSE IF FreeOrders = {} THEN {} ELSE {Min(FreeOrders)} :
         /\ db' = Placed(d, o, u, p, c)
         /\ Cardinality(BilledOrders(db')) <= MaxBilled
         /\ bills' = Billed(o, db'.orders[o])
    /\ UNCHANGED <<now, charge, reports>>

\* Nothing tells the provider that the order is closed.
CloseOrder(o) ==
    LET u == db.orders[o].user
        d == Expire(db, {u}, now) IN
    /\ \/ /\ d.orders[o].status = "closed"
          /\ db' = d
       \/ /\ d.orders[o].status = "pending"
          /\ db' = [d EXCEPT !.orders[o].status = "closed"]
    /\ UNCHANGED <<now, asked, bills, charge, reports>>

-----------------------------------------------------------------------------
(* Confirming a payment. *)

CouponHolds(d, r) ==
    r.coupon # None =>
       /\ d.coupons[r.coupon].user = r.user
       /\ d.coupons[r.coupon].status = "available"
       /\ d.coupons[r.coupon].min <= PreCouponPrice(r.kind)

\* mutant: an order that is closed or expired is confirmed as well
ConfirmableAnyStatus(d, o) ==
    /\ d.pays[o]["transaction"] = "none"
    /\ d.orders[o].status \in {"pending", "closed", "expired"}
    /\ CouponHolds(d, d.orders[o])

\* The guards of _confirm_payment_locked.  A payment row for the trade number ends
\* it without a commit, whatever the row says.  The order was expired with the
\* clock of the payment just before, so a pending order is in time.
Confirmable(d, o) ==
    /\ d.pays[o]["transaction"] = "none"
    /\ d.orders[o].status = "pending"
    /\ CouponHolds(d, d.orders[o])

ActiveEnds(d, u) ==
    {d.ents[o].end : o \in {p \in OrdersOf(d, u) : d.ents[p].status = "active"}}

ChainStart(d, u, t) == Max({t} \cup ActiveEnds(d, u))

EarnsReward(d, r) ==
    /\ r.kind = "first_purchase"
    /\ d.bindings[r.user].inviter # None
    /\ d.rewards[r.user].status = "none"

\* _grant_invite_reward_locked
WithReward(d, o, t) ==
    LET r == d.orders[o]
        c == NewCoupon(d) IN
    IF EarnsReward(d, r)
    THEN [d EXCEPT
           !.coupons[c] = [status |-> "available", user |-> d.bindings[r.user].inviter,
                           usedBy |-> None, min |-> INVITE_REWARD_COUPON_MIN_SPEND_CENT,
                           until |-> t + Period],
           !.rewards[r.user] = [status |-> "issued", order |-> o, coupon |-> c],
           !.bindings[r.user].status = "rewarded",
           !.bindings[r.user].order = o]
    ELSE d

CouponSpent(d, o) ==
    LET c == d.orders[o].coupon IN
    IF c = None THEN d
    ELSE [d EXCEPT !.coupons[c].status = "used", !.coupons[c].usedBy = o]

Confirmed(d, o, t) ==
    LET start == ChainStart(d, d.orders[o].user, t)
        paid == [d EXCEPT !.pays[o]["transaction"] = "succeeded",
                          !.ents[o] = [status |-> "active", start |-> start,
                                       end |-> start + Period],
                          !.orders[o].status = "paid",
                          !.orders[o].paidAt = t]
    IN WithReward(CouponSpent(paid, o), o, t)

\* There is a coupon row left for the reward (a bound of the model).
RewardFits(d, o) == EarnsReward(d, d.orders[o]) => FreeCoupons(d) # {}

\* confirm_payment: the user confirms a manual_test payment, at the present time.
ConfirmPayment(o) ==
    LET d == Expire(db, {db.orders[o].user}, now) IN
    /\ d.orders[o].provider = "manual_test"
    /\ Confirmable(d, o) /\ RewardFits(d, o)
    /\ db' = Confirmed(d, o, now)
    /\ UNCHANGED <<now, asked, bills, charge, reports>>

\* confirm_provider_payment: by a notification or a query, at the time of payment.
\* mutant: the amount is not compared
AmountIgnored(d, o) == TRUE

AmountMatches(d, o) == charge[o].amount = OrderPrice(d.orders[o])

ConfirmProviderPayment(o) ==
    LET d == Expire(db, Users, charge[o].at) IN
    /\ "paid" \in reports[o]
    /\ AmountMatches(d, o)
    /\ Confirmable(d, o) /\ RewardFits(d, o)
    /\ db' = Confirmed(d, o, charge[o].at)
    /\ UNCHANGED <<now, asked, bills, charge, reports>>

\* The trade number under which _query_wechat_native_payment reports a payment that
\* is over: the order's own when there is no transaction.
TerminalTrades(o) ==
    (IF "closed" \in reports[o] THEN {"order"} ELSE {})
    \cup (IF "failed" \in reports[o] THEN Trades ELSE {})
    \cup (IF reports[o] \cap {"refunding", "abnormal", "refunded"} # {}
          THEN {"transaction"} ELSE {})

\* _upsert_terminal_payment_locked: the payment row of the trade number says so
TerminalPayment(d, o, t) == [d EXCEPT !.pays[o][t] = "failed"]

\* mutant: the status of the order is not looked at
SyncTerminalPaymentBlindly(o) ==
    LET d == Expire(db, Users, now) IN
    /\ \E t \in TerminalTrades(o) :
         db' = [TerminalPayment(d, o, t) EXCEPT !.orders[o].status = "closed"]
    /\ UNCHANGED <<now, asked, bills, charge, reports>>

\* sync_provider_payment_status for closed, failed and refunded payments: a failed
\* payment row, and the order is closed.  Other orders are left alone.
SyncTerminalPayment(o) ==
    LET d == Expire(db, Users, now) IN
    /\ d.orders[o].status \in {"pending", "closed"}
    /\ \E t \in TerminalTrades(o) :
         db' = [TerminalPayment(d, o, t) EXCEPT !.orders[o].status = "closed"]
    /\ UNCHANGED <<now, asked, bills, charge, reports>>

\* What the provider says of a payment: in a notification, of which only a payment
\* counts, or in the answer to a query by the member, an administrator, or the
\* reconciliation of pending orders.  That one is a process of its own, its list may
\* be outdated, and the update that expires orders opens the transaction that keeps
\* the other writers out.
SyncProviderPayment(o) == ConfirmProviderPayment(o) \/ SyncTerminalPayment(o)

-----------------------------------------------------------------------------
(* Refunding an order. *)

Precedes(d, p, o) ==
    \/ d.orders[p].paidAt < d.orders[o].paidAt
    \/ d.orders[p].paidAt = d.orders[o].paidAt /\ p < o

\* The end of the membership an order pays for, when the user's paid orders follow
\* each other by time of payment.
RebuiltEnd(d, u) ==
    LET End[o \in Orders] ==
          Max({d.orders[o].paidAt}
              \cup {End[p] : p \in {q \in PaidOrders(d, u) : Precedes(d, q, o)}}) + Period
    IN End

\* _rebuild_user_entitlements: the paid orders' entitlements are laid out again,
\* every other entitlement of the user is revoked.
Rebuild(d, u) ==
    LET end == RebuiltEnd(d, u) IN
    [d EXCEPT !.ents = [o \in Orders |->
       IF o \in PaidOrders(d, u)
         THEN [status |-> IF end[o] <= now THEN "expired" ELSE "active",
               start |-> end[o] - Period, end |-> end[o]]
       ELSE IF d.orders[o].user = u /\ d.ents[o].status # "none"
         THEN [d.ents[o] EXCEPT !.status = "revoked"]
       ELSE d.ents[o]]]

\* mutant: the coupon stays with the order
CouponKept(d, o) == d

\* _restore_coupon_after_refund
CouponRestored(d, o) ==
    LET c == d.orders[o].coupon IN
    IF c # None /\ d.coupons[c].status = "used" /\ d.coupons[c].usedBy = o
    THEN [d EXCEPT !.coupons[c].status =
                      IF d.coupons[c].until <= now THEN "expired" ELSE "available",
                   !.coupons[c].usedBy = None]
    ELSE d

\* The invite reward that the order triggered.
TriggeredReward(d, o) ==
    LET r == d.orders[o] IN
    /\ r.kind = "first_purchase"
    /\ d.rewards[r.user].status # "none"
    /\ d.rewards[r.user].order = o

RewardIsUsed(d, o) ==
    /\ TriggeredReward(d, o)
    /\ d.coupons[d.rewards[d.orders[o].user].coupon].status = "used"

\* mutant: the coupon of the reward is left with the inviter
RewardRolledBackOnPaper(d, o) ==
    IF TriggeredReward(d, o)
    THEN [d EXCEPT !.rewards[d.orders[o].user].status = "revoked",
                   !.bindings[d.orders[o].user].status = "bound"]
    ELSE d

\* _rollback_invite_reward_for_refund
RewardRolledBack(d, o) ==
    LET u == d.orders[o].user
        c == d.rewards[u].coupon IN
    IF TriggeredReward(d, o)
    THEN [d EXCEPT
           !.coupons[c].status = IF d.coupons[c].status = "available" THEN "revoked"
                                 ELSE d.coupons[c].status,
           !.rewards[u].status = "revoked",
           !.bindings[u] = IF d.bindings[u].order = o
                           THEN [d.bindings[u] EXCEPT !.status = "bound", !.order = None]
                           ELSE d.bindings[u]]
    ELSE d

Refundable(d, o) ==
    /\ d.orders[o].status \in {"paid", "refund_pending"}
    /\ ~RewardIsUsed(CouponRestored(d, o), o)

\* _finalize_refund_locked
Refunded(d, o) ==
    LET u == d.orders[o].user
        back == RewardRolledBack(CouponRestored(d, o), o)
        settled == [back EXCEPT
                     !.pays[o] = [t \in Trades |->
                        IF back.pays[o][t] = "none" THEN "none" ELSE "refunded"],
                     !.orders[o].status = "refunded"]
    IN Expire(Rebuild(settled, u), {u}, now)

FinalizeRefund(d, o) ==
    \/ /\ d.orders[o].status = "refunded"
       /\ db' = Expire(Rebuild(d, d.orders[o].user), {d.orders[o].user}, now)
    \/ /\ Refundable(d, o)
       /\ db' = Refunded(d, o)

\* refund_order: the administrator's refund of a manual_test order, and of a
\* wechat_native order with a payment that the route read as neither paid nor
\* refund_pending.  It read the order in a transaction of its own, before the
\* payment: any order may have been pending then and paid since, so what the row
\* says now is no condition.  The provider is not asked.
RefundOrder(o) ==
    LET d == Expire(db, Users, now) IN
    /\ d.orders[o].provider = "manual_test" \/ \E t \in Trades : d.pays[o][t] # "none"
    /\ FinalizeRefund(d, o)
    /\ UNCHANGED <<now, asked, bills, charge, reports>>

\* mark_refund_pending: the provider answered the request with "processing".
MarkRefundPending(o) ==
    LET d == Expire(db, Users, now) IN
    /\ "refunding" \in reports[o]
    /\ d.orders[o].status \in {"paid", "refund_pending"}
    /\ d.pays[o]["transaction"] # "none"
    /\ db' = [d EXCEPT !.pays[o]["transaction"] = "refund_pending",
                       !.orders[o].status = "refund_pending"]
    /\ UNCHANGED <<now, asked, bills, charge, reports>>

(* sync_provider_refund: by the answer to the request, by a query or a notification.
   Its branches for refund_pending and failed look at the payment row, not at the
   status of the order.
   It reads before its first write, in no transaction: the store's lock keeps the
   server's other operations out, and the marketing store, which has its own lock, can
   only void or expire the reward's coupon meanwhile, which ends as if done before.  A
   payment confirmed meanwhile by the reconciliation's process is left out. *)
HasPayment(o) == db.pays[o]["transaction"] # "none"

RefundSucceeded(o) ==
    /\ HasPayment(o)
    /\ "refunded" \in reports[o]
    /\ FinalizeRefund(db, o)
    /\ UNCHANGED <<now, asked, bills, charge, reports>>

Resynced(o, payment, order) ==
    Expire([db EXCEPT !.pays[o]["transaction"] = payment, !.orders[o].status = order],
           {db.orders[o].user}, now)

RefundStillPending(o) ==
    /\ HasPayment(o)
    /\ "still refunding" \in reports[o]
    /\ db' = Resynced(o, "refund_pending", "refund_pending")
    /\ UNCHANGED <<now, asked, bills, charge, reports>>

RefundFailed(o) ==
    /\ HasPayment(o)
    /\ "abnormal" \in reports[o]
    /\ db' = Resynced(o, "succeeded", "paid")
    /\ UNCHANGED <<now, asked, bills, charge, reports>>

-----------------------------------------------------------------------------
(* Coupons and invitations: membership_marketing_store.py has a lock of its own. *)

GrantCoupon(u, min) ==
    /\ FreeCoupons(db) # {}
    /\ db' = [db EXCEPT !.coupons[NewCoupon(db)] =
               [status |-> "available", user |-> u, usedBy |-> None,
                min |-> min, until |-> now + Period]]
    /\ UNCHANGED <<now, asked, bills, charge, reports>>

VoidCoupon(c) ==
    LET d == [db EXCEPT !.coupons = ExpiredCoupons(db, Users, now)] IN
    /\ d.coupons[c].status = "available"
    /\ db' = [d EXCEPT !.coupons[c].status = "revoked"]
    /\ UNCHANGED <<now, asked, bills, charge, reports>>

\* bind_invite_code reads outside a transaction and inserts in one.
CheckInvite(u, v) ==
    /\ u # v
    /\ Cardinality(asked) < MaxAsked
    /\ PaidOrders(db, u) = {}
    /\ db.bindings[u].inviter = None
    /\ asked' = asked \cup {[type |-> "invite", user |-> u, with |-> v]}
    /\ UNCHANGED <<now, db, bills, charge, reports>>

BindInvite(a) ==
    /\ a.type = "invite"
    /\ db' = IF db.bindings[a.user].inviter = None
             THEN [db EXCEPT !.bindings[a.user].inviter = a.with]
             ELSE db
    /\ asked' = asked \ {a}
    /\ UNCHANGED <<now, bills, charge, reports>>

-----------------------------------------------------------------------------
(* The payment provider: external, as the payment service sees it. *)

Report(o, state) ==
    /\ charge' = [charge EXCEPT ![o].state = state]
    /\ reports' = [reports EXCEPT ![o] = @ \cup {state}]
    /\ UNCHANGED <<now, db, asked, bills>>

\* The member pays a page that is still open, whatever the store says by then.
Pay(o) ==
    /\ charge[o].state = "open"
    /\ \E b \in bills[o] :
         charge' = [charge EXCEPT ![o] = [state |-> "paid", amount |-> b.amount, at |-> now]]
    /\ reports' = [reports EXCEPT ![o] = @ \cup {"paid"}]
    /\ UNCHANGED <<now, db, asked, bills>>

\* A payment fails, or is closed once its pages are over; a query reports it.
ProviderGivesUp(o) ==
    /\ db.orders[o].provider = "wechat_native"
    /\ charge[o].state = "open"
    /\ \/ bills[o] # {} /\ Report(o, "failed")
       \/ bills[o] = {} /\ Report(o, "closed")

RefundsAskedFor == {o \in Orders : charge[o].state \in {"refunding", "abnormal", "refunded"}}

\* what an order that was once paid can be
WasPaid(o) == db.orders[o].status \in {"paid", "refund_pending", "refunded"}

\* The administrator refunds an order read as paid: the provider is asked first, and
\* answers with the state of the refund.
RequestRefund(o) ==
    /\ db.orders[o].provider = "wechat_native"
    /\ WasPaid(o)
    /\ charge[o].state \in {"paid", "abnormal"}
    /\ Cardinality(RefundsAskedFor \cup {o}) <= MaxRefunds
    /\ \E s \in {"refunding", "refunded", "abnormal"} : Report(o, s)

\* The administrator asks again, having read the order as refund_pending: by the time
\* the provider answers, the order may have been settled either way.
QueryRefund(o) ==
    /\ WasPaid(o)
    /\ charge[o].state = "refunding"
    /\ reports' = [reports EXCEPT ![o] = @ \cup {"still refunding"}]
    /\ UNCHANGED <<now, db, asked, bills, charge>>

\* The provider decides a refund and notifies.
SettleRefund(o) ==
    /\ charge[o].state = "refunding"
    /\ \E s \in {"refunded", "abnormal"} : Report(o, s)

\* Time passes; the pages whose time is over are gone.
Tick ==
    /\ now < MaxTime
    /\ now' = now + 1
    /\ bills' = [o \in Orders |-> {b \in bills[o] : b.until > now'}]
    /\ UNCHANGED <<db, asked, charge, reports>>

-----------------------------------------------------------------------------
Init ==
    /\ now = 0
    /\ db = [orders |-> [o \in Orders |-> NoOrder],
             ents |-> [o \in Orders |-> NoEntitlement],
             coupons |-> [c \in Coupons |-> NoCoupon],
             pays |-> [o \in Orders |-> [t \in Trades |-> "none"]],
             bindings |-> [u \in Users |->
                            [inviter |-> None, status |-> "bound", order |-> None]],
             rewards |-> [u \in Users |->
                            [status |-> "none", order |-> None, coupon |-> None]]]
    /\ asked = {}
    /\ bills = [o \in Orders |-> {}]
    /\ charge = [o \in Orders |-> [state |-> "open", amount |-> 0, at |-> 0]]
    /\ reports = [o \in Orders |-> {}]

Next ==
    \/ \E u \in Users, c \in Coupons : ResolveCoupon(u, c)
    \/ \E u \in Users, p \in Providers, c \in Coupons \cup {None} : CreateOrder(u, p, c)
    \/ \E o \in Orders : CloseOrder(o)
    \/ \E o \in Orders : ConfirmPayment(o)
    \/ \E o \in Orders : SyncProviderPayment(o)
    \/ \E o \in Orders : RefundOrder(o)
    \/ \E o \in Orders : MarkRefundPending(o)
    \/ \E o \in Orders : RefundSucceeded(o)
    \/ \E o \in Orders : RefundStillPending(o)
    \/ \E o \in Orders : RefundFailed(o)
    \/ \E u \in Users, min \in MinSpends : GrantCoupon(u, min)
    \/ \E c \in Coupons : VoidCoupon(c)
    \/ \E u, v \in Users : CheckInvite(u, v)
    \/ \E a \in asked : BindInvite(a)
    \/ \E o \in Orders : Pay(o)
    \/ \E o \in Orders : ProviderGivesUp(o)
    \/ \E o \in Orders : RequestRefund(o)
    \/ \E o \in Orders : QueryRefund(o)
    \/ \E o \in Orders : SettleRefund(o)
    \/ Tick

Spec == Init /\ [][Next]_vars

-----------------------------------------------------------------------------
(* Properties. *)

Held(e) == e.status \in {"active", "expired"}

\* The payment of b was reported when a had run out already, and made before a ended:
\* b then starts at the time of payment, as no active period is in its way.
ReportedLate(a, b) ==
    /\ db.ents[a].status = "expired"
    /\ db.orders[b].provider = "wechat_native"
    /\ db.orders[b].paidAt < db.ents[a].end

\* Nobody holds a membership that was not paid for, nor pays for a day twice, in
\* whatever order payments and refunds are reported (membership_store.py:1593-1730,
\* 2090-2240).  The order of an entitlement that is not revoked is paid or waits for
\* its refund; the provider took the price the order has now, although pages with
\* older prices stay open; and two periods of one user overlap in one case only, the
\* late report of a payment that was made while the other period ran.
EntitlementIsPaidFor ==
    \A o \in Orders : Held(db.ents[o]) =>
       /\ db.orders[o].status \in {"paid", "refund_pending"}
       /\ db.orders[o].provider = "wechat_native" =>
             /\ charge[o].state \notin {"open", "closed", "failed"}
             /\ charge[o].amount = OrderPrice(db.orders[o])
       /\ \A p \in Orders \ {o} :
             db.orders[p].user = db.orders[o].user /\ Held(db.ents[p]) =>
                \/ db.ents[o].end <= db.ents[p].start
                \/ db.ents[p].end <= db.ents[o].start
                \/ ReportedLate(o, p)
                \/ ReportedLate(p, o)

\* A used coupon paid for exactly the order it names, and that order was not
\* refunded: two orders never spend one coupon, and a refund gives it back.
CouponBacksItsOrder ==
    \A c \in Coupons : db.coupons[c].status = "used" =>
       LET o == db.coupons[c].usedBy IN
       /\ o # None
       /\ db.orders[o].coupon = c
       /\ db.orders[o].status \in {"paid", "refund_pending"}

\* The refund of the order that earned an invite reward takes the reward's coupon
\* back, and the binding says rewarded exactly while the reward is issued.
RefundTakesReward ==
    \A u \in Users : db.rewards[u].status # "none" =>
       LET o == db.rewards[u].order IN
       /\ (db.bindings[u].status = "rewarded") <=> (db.rewards[u].status = "issued")
       /\ db.orders[o].status = "refunded" =>
             db.coupons[db.rewards[u].coupon].status \notin {"available", "used"}

DeadOrders == {o \in Orders : db.orders[o].status \in {"closed", "expired"}}

\* An order that was closed or ran out of time is not brought back by a payment or a
\* refund report that arrives later.
DeadStaysDead == [][DeadOrders \subseteq DeadOrders']_vars

\* Money that the provider gave back can be booked: whatever late answers do to the
\* order, it stays one that sync_provider_refund finalises - at once, or after an
\* administrator has settled the invite reward it earned, if that has been spent
\* (membership_store.py:2120-2264).
RefundIsBookable ==
    \A o \in Orders : charge[o].state = "refunded" =>
       /\ db.orders[o].status \in {"paid", "refund_pending", "refunded"}
       /\ db.pays[o]["transaction"] # "none"

=============================================================================
