--------------------------- MODULE MembershipProofs ---------------------------
(* Theorems about Membership: coupons, invite rewards and orders stay in step *)
(* with each other and with the provider, for any number of users, orders and *)
(* coupons and any order of payments, refunds and late reports; and nobody   *)
(* holds a membership that was not paid for.                                 *)
(*                                                                           *)
(* The tables come first (Inv), then the periods and the money (Books).       *)
(* What is committed is the argument d of the lemmas, and each lemma is about *)
(* one thing an operation does to it; the actions are put together at the     *)
(* end.                                                                      *)
EXTENDS Membership, FiniteSetTheorems, WellFoundedInduction, TLAPS

OrderRow == [status: OrderStatus, user: Users \cup {None},
             provider: {"wechat_native", "manual_test", None},
             kind: {"first_purchase", "renewal"}, coupon: Coupons \cup {None},
             until: Nat, paidAt: Nat]
CouponRow == [status: {"none", "available", "used", "expired", "revoked"},
              user: Users \cup {None}, usedBy: Orders \cup {None}, min: Nat, until: Nat]
BindingRow == [inviter: Users \cup {None}, status: {"bound", "rewarded"},
               order: Orders \cup {None}]
RewardRow == [status: {"none", "issued", "revoked"}, order: Orders \cup {None},
              coupon: Coupons \cup {None}]
PayStatus == {"none", "succeeded", "failed", "refund_pending", "refunded"}

\* The tables hold rows of the shapes the code declares; what an entitlement says is
\* left open.
StoreType(d) ==
    d \in [orders: [Orders -> OrderRow], ents: {d.ents}, coupons: [Coupons -> CouponRow],
           pays: [Orders -> [Trades -> PayStatus]], bindings: [Users -> BindingRow],
           rewards: [Users -> RewardRow]]

Settled == {"paid", "refund_pending", "refunded"}

\* An order has a user, and a payment row once it is settled.
OrdersOk(d) ==
    \A o \in Orders :
        /\ d.orders[o].status # "none" => d.orders[o].user \in Users
        /\ d.orders[o].status \in Settled => d.pays[o]["transaction"] # "none"

\* CouponBacksItsOrder, of any store
CouponsOk(d) ==
    \A c \in Coupons : d.coupons[c].status = "used" =>
        /\ d.coupons[c].usedBy \in Orders
        /\ d.orders[d.coupons[c].usedBy].coupon = c
        /\ d.orders[d.coupons[c].usedBy].status \in {"paid", "refund_pending"}

\* A reward belongs to a settled first purchase of its user; once it is revoked, as
\* it is when the order is refunded, its coupon is of no use to anybody.
RewardOk(d, u) ==
    /\ d.rewards[u].status = "none" => d.bindings[u].status = "bound"
    /\ d.rewards[u].status # "none" =>
        /\ d.rewards[u].order \in Orders /\ d.rewards[u].coupon \in Coupons
        /\ d.orders[d.rewards[u].order].user = u
        /\ d.orders[d.rewards[u].order].kind = "first_purchase"
        /\ d.orders[d.rewards[u].order].status \in Settled
        /\ d.coupons[d.rewards[u].coupon].status # "none"
        /\ d.bindings[u].status = "rewarded" <=> d.rewards[u].status = "issued"
        /\ d.bindings[u].status = "rewarded" => d.bindings[u].order = d.rewards[u].order
        /\ d.orders[d.rewards[u].order].status = "refunded" => d.rewards[u].status = "revoked"
        /\ d.rewards[u].status = "revoked" =>
              d.coupons[d.rewards[u].coupon].status \in {"expired", "revoked"}

RewardsOk(d) == \A u \in Users : RewardOk(d, u)

StoreOk(d) == StoreType(d) /\ OrdersOk(d) /\ CouponsOk(d) /\ RewardsOk(d)

\* A settled order stays settled and a dead one dead.
Dead == {"closed", "expired"}
Forward(d, e) ==
    \A o \in Orders :
        /\ d.orders[o].status \in Settled => e.orders[o].status \in Settled
        /\ d.orders[o].status \in Dead => e.orders[o].status \in Dead

\* What one step leaves settled or dead, a longer way leaves so.
LEMMA ForwardTransitive ==
    ASSUME NEW d, NEW e, NEW f, Forward(d, e), Forward(e, f)
    PROVE  Forward(d, f)
  BY DEF Forward

\* What the rows' types say, one row at a time.
LEMMA Rows ==
    ASSUME NEW d, StoreType(d)
    PROVE  /\ \A o \in Orders : d.orders[o] \in OrderRow /\ d.pays[o] \in [Trades -> PayStatus]
           /\ \A c \in Coupons : d.coupons[c] \in CouponRow
           /\ \A u \in Users : d.bindings[u] \in BindingRow /\ d.rewards[u] \in RewardRow
  BY DEF StoreType

\* The least number of a set: the next free row.
LEMMA MinIn ==
    ASSUME NEW S, S \subseteq Nat, S # {}
    PROVE  Min(S) \in S
<1> DEFINE R == {p \in Nat \X Nat : p[1] < p[2]}
<1>1. IsWellFoundedOn(R, Nat)
  BY NatLessThanWellFounded DEF OpToRel
<1>2. PICK n \in S : \A m \in S : ~(<<m, n>> \in R)
  <2> HIDE DEF R
  <2> QED
    BY <1>1, WFMin
<1>3. ASSUME NEW m \in S PROVE n <= m
  <2>1. m \in Nat /\ n \in Nat
    OBVIOUS
  <2>2. <<m, n>> \in R <=> m < n
    BY <2>1
  <2>3. ~(m < n)
    BY <1>2, <2>2
  <2> HIDE DEF R
  <2> QED
    BY <2>1, <2>3
<1> QED
  BY <1>3 DEF Min

-----------------------------------------------------------------------------
(* Expiry. *)

\* Expiry changes pending orders and available coupons, and no other row.
LEMMA ExpireTables ==
    ASSUME NEW d, StoreType(d), NEW us, NEW t
    PROVE  LET e == Expire(d, us, t)
           IN  /\ StoreType(e)
               /\ e.pays = d.pays /\ e.bindings = d.bindings /\ e.rewards = d.rewards
               /\ \A o \in Orders :
                    \/ e.orders[o] = d.orders[o]
                    \/ /\ d.orders[o].status = "pending"
                       /\ e.orders[o] = [d.orders[o] EXCEPT !.status = "expired"]
               /\ \A c \in Coupons :
                    \/ e.coupons[c] = d.coupons[c]
                    \/ /\ d.coupons[c].status = "available"
                       /\ e.coupons[c] = [d.coupons[c] EXCEPT !.status = "expired"]
<1> DEFINE O == [o \in Orders |-> LET r == d.orders[o] IN
                   IF r.user \in us /\ r.status = "pending" /\ r.until <= t
                   THEN [r EXCEPT !.status = "expired"] ELSE r]
           E == [o \in Orders |-> LET e == d.ents[o] IN
                   IF d.orders[o].user \in us /\ e.status = "active" /\ e.end <= t
                   THEN [e EXCEPT !.status = "expired"] ELSE e]
           C == ExpiredCoupons(d, us, t)
           x == Expire(d, us, t)
<1>1. x = [d EXCEPT !.orders = O, !.ents = E, !.coupons = C]
  BY DEF Expire
<1>2. \A o \in Orders :
        \/ O[o] = d.orders[o]
        \/ /\ d.orders[o].status = "pending"
           /\ O[o] = [d.orders[o] EXCEPT !.status = "expired"]
  OBVIOUS
<1>3. \A c \in Coupons :
        \/ C[c] = d.coupons[c]
        \/ /\ d.coupons[c].status = "available"
           /\ C[c] = [d.coupons[c] EXCEPT !.status = "expired"]
  BY DEF ExpiredCoupons
<1>4. O \in [Orders -> OrderRow]
  <2>1. \A r \in OrderRow : [r EXCEPT !.status = "expired"] \in OrderRow
    BY DEF OrderRow, OrderStatus
  <2>2. \A o \in Orders : O[o] \in OrderRow
    BY <1>2, <2>1, Rows
  <2> QED
    BY <2>2
<1>5. C \in [Coupons -> CouponRow]
  <2>1. \A k \in CouponRow : [k EXCEPT !.status = "expired"] \in CouponRow
    BY DEF CouponRow
  <2>2. \A c \in Coupons : C[c] \in CouponRow
    BY <1>3, <2>1, Rows
  <2> QED
    BY <2>2 DEF ExpiredCoupons
<1> HIDE DEF O, E, C, x
<1>6. x.orders = O /\ x.coupons = C /\ x.pays = d.pays /\ x.bindings = d.bindings /\ x.rewards = d.rewards
  BY <1>1 DEF StoreType
<1>7. StoreType(x)
  BY <1>1, <1>4, <1>5 DEF StoreType
<1> QED
  BY <1>2, <1>3, <1>6, <1>7 DEF x

\* A reward stays in order when its row and its binding stay, when settled orders
\* stay what they were and no coupon comes back.
LEMMA RewardStays ==
    ASSUME NEW d, NEW e, NEW v, RewardOk(d, v),
           e.rewards[v] = d.rewards[v],
           e.bindings[v].status = d.bindings[v].status, e.bindings[v].order = d.bindings[v].order,
           \A o \in Orders : d.orders[o].status \in Settled =>
               /\ e.orders[o].user = d.orders[o].user /\ e.orders[o].kind = d.orders[o].kind
               /\ e.orders[o].status \in Settled
               /\ \/ e.orders[o].status # "refunded"
                  \/ d.orders[o].status = "refunded"
                  \/ d.rewards[v].order = o => d.rewards[v].status \in {"none", "revoked"},
           \A c \in Coupons :
               /\ d.coupons[c].status # "none" => e.coupons[c].status # "none"
               /\ d.coupons[c].status \in {"expired", "revoked"} =>
                     e.coupons[c].status \in {"expired", "revoked"}
    PROVE  RewardOk(e, v)
<1> DEFINE r == d.rewards[v]
           b == d.bindings[v]
<1>1. e.rewards[v] = r
  OBVIOUS
<1>2. e.bindings[v].status = b.status /\ e.bindings[v].order = b.order
  OBVIOUS
<1>3. CASE r.status = "none"
  BY Zenon, <1>1, <1>2, <1>3 DEF RewardOk
<1>4. CASE r.status # "none"
  <2> DEFINE o == d.orders[r.order]
             x == e.orders[r.order]
             c == d.coupons[r.coupon]
             y == e.coupons[r.coupon]
  <2>1. /\ r.order \in Orders /\ r.coupon \in Coupons
        /\ o.user = v /\ o.kind = "first_purchase" /\ o.status \in Settled /\ c.status # "none"
        /\ b.status = "rewarded" <=> r.status = "issued"
        /\ b.status = "rewarded" => b.order = r.order
        /\ o.status = "refunded" => r.status = "revoked"
        /\ r.status = "revoked" => c.status \in {"expired", "revoked"}
    BY Zenon, <1>4 DEF RewardOk
  <2>2. /\ x.user = v /\ x.kind = "first_purchase" /\ x.status \in Settled
        /\ x.status = "refunded" => r.status = "revoked"
    BY Zenon, <1>4, <2>1
  <2>3. /\ y.status # "none"
        /\ r.status = "revoked" => y.status \in {"expired", "revoked"}
    BY Zenon, <2>1
  <2> QED
    BY ZenonT(40), <1>1, <1>2, <1>4, <2>1, <2>2, <2>3 DEF RewardOk
<1> QED
  BY Zenon, <1>3, <1>4

\* The used coupons stay in order when none is added to them and the orders they
\* back stay what they were.
LEMMA CouponsStay ==
    ASSUME NEW d, NEW e, CouponsOk(d),
           \A c \in Coupons : e.coupons[c].status = "used" =>
               d.coupons[c].status = "used" /\ e.coupons[c].usedBy = d.coupons[c].usedBy,
           \A o \in Orders : d.orders[o].status \in {"paid", "refund_pending"} =>
               /\ e.orders[o].coupon = d.orders[o].coupon
               /\ \/ e.orders[o].status \in {"paid", "refund_pending"}
                  \/ \A c \in Coupons : e.coupons[c].status = "used" => e.coupons[c].usedBy # o
    PROVE  CouponsOk(e)
<1> SUFFICES ASSUME NEW c \in Coupons, e.coupons[c].status = "used"
             PROVE  /\ e.coupons[c].usedBy \in Orders
                    /\ e.orders[e.coupons[c].usedBy].coupon = c
                    /\ e.orders[e.coupons[c].usedBy].status \in {"paid", "refund_pending"}
  BY Zenon DEF CouponsOk
<1> DEFINE o == d.coupons[c].usedBy
<1>1. e.coupons[c].usedBy = o /\ d.coupons[c].status = "used"
  BY Zenon
<1>2. o \in Orders /\ d.orders[o].coupon = c /\ d.orders[o].status \in {"paid", "refund_pending"}
  BY Zenon, <1>1 DEF CouponsOk
<1> QED
  BY Zenon, <1>1, <1>2

\* Orders that were not settled die, coupons that were not used are lost, payment
\* rows stay: nothing else can have changed for the worse.
LEMMA Fading ==
    ASSUME NEW d, NEW e, StoreOk(d), StoreType(e),
           e.bindings = d.bindings, e.rewards = d.rewards,
           \A o \in Orders :
             \/ e.orders[o] = d.orders[o]
             \/ /\ d.orders[o].status \in {"pending", "closed"}
                /\ e.orders[o].status \in Dead
                /\ e.orders[o].user = d.orders[o].user,
           \A o \in Orders : d.pays[o]["transaction"] # "none" => e.pays[o]["transaction"] # "none",
           \A c \in Coupons :
             \/ e.coupons[c] = d.coupons[c]
             \/ /\ d.coupons[c].status = "available"
                /\ e.coupons[c].status \in {"expired", "revoked"}
    PROVE  StoreOk(e) /\ Forward(d, e)
<1>1. Forward(d, e)
  BY DEF Forward, Settled, Dead
<1>2. OrdersOk(e)
  BY DEF StoreOk, OrdersOk, Settled, Dead
<1>3. CouponsOk(e)
  BY SMTT(40) DEF StoreOk, CouponsOk, Dead
<1>4. ASSUME NEW u \in Users PROVE RewardOk(e, u)
  <2>1. RewardOk(d, u)
    BY Zenon DEF StoreOk, RewardsOk
  <2> QED
    BY SMTT(40), <2>1, RewardStays DEF Settled, Dead
<1> QED
  BY <1>1, <1>2, <1>3, <1>4 DEF StoreOk, RewardsOk

LEMMA ExpireKeeps ==
    ASSUME NEW d, StoreOk(d), NEW us, NEW t
    PROVE  StoreOk(Expire(d, us, t)) /\ Forward(d, Expire(d, us, t))
<1> DEFINE e == Expire(d, us, t)
<1>1. StoreType(d)
  BY DEF StoreOk
<1>2. /\ StoreType(e) /\ e.pays = d.pays /\ e.bindings = d.bindings /\ e.rewards = d.rewards
      /\ \A o \in Orders :
           \/ e.orders[o] = d.orders[o]
           \/ /\ d.orders[o].status = "pending"
              /\ e.orders[o] = [d.orders[o] EXCEPT !.status = "expired"]
      /\ \A c \in Coupons :
           \/ e.coupons[c] = d.coupons[c]
           \/ /\ d.coupons[c].status = "available"
              /\ e.coupons[c] = [d.coupons[c] EXCEPT !.status = "expired"]
  BY <1>1, ExpireTables
<1> HIDE DEF e
<1>3. ASSUME NEW o \in Orders, e.orders[o] = [d.orders[o] EXCEPT !.status = "expired"]
      PROVE  e.orders[o].status \in Dead /\ e.orders[o].user = d.orders[o].user
  BY <1>1, <1>3, Rows DEF OrderRow, Dead
<1>4. ASSUME NEW c \in Coupons, e.coupons[c] = [d.coupons[c] EXCEPT !.status = "expired"]
      PROVE  e.coupons[c].status = "expired"
  BY <1>1, <1>4, Rows DEF CouponRow
<1>5. StoreOk(e) /\ Forward(d, e)
  BY ZenonT(40), <1>2, <1>3, <1>4, Fading
<1> QED
  BY <1>5 DEF e

\* What the expiry of coupons and rows leaves of one order.
LEMMA ExpireStatus ==
    ASSUME NEW d, StoreType(d), NEW us, NEW t, NEW o \in Orders
    PROVE  /\ Expire(d, us, t).orders[o].status # "expired" =>
                  Expire(d, us, t).orders[o] = d.orders[o]
           /\ Expire(d, us, t).pays = d.pays
           /\ StoreType(Expire(d, us, t))
<1> DEFINE e == Expire(d, us, t)
<1>1. /\ StoreType(e) /\ e.pays = d.pays
      /\ \/ e.orders[o] = d.orders[o]
         \/ e.orders[o] = [d.orders[o] EXCEPT !.status = "expired"]
  BY ExpireTables
<1> HIDE DEF e
<1>2. e.orders[o] = [d.orders[o] EXCEPT !.status = "expired"] => e.orders[o].status = "expired"
  BY Rows DEF OrderRow
<1> QED
  BY <1>1, <1>2 DEF e

-----------------------------------------------------------------------------
(* Placing and closing orders. *)

\* Rows that differ from those of a store in the row of one order.
LEMMA OrderReplaced ==
    ASSUME NEW d, StoreType(d), NEW o \in Orders, NEW r \in OrderRow
    PROVE  LET e == [d EXCEPT !.orders[o] = r]
           IN  /\ StoreType(e) /\ e.coupons = d.coupons /\ e.pays = d.pays
               /\ e.bindings = d.bindings /\ e.rewards = d.rewards
               /\ e.orders[o] = r /\ \A p \in Orders \ {o} : e.orders[p] = d.orders[p]
<1> DEFINE X == [d.orders EXCEPT ![o] = r]
           e == [d EXCEPT !.orders = X]
<1>1. X \in [Orders -> OrderRow] /\ X[o] = r /\ \A p \in Orders \ {o} : X[p] = d.orders[p]
  BY DEF StoreType
<1> HIDE DEF X
<1>2. StoreType(e) /\ e.orders = X /\ e.coupons = d.coupons /\ e.pays = d.pays
      /\ e.bindings = d.bindings /\ e.rewards = d.rewards
  BY <1>1 DEF StoreType
<1>3. e = [d EXCEPT !.orders[o] = r]
  BY DEF X
<1> HIDE DEF e
<1> QED
  BY <1>1, <1>2, <1>3

LEMMA PlacedKeeps ==
    ASSUME NEW d, StoreOk(d), NEW o \in Orders, NEW u \in Users,
           NEW p \in {"wechat_native", "manual_test"}, NEW c \in Coupons \cup {None},
           d.orders[o].status \in {"none", "pending"}, now \in Nat
    PROVE  StoreOk(Placed(d, o, u, p, c)) /\ Forward(d, Placed(d, o, u, p, c))
<1> DEFINE r == [status |-> "pending", user |-> u, provider |-> p, kind |-> Kind(d, u),
                 coupon |-> c, until |-> now + Ttl, paidAt |-> 0]
           e == Placed(d, o, u, p, c)
<1>1. r \in OrderRow /\ r.status = "pending" /\ r.user = u
  <2>1. now + Ttl \in Nat
    BY TimeAssumption
  <2>2. Kind(d, u) \in {"first_purchase", "renewal"}
    BY DEF Kind
  <2> QED
    BY <2>1, <2>2 DEF OrderRow, OrderStatus
<1>2. e = [d EXCEPT !.orders[o] = r]
  BY DEF Placed
<1> HIDE DEF r, e
<1>3. /\ StoreType(e) /\ e.coupons = d.coupons /\ e.pays = d.pays
      /\ e.bindings = d.bindings /\ e.rewards = d.rewards
      /\ e.orders[o] = r /\ \A q \in Orders \ {o} : e.orders[q] = d.orders[q]
  BY <1>1, <1>2, OrderReplaced DEF StoreOk
<1>4. Forward(d, e)
  BY <1>3 DEF Forward, Settled, Dead
<1>5. OrdersOk(e)
  BY <1>1, <1>3 DEF StoreOk, OrdersOk, Settled
<1>6. CouponsOk(e)
  BY SMTT(40), <1>3 DEF StoreOk, CouponsOk
<1>7. ASSUME NEW v \in Users PROVE RewardOk(e, v)
  <2>1. RewardOk(d, v)
    BY Zenon DEF StoreOk, RewardsOk
  <2> QED
    BY SMTT(40), <1>3, <2>1, RewardStays DEF Settled
<1>8. StoreOk(e)
  BY <1>3, <1>5, <1>6, <1>7 DEF StoreOk, RewardsOk
<1> QED
  BY <1>4, <1>8 DEF e

LEMMA ClosedKeeps ==
    ASSUME NEW d, StoreOk(d), NEW o \in Orders, d.orders[o].status \in {"pending", "closed"}
    PROVE  /\ StoreOk([d EXCEPT !.orders[o].status = "closed"])
           /\ Forward(d, [d EXCEPT !.orders[o].status = "closed"])
<1> DEFINE r == [d.orders[o] EXCEPT !.status = "closed"]
           e == [d EXCEPT !.orders[o] = r]
<1>1. r \in OrderRow /\ r.status = "closed" /\ r.user = d.orders[o].user
  BY Rows DEF StoreOk, OrderRow, OrderStatus
<1> HIDE DEF r
<1>2. /\ StoreType(e) /\ e.coupons = d.coupons /\ e.pays = d.pays
      /\ e.bindings = d.bindings /\ e.rewards = d.rewards
      /\ e.orders[o] = r /\ \A q \in Orders \ {o} : e.orders[q] = d.orders[q]
  BY <1>1, OrderReplaced DEF StoreOk
<1>3. e = [d EXCEPT !.orders[o].status = "closed"]
  BY DEF r
<1> HIDE DEF e
<1>4. StoreOk(e) /\ Forward(d, e)
  BY <1>1, <1>2, Fading DEF Dead
<1> QED
  BY <1>3, <1>4

-----------------------------------------------------------------------------
(* Payments. *)

\* A payment row that comes to exist, or gets another status, of an order.
LEMMA PaymentReplaced ==
    ASSUME NEW d, StoreType(d), NEW o \in Orders, NEW t \in Trades, NEW s \in PayStatus
    PROVE  LET e == [d EXCEPT !.pays[o][t] = s]
           IN  /\ StoreType(e) /\ e.orders = d.orders /\ e.coupons = d.coupons
               /\ e.bindings = d.bindings /\ e.rewards = d.rewards
               /\ e.pays[o][t] = s
               /\ \A p \in Orders, k \in Trades : p # o \/ k # t => e.pays[p][k] = d.pays[p][k]
<1> DEFINE Y == [d.pays[o] EXCEPT ![t] = s]
           X == [d.pays EXCEPT ![o] = Y]
           e == [d EXCEPT !.pays = X]
<1>1. d.pays \in [Orders -> [Trades -> PayStatus]] /\ d.pays[o] \in [Trades -> PayStatus]
  BY DEF StoreType
<1>2. Y \in [Trades -> PayStatus] /\ Y[t] = s /\ \A k \in Trades \ {t} : Y[k] = d.pays[o][k]
  BY <1>1
<1> HIDE DEF Y
<1>3. X \in [Orders -> [Trades -> PayStatus]] /\ X[o] = Y /\ \A p \in Orders \ {o} : X[p] = d.pays[p]
  BY <1>1, <1>2
<1> HIDE DEF X
<1>4. StoreType(e) /\ e.orders = d.orders /\ e.coupons = d.coupons
      /\ e.bindings = d.bindings /\ e.rewards = d.rewards /\ e.pays = X
  BY <1>3 DEF StoreType
<1>5. e = [d EXCEPT !.pays[o][t] = s]
  BY DEF X, Y
<1> HIDE DEF e
<1>6. \A p \in Orders, k \in Trades : p # o \/ k # t => e.pays[p][k] = d.pays[p][k]
  BY <1>2, <1>3, <1>4
<1> QED
  BY <1>2, <1>3, <1>4, <1>5, <1>6

LEMMA PaymentKeeps ==
    ASSUME NEW d, StoreOk(d), NEW o \in Orders, NEW t \in Trades, NEW s \in PayStatus \ {"none"}
    PROVE  /\ StoreOk([d EXCEPT !.pays[o][t] = s]) /\ Forward(d, [d EXCEPT !.pays[o][t] = s])
           /\ [d EXCEPT !.pays[o][t] = s].orders = d.orders
           /\ [d EXCEPT !.pays[o][t] = s].coupons = d.coupons
           /\ [d EXCEPT !.pays[o][t] = s].pays[o][t] = s
<1> DEFINE e == [d EXCEPT !.pays[o][t] = s]
<1>1. /\ StoreType(e) /\ e.orders = d.orders /\ e.coupons = d.coupons
      /\ e.bindings = d.bindings /\ e.rewards = d.rewards /\ e.pays[o][t] = s
      /\ \A p \in Orders, k \in Trades : p # o \/ k # t => e.pays[p][k] = d.pays[p][k]
  BY PaymentReplaced DEF StoreOk
<1> HIDE DEF e
<1>2. \A p \in Orders : d.pays[p]["transaction"] # "none" => e.pays[p]["transaction"] # "none"
  BY <1>1 DEF Trades
<1>3. StoreOk(e) /\ Forward(d, e)
  BY <1>1, <1>2, Fading
<1> QED
  BY <1>1, <1>3 DEF e

LEMMA TerminalKeeps ==
    ASSUME NEW d, StoreOk(d), NEW o \in Orders, NEW t \in Trades,
           d.orders[o].status \in {"pending", "closed"}
    PROVE  LET e == [TerminalPayment(d, o, t) EXCEPT !.orders[o].status = "closed"]
           IN  StoreOk(e) /\ Forward(d, e)
<1> DEFINE p == [d EXCEPT !.pays[o][t] = "failed"]
           e == [p EXCEPT !.orders[o].status = "closed"]
<1>1. StoreOk(p) /\ Forward(d, p) /\ p.orders = d.orders
  BY PaymentKeeps DEF PayStatus
<1> HIDE DEF p
<1>2. StoreOk(e) /\ Forward(p, e)
  BY <1>1, ClosedKeeps
<1> HIDE DEF e
<1>3. StoreOk(e) /\ Forward(d, e)
  BY <1>1, <1>2, ForwardTransitive
<1> QED
  BY <1>3 DEF e, p, TerminalPayment

\* A pending order becomes paid, with its payment row and its entitlement x.
Paid(d, o, t, x) ==
    [d EXCEPT !.pays[o]["transaction"] = "succeeded", !.ents[o] = x,
              !.orders[o].status = "paid", !.orders[o].paidAt = t]

LEMMA PaidKeeps ==
    ASSUME NEW d, StoreOk(d), NEW o \in Orders, NEW t \in Nat, NEW x,
           d.orders[o].status = "pending"
    PROVE  LET e == Paid(d, o, t, x)
           IN  /\ StoreOk(e) /\ Forward(d, e) /\ e.coupons = d.coupons
               /\ e.rewards = d.rewards /\ e.bindings = d.bindings
               /\ e.orders[o].status = "paid" /\ e.orders[o].coupon = d.orders[o].coupon
               /\ e.orders[o].kind = d.orders[o].kind /\ e.orders[o].user = d.orders[o].user
<1> DEFINE r == [d.orders[o] EXCEPT !.status = "paid", !.paidAt = t]
           a == [d EXCEPT !.pays[o]["transaction"] = "succeeded"]
           b == [a EXCEPT !.ents[o] = x]
           e == [b EXCEPT !.orders[o] = r]
<1>1. StoreOk(a) /\ a.orders = d.orders /\ a.coupons = d.coupons /\ a.pays[o]["transaction"] = "succeeded"
  BY PaymentKeeps DEF PayStatus, Trades
<1>2. a.rewards = d.rewards /\ a.bindings = d.bindings
  BY PaymentReplaced DEF PayStatus, Trades, StoreOk
<1>3. r \in OrderRow /\ r.status = "paid" /\ r.user = d.orders[o].user
      /\ r.coupon = d.orders[o].coupon /\ r.kind = d.orders[o].kind
  BY ZenonT(40), Rows DEF StoreOk, OrderRow, OrderStatus
<1> HIDE DEF r, a
<1>4. StoreType(b) /\ b.orders = a.orders /\ b.coupons = a.coupons /\ b.pays = a.pays
      /\ b.bindings = a.bindings /\ b.rewards = a.rewards
  BY <1>1 DEF StoreOk, StoreType
<1> HIDE DEF b
<1>5. /\ StoreType(e) /\ e.coupons = b.coupons /\ e.pays = b.pays
      /\ e.bindings = b.bindings /\ e.rewards = b.rewards
      /\ e.orders[o] = r /\ \A q \in Orders \ {o} : e.orders[q] = b.orders[q]
  BY <1>3, <1>4, OrderReplaced
<1> HIDE DEF e
<1>6. Forward(d, e)
  BY <1>1, <1>3, <1>4, <1>5 DEF Forward, Settled, Dead
<1>7. OrdersOk(e)
  BY <1>1, <1>3, <1>4, <1>5 DEF StoreOk, OrdersOk, Settled
<1>8. CouponsOk(e)
  <2>1. CouponsOk(a)
    BY <1>1 DEF StoreOk
  <2> QED
    BY <1>1, <1>3, <1>4, <1>5, <2>1, CouponsStay
<1>9. ASSUME NEW v \in Users PROVE RewardOk(e, v)
  <2>1. RewardOk(a, v)
    BY Zenon, <1>1 DEF StoreOk, RewardsOk
  <2> QED
    BY SMTT(40), <1>1, <1>3, <1>4, <1>5, <2>1, RewardStays DEF Settled
<1>10. StoreOk(e)
  BY <1>5, <1>7, <1>8, <1>9 DEF StoreOk, RewardsOk
<1>11. e = Paid(d, o, t, x)
  <2>1. d \in [orders: {d.orders}, ents: {d.ents}, coupons: {d.coupons}, pays: {d.pays},
               bindings: {d.bindings}, rewards: {d.rewards}]
    BY DEF StoreOk, StoreType
  <2>2. d.orders \in [Orders -> OrderRow]
    BY DEF StoreOk, StoreType
  <2> QED
    BY ZenonT(40), <2>1, <2>2 DEF e, b, a, r, Paid
<1> QED
  BY <1>1, <1>2, <1>3, <1>4, <1>5, <1>6, <1>10, <1>11

-----------------------------------------------------------------------------
(* Coupons. *)

\* Rows that differ from those of a store in the row of one coupon.
LEMMA CouponReplaced ==
    ASSUME NEW d, StoreType(d), NEW c \in Coupons, NEW k \in CouponRow
    PROVE  LET e == [d EXCEPT !.coupons[c] = k]
           IN  /\ StoreType(e) /\ e.orders = d.orders /\ e.pays = d.pays
               /\ e.bindings = d.bindings /\ e.rewards = d.rewards
               /\ e.coupons[c] = k /\ \A q \in Coupons \ {c} : e.coupons[q] = d.coupons[q]
<1> DEFINE X == [d.coupons EXCEPT ![c] = k]
           e == [d EXCEPT !.coupons = X]
<1>1. X \in [Coupons -> CouponRow] /\ X[c] = k /\ \A q \in Coupons \ {c} : X[q] = d.coupons[q]
  BY DEF StoreType
<1> HIDE DEF X
<1>2. StoreType(e) /\ e.coupons = X /\ e.orders = d.orders /\ e.pays = d.pays
      /\ e.bindings = d.bindings /\ e.rewards = d.rewards
  BY <1>1 DEF StoreType
<1>3. e = [d EXCEPT !.coupons[c] = k]
  BY DEF X
<1> HIDE DEF e
<1> QED
  BY <1>1, <1>2, <1>3

\* A paid order takes its coupon, which is available.
LEMMA SpentKeeps ==
    ASSUME NEW d, StoreOk(d), NEW o \in Orders, d.orders[o].status = "paid",
           d.orders[o].coupon # None => d.coupons[d.orders[o].coupon].status = "available"
    PROVE  /\ StoreOk(CouponSpent(d, o)) /\ Forward(d, CouponSpent(d, o))
           /\ CouponSpent(d, o).orders = d.orders
<1>1. CASE d.orders[o].coupon = None
  BY <1>1 DEF CouponSpent, Forward
<1>2. CASE d.orders[o].coupon # None
  <2> DEFINE c == d.orders[o].coupon
             k == [d.coupons[c] EXCEPT !.status = "used", !.usedBy = o]
             e == CouponSpent(d, o)
  <2>1. c \in Coupons /\ d.coupons[c] \in CouponRow /\ d.coupons[c].status = "available"
    BY <1>2, Rows DEF StoreOk, OrderRow
  <2>2. k \in CouponRow /\ k.status = "used" /\ k.usedBy = o
    BY <2>1 DEF CouponRow
  <2>3. e = [d EXCEPT !.coupons[c] = k]
    BY <1>2, <2>1 DEF CouponSpent, StoreOk, StoreType
  <2>4. d.orders[o].coupon = c
    OBVIOUS
  <2> HIDE DEF k, e, c
  <2>5. /\ StoreType(e) /\ e.orders = d.orders /\ e.pays = d.pays
        /\ e.bindings = d.bindings /\ e.rewards = d.rewards
        /\ e.coupons[c] = k /\ \A q \in Coupons \ {c} : e.coupons[q] = d.coupons[q]
    BY <2>1, <2>2, <2>3, CouponReplaced DEF StoreOk
  <2>6. Forward(d, e) /\ OrdersOk(e)
    BY <2>5 DEF Forward, StoreOk, OrdersOk
  <2>7. CouponsOk(e)
    BY SMTT(40), <2>2, <2>4, <2>5 DEF StoreOk, CouponsOk
  <2>8. ASSUME NEW v \in Users PROVE RewardOk(e, v)
    <3>1. RewardOk(d, v)
      BY Zenon DEF StoreOk, RewardsOk
    <3> QED
      BY SMTT(40), <2>1, <2>2, <2>5, <3>1, RewardStays
  <2>9. StoreOk(e)
    BY <2>5, <2>6, <2>7, <2>8 DEF StoreOk, RewardsOk
  <2> QED
    BY <2>5, <2>6, <2>9 DEF e
<1> QED
  BY <1>1, <1>2

\* A coupon row that was free gets a coupon for its user.
LEMMA GrantKeeps ==
    ASSUME NEW d, StoreOk(d), FreeCoupons(d) # {}, NEW k \in CouponRow, k.status = "available"
    PROVE  LET c == NewCoupon(d)
               e == [d EXCEPT !.coupons[c] = k]
           IN  /\ StoreOk(e) /\ Forward(d, e) /\ c \in Coupons
               /\ d.coupons[c].status = "none" /\ e.coupons[c] = k
               /\ e.orders = d.orders /\ e.bindings = d.bindings /\ e.rewards = d.rewards
<1> DEFINE c == NewCoupon(d)
           e == [d EXCEPT !.coupons[c] = k]
<1>1. c \in Coupons /\ d.coupons[c].status = "none"
  BY DEF NewCoupon, FreeCoupons
<1> HIDE DEF c
<1>2. /\ StoreType(e) /\ e.orders = d.orders /\ e.pays = d.pays
      /\ e.bindings = d.bindings /\ e.rewards = d.rewards
      /\ e.coupons[c] = k /\ \A q \in Coupons \ {c} : e.coupons[q] = d.coupons[q]
  BY <1>1, CouponReplaced DEF StoreOk
<1> HIDE DEF e
<1>3. Forward(d, e) /\ OrdersOk(e)
  BY <1>2 DEF Forward, StoreOk, OrdersOk
<1>4. CouponsOk(e)
  BY SMTT(40), <1>2 DEF StoreOk, CouponsOk
<1>5. ASSUME NEW v \in Users PROVE RewardOk(e, v)
  <2>1. RewardOk(d, v)
    BY Zenon DEF StoreOk, RewardsOk
  <2> QED
    BY SMTT(40), <1>1, <1>2, <2>1, RewardStays
<1>6. StoreOk(e)
  BY <1>2, <1>3, <1>4, <1>5 DEF StoreOk, RewardsOk
<1> QED
  BY <1>1, <1>2, <1>3, <1>6 DEF e, c

\* One user's reward and binding change together.
Rewarded(d, u, r, b) ==
    [d EXCEPT !.rewards = [d.rewards EXCEPT ![u] = r], !.bindings = [d.bindings EXCEPT ![u] = b]]

\* Rows that differ from those of a store in the reward and the binding of one user.
LEMMA RewardReplaced ==
    ASSUME NEW d, StoreType(d), NEW u \in Users, NEW r \in RewardRow, NEW b \in BindingRow
    PROVE  LET e == Rewarded(d, u, r, b)
           IN  /\ StoreType(e) /\ e.orders = d.orders /\ e.pays = d.pays /\ e.coupons = d.coupons
               /\ e.rewards[u] = r /\ e.bindings[u] = b
               /\ \A v \in Users \ {u} : e.rewards[v] = d.rewards[v] /\ e.bindings[v] = d.bindings[v]
<1> DEFINE X == [d.rewards EXCEPT ![u] = r]
           Y == [d.bindings EXCEPT ![u] = b]
           e == Rewarded(d, u, r, b)
<1>1. X \in [Users -> RewardRow] /\ X[u] = r /\ \A v \in Users \ {u} : X[v] = d.rewards[v]
  BY DEF StoreType
<1>2. Y \in [Users -> BindingRow] /\ Y[u] = b /\ \A v \in Users \ {u} : Y[v] = d.bindings[v]
  BY DEF StoreType
<1>3. e = [d EXCEPT !.rewards = X, !.bindings = Y]
  BY DEF Rewarded
<1> HIDE DEF X, Y, e
<1>4. StoreType(e) /\ e.rewards = X /\ e.bindings = Y /\ e.orders = d.orders /\ e.pays = d.pays
      /\ e.coupons = d.coupons
  BY <1>1, <1>2, <1>3 DEF StoreType
<1> QED
  BY <1>1, <1>2, <1>4 DEF e

\* The first purchase of an invited user earns the inviter a coupon.
LEMMA WithRewardKeeps ==
    ASSUME NEW d, StoreOk(d), NEW o \in Orders, d.orders[o].status = "paid", NEW t \in Nat,
           EarnsReward(d, d.orders[o]) => FreeCoupons(d) # {}
    PROVE  StoreOk(WithReward(d, o, t)) /\ Forward(d, WithReward(d, o, t))
<1>1. CASE ~EarnsReward(d, d.orders[o])
  BY <1>1 DEF WithReward, Forward
<1>2. CASE EarnsReward(d, d.orders[o])
  <2> DEFINE u == d.orders[o].user
             c == NewCoupon(d)
             k == [status |-> "available", user |-> d.bindings[u].inviter, usedBy |-> None,
                   min |-> INVITE_REWARD_COUPON_MIN_SPEND_CENT, until |-> t + Period]
             r == [status |-> "issued", order |-> o, coupon |-> c]
             b == [d.bindings[u] EXCEPT !.status = "rewarded", !.order = o]
             a == [d EXCEPT !.coupons[c] = k]
             e == Rewarded(a, u, r, b)
             x == WithReward(d, o, t)
  <2>1. u \in Users /\ d.bindings[u] \in BindingRow
    BY Rows DEF StoreOk, OrdersOk
  <2>2. k \in CouponRow /\ k.status = "available"
    <3>1. t + Period \in Nat
      BY TimeAssumption
    <3> QED
      BY <2>1, <3>1 DEF CouponRow, BindingRow, INVITE_REWARD_COUPON_MIN_SPEND_CENT
  <2>3. FreeCoupons(d) # {} /\ d.rewards[u].status = "none" /\ d.orders[o].kind = "first_purchase"
    BY <1>2 DEF EarnsReward
  <2>4. x = [d EXCEPT !.coupons[c] = k, !.rewards[u] = r, !.bindings[u].status = "rewarded",
                      !.bindings[u].order = o]
    BY <1>2 DEF WithReward
  <2>5. x = e
    <3>1. [d.bindings EXCEPT ![u].status = "rewarded", ![u].order = o] = [d.bindings EXCEPT ![u] = b]
      BY <2>1 DEF StoreOk, StoreType
    <3> HIDE DEF b, r, k, c, u
    <3>2. d \in [orders: {d.orders}, ents: {d.ents}, coupons: {d.coupons}, pays: {d.pays},
                 bindings: {d.bindings}, rewards: {d.rewards}]
      BY DEF StoreOk, StoreType
    <3>3. x = [d EXCEPT !.coupons = [d.coupons EXCEPT ![c] = k], !.rewards = [d.rewards EXCEPT ![u] = r],
                  !.bindings = [d.bindings EXCEPT ![u].status = "rewarded", ![u].order = o]]
      BY <2>4, <3>2
    <3>4. e = [d EXCEPT !.coupons = [d.coupons EXCEPT ![c] = k], !.rewards = [d.rewards EXCEPT ![u] = r],
                  !.bindings = [d.bindings EXCEPT ![u] = b]]
      BY <3>2 DEF Rewarded
    <3> QED
      BY <3>1, <3>3, <3>4
  <2>6. c \in Coupons /\ StoreOk(a) /\ Forward(d, a) /\ a.coupons[c] = k /\ a.orders = d.orders
        /\ a.bindings = d.bindings /\ a.rewards = d.rewards
    BY <2>2, <2>3, GrantKeeps
  <2>7. r \in RewardRow /\ b \in BindingRow /\ b.status = "rewarded" /\ b.order = o
    BY <2>1, <2>6 DEF RewardRow, BindingRow
  <2>8. r.status = "issued" /\ r.order = o /\ r.coupon = c
    OBVIOUS
  <2>9. d.orders[o].user = u
    OBVIOUS
  <2> HIDE DEF k, r, b, a, u, c, x
  <2>10. /\ StoreType(e) /\ e.orders = a.orders /\ e.pays = a.pays /\ e.coupons = a.coupons
         /\ e.rewards[u] = r /\ e.bindings[u] = b
         /\ \A v \in Users \ {u} : e.rewards[v] = a.rewards[v] /\ e.bindings[v] = a.bindings[v]
    BY <2>1, <2>6, <2>7, RewardReplaced DEF StoreOk
  <2> HIDE DEF e
  <2>11. Forward(d, e) /\ OrdersOk(e) /\ CouponsOk(e)
    <3>1. Forward(d, e)
      BY <2>6, <2>10 DEF Forward
    <3>2. OrdersOk(e)
      BY <2>6, <2>10 DEF StoreOk, OrdersOk
    <3>3. CouponsOk(e)
      BY <2>6, <2>10 DEF StoreOk, CouponsOk
    <3> QED
      BY <3>1, <3>2, <3>3
  <2>12. RewardOk(e, u)
    BY SMTT(40), <2>2, <2>3, <2>6, <2>7, <2>8, <2>9, <2>10 DEF RewardOk, Settled
  <2>13. ASSUME NEW v \in Users, v # u PROVE RewardOk(e, v)
    <3>1. RewardOk(a, v)
      BY Zenon, <2>6 DEF StoreOk, RewardsOk
    <3> QED
      BY SMTT(40), <2>6, <2>10, <2>13, <3>1, RewardStays
  <2>14. StoreOk(e)
    BY <2>10, <2>11, <2>12, <2>13 DEF StoreOk, RewardsOk
  <2> QED
    BY <2>5, <2>11, <2>14 DEF x
<1> QED
  BY <1>1, <1>2

LEMMA ConfirmedKeeps ==
    ASSUME NEW d, StoreOk(d), NEW o \in Orders, NEW t \in Nat, Confirmable(d, o), RewardFits(d, o)
    PROVE  StoreOk(Confirmed(d, o, t)) /\ Forward(d, Confirmed(d, o, t))
<1> DEFINE start == ChainStart(d, d.orders[o].user, t)
           x == [status |-> "active", start |-> start, end |-> start + Period]
           paid == Paid(d, o, t, x)
           spent == CouponSpent(paid, o)
           e == WithReward(spent, o, t)
<1>1. d.orders[o].status = "pending" /\ d.orders[o] \in OrderRow
  BY Rows DEF Confirmable, StoreOk
<1>3. e = Confirmed(d, o, t)
  BY DEF Confirmed, Paid
<1> HIDE DEF x
<1>2. /\ StoreOk(paid) /\ Forward(d, paid) /\ paid.coupons = d.coupons
      /\ paid.rewards = d.rewards /\ paid.bindings = d.bindings
      /\ paid.orders[o].status = "paid" /\ paid.orders[o].coupon = d.orders[o].coupon
      /\ paid.orders[o].kind = d.orders[o].kind /\ paid.orders[o].user = d.orders[o].user
  BY <1>1, PaidKeeps
<1> HIDE DEF paid
<1>5. paid.orders[o].coupon # None => paid.coupons[paid.orders[o].coupon].status = "available"
  BY <1>2 DEF Confirmable, CouponHolds
<1>6. StoreOk(spent) /\ Forward(paid, spent) /\ spent.orders = paid.orders
  BY <1>2, <1>5, SpentKeeps
<1>7. spent.rewards = d.rewards /\ spent.bindings = d.bindings
      /\ \A c \in Coupons : d.coupons[c].status = "none" => spent.coupons[c].status = "none"
  <2>1. CASE paid.orders[o].coupon = None
    BY <1>2, <2>1 DEF CouponSpent
  <2>2. CASE paid.orders[o].coupon # None
    <3> DEFINE c == paid.orders[o].coupon
               k == [paid.coupons[c] EXCEPT !.status = "used", !.usedBy = o]
    <3>1. c \in Coupons /\ paid.coupons[c] \in CouponRow /\ paid.coupons[c].status = "available"
      BY <1>1, <1>2, <1>5, <2>2, Rows DEF StoreOk, OrderRow
    <3>2. k \in CouponRow
      BY <3>1 DEF CouponRow
    <3>3. spent = [paid EXCEPT !.coupons[c] = k]
      BY <1>2, <2>2, <3>1 DEF CouponSpent, StoreOk, StoreType
    <3> HIDE DEF k, c
    <3>4. /\ spent.rewards = paid.rewards /\ spent.bindings = paid.bindings
          /\ \A q \in Coupons \ {c} : spent.coupons[q] = paid.coupons[q]
      BY <1>2, <3>1, <3>2, <3>3, CouponReplaced DEF StoreOk
    <3> QED
      BY <1>2, <3>1, <3>4
  <2> QED
    BY <2>1, <2>2
<1> HIDE DEF spent
<1>8. EarnsReward(spent, spent.orders[o]) => FreeCoupons(spent) # {}
  BY <1>2, <1>6, <1>7 DEF RewardFits, EarnsReward, FreeCoupons
<1>9. StoreOk(e) /\ Forward(spent, e)
  BY <1>2, <1>6, <1>8, WithRewardKeeps
<1> HIDE DEF e
<1>10. Forward(d, e)
  BY <1>2, <1>6, <1>9, ForwardTransitive
<1> QED
  BY <1>3, <1>9, <1>10

-----------------------------------------------------------------------------
(* Refunds. *)

\* The order's coupon goes back to its owner.
LEMMA RestoredKeeps ==
    ASSUME NEW d, StoreOk(d), NEW o \in Orders
    PROVE  LET e == CouponRestored(d, o)
           IN  /\ StoreOk(e) /\ Forward(d, e) /\ e.orders = d.orders
               /\ \A c \in Coupons : e.coupons[c].status = "used" => e.coupons[c].usedBy # o
<1> DEFINE c == d.orders[o].coupon
           e == CouponRestored(d, o)
<1>0. d.orders[o].coupon = c
  OBVIOUS
<1>1. CASE ~(c # None /\ d.coupons[c].status = "used" /\ d.coupons[c].usedBy = o)
  <2>1. e = d
    BY <1>1 DEF CouponRestored
  <2>2. \A q \in Coupons : d.coupons[q].status = "used" => d.coupons[q].usedBy # o
    <3> SUFFICES ASSUME NEW q \in Coupons, d.coupons[q].status = "used", d.coupons[q].usedBy = o
                 PROVE  FALSE
      OBVIOUS
    <3>1. d.orders[o].coupon = q
      BY Zenon DEF StoreOk, CouponsOk
    <3> QED
      BY Zenon, <1>1, <3>1, NoneAssumption
  <2>3. Forward(d, d)
    BY DEF Forward
  <2> HIDE DEF e
  <2>4. StoreOk(e) /\ Forward(d, e) /\ e.orders = d.orders
        /\ \A q \in Coupons : e.coupons[q].status = "used" => e.coupons[q].usedBy # o
    BY <2>1, <2>2, <2>3
  <2> QED
    BY <2>4 DEF e
<1>2. CASE c # None /\ d.coupons[c].status = "used" /\ d.coupons[c].usedBy = o
  <2> DEFINE s == IF d.coupons[c].until <= now THEN "expired" ELSE "available"
             k == [d.coupons[c] EXCEPT !.status = s, !.usedBy = None]
  <2>1. c \in Coupons /\ d.coupons[c] \in CouponRow
    BY SMTT(40), <1>2, Rows DEF StoreOk, OrderRow
  <2>2. k \in CouponRow /\ k.status \in {"available", "expired"}
    BY <2>1 DEF CouponRow
  <2>3. e = [d EXCEPT !.coupons[c] = k]
    <3>1. e = [d EXCEPT !.coupons[c].status = s, !.coupons[c].usedBy = None]
      BY <1>2 DEF CouponRestored
    <3> HIDE DEF s
    <3> QED
      BY <2>1, <3>1 DEF StoreOk, StoreType
  <2> HIDE DEF k, s, e, c
  <2>4. /\ StoreType(e) /\ e.orders = d.orders /\ e.pays = d.pays
        /\ e.bindings = d.bindings /\ e.rewards = d.rewards
        /\ e.coupons[c] = k /\ \A q \in Coupons \ {c} : e.coupons[q] = d.coupons[q]
    BY <2>1, <2>2, <2>3, CouponReplaced DEF StoreOk
  <2>5. Forward(d, e) /\ OrdersOk(e)
    BY <2>4 DEF Forward, StoreOk, OrdersOk
  <2>6. CouponsOk(e)
    BY <2>2, <2>4 DEF StoreOk, CouponsOk
  <2>7. \A q \in Coupons : e.coupons[q].status = "used" => e.coupons[q].usedBy # o
    BY SMTT(40), <1>0, <2>2, <2>4 DEF StoreOk, CouponsOk
  <2>8. ASSUME NEW v \in Users PROVE RewardOk(e, v)
    <3>1. RewardOk(d, v)
      BY Zenon DEF StoreOk, RewardsOk
    <3> QED
      BY SMTT(40), <1>2, <2>1, <2>2, <2>4, <3>1, RewardStays
  <2>9. StoreOk(e)
    BY <2>4, <2>5, <2>6, <2>8 DEF StoreOk, RewardsOk
  <2> QED
    BY <2>4, <2>5, <2>7, <2>9 DEF e
<1> QED
  BY <1>1, <1>2

\* The reward the order earned is revoked, with its coupon.
LEMMA RolledBackKeeps ==
    ASSUME NEW d, StoreOk(d), NEW o \in Orders, d.orders[o].status \in {"paid", "refund_pending"},
           ~RewardIsUsed(d, o)
    PROVE  LET e == RewardRolledBack(d, o)
           IN  /\ StoreOk(e) /\ Forward(d, e) /\ e.orders = d.orders /\ e.pays = d.pays
               /\ \A c \in Coupons : e.coupons[c].status = "used" =>
                     d.coupons[c].status = "used" /\ e.coupons[c].usedBy = d.coupons[c].usedBy
               /\ \A u \in Users : e.rewards[u].status # "none" /\ e.rewards[u].order = o =>
                                   e.rewards[u].status = "revoked"
<1> DEFINE e == RewardRolledBack(d, o)
           u == d.orders[o].user
           c == d.rewards[u].coupon
<1>1. u \in Users /\ d.rewards[u] \in RewardRow /\ d.bindings[u] \in BindingRow
  BY Rows DEF StoreOk, OrdersOk
<1>2. CASE ~TriggeredReward(d, o)
  <2>1. e = d
    BY Zenon, <1>2 DEF RewardRolledBack
  <2>2. \A v \in Users : ~(d.rewards[v].status # "none" /\ d.rewards[v].order = o)
    <3> SUFFICES ASSUME NEW v \in Users, d.rewards[v].status # "none", d.rewards[v].order = o
                 PROVE  FALSE
      OBVIOUS
    <3>1. RewardOk(d, v)
      BY Zenon DEF StoreOk, RewardsOk
    <3>2. d.orders[o].user = v /\ d.orders[o].kind = "first_purchase"
      BY Zenon, <3>1 DEF RewardOk
    <3> QED
      BY Zenon, <1>2, <3>2 DEF TriggeredReward
  <2>3. Forward(d, d)
    BY DEF Forward
  <2> QED
    BY <2>1, <2>2, <2>3
<1>3. CASE TriggeredReward(d, o)
  <2> DEFINE s == IF d.coupons[c].status = "available" THEN "revoked" ELSE d.coupons[c].status
             k == [d.coupons[c] EXCEPT !.status = s]
             r == [d.rewards[u] EXCEPT !.status = "revoked"]
             b == IF d.bindings[u].order = o
                  THEN [d.bindings[u] EXCEPT !.status = "bound", !.order = None]
                  ELSE d.bindings[u]
             a == [d EXCEPT !.coupons[c] = k]
             f == Rewarded(a, u, r, b)
  <2>1. /\ d.rewards[u].status # "none" /\ d.rewards[u].order = o /\ c \in Coupons
        /\ d.coupons[c].status \in {"available", "expired", "revoked"}
        /\ d.coupons[c] \in CouponRow
    <3>1. d.rewards[u].status # "none" /\ d.rewards[u].order = o
      BY SMTT(40), <1>3 DEF TriggeredReward
    <3>2. c \in Coupons /\ d.coupons[c].status # "none" /\ d.coupons[c] \in CouponRow
      <4>1. RewardOk(d, u)
        BY Zenon, <1>1 DEF StoreOk, RewardsOk
      <4>2. c \in Coupons /\ d.coupons[c].status # "none"
        BY Zenon, <3>1, <4>1 DEF RewardOk
      <4> QED
        BY Zenon, <4>2, Rows DEF StoreOk
    <3>3. d.coupons[c].status # "used"
      BY Zenon, <1>3 DEF RewardIsUsed
    <3> QED
      BY ZenonT(40), <3>1, <3>2, <3>3 DEF CouponRow
  <2>2. s \in {"expired", "revoked"} /\ (s # d.coupons[c].status => d.coupons[c].status = "available")
    BY ZenonT(40), <2>1
  <2>3. e = [d EXCEPT !.coupons[c].status = s, !.rewards[u].status = "revoked", !.bindings[u] = b]
    BY Zenon, <1>3 DEF RewardRolledBack
  <2> HIDE DEF s
  <2>4. k \in CouponRow /\ k.status = s /\ k.usedBy = d.coupons[c].usedBy
    BY ZenonT(40), <2>1, <2>2 DEF CouponRow
  <2>5. r \in RewardRow /\ r.status = "revoked" /\ r.order = o /\ r.coupon = c
    BY ZenonT(40), <1>1, <2>1 DEF RewardRow
  <2>6. b \in BindingRow /\ b.status = "bound"
    <3>1. d.bindings[u].status = "rewarded" => d.bindings[u].order = o
      BY ZenonT(40), <1>1, <2>1 DEF StoreOk, RewardsOk, RewardOk
    <3> QED
      BY ZenonT(40), <1>1, <3>1 DEF BindingRow
  <2>7. e = f
    <3>1. d \in [orders: {d.orders}, ents: {d.ents}, coupons: {d.coupons}, pays: {d.pays},
                 bindings: {d.bindings}, rewards: {d.rewards}]
      BY DEF StoreOk, StoreType
    <3>2. [d.coupons EXCEPT ![c].status = s] = [d.coupons EXCEPT ![c] = k]
      BY DEF k
    <3>3. [d.rewards EXCEPT ![u].status = "revoked"] = [d.rewards EXCEPT ![u] = r]
      BY DEF r
    <3> HIDE DEF k, r, b, c, u
    <3>4. e = [d EXCEPT !.coupons = [d.coupons EXCEPT ![c].status = s],
                        !.rewards = [d.rewards EXCEPT ![u].status = "revoked"],
                        !.bindings = [d.bindings EXCEPT ![u] = b]]
      BY <2>3, <3>1
    <3>5. f = [d EXCEPT !.coupons = [d.coupons EXCEPT ![c] = k],
                        !.rewards = [d.rewards EXCEPT ![u] = r],
                        !.bindings = [d.bindings EXCEPT ![u] = b]]
      BY <3>1 DEF Rewarded
    <3> QED
      BY <3>2, <3>3, <3>4, <3>5
  <2>8. d.orders[o].user = u /\ d.rewards[u].coupon = c
    OBVIOUS
  <2> HIDE DEF k, r, b, c, u, e
  <2>9. /\ StoreType(a) /\ a.orders = d.orders /\ a.pays = d.pays
        /\ a.bindings = d.bindings /\ a.rewards = d.rewards
        /\ a.coupons[c] = k /\ \A q \in Coupons \ {c} : a.coupons[q] = d.coupons[q]
    BY <2>1, <2>4, CouponReplaced DEF StoreOk
  <2> HIDE DEF a
  <2>10. /\ StoreType(f) /\ f.orders = a.orders /\ f.pays = a.pays /\ f.coupons = a.coupons
         /\ f.rewards[u] = r /\ f.bindings[u] = b
         /\ \A v \in Users \ {u} : f.rewards[v] = a.rewards[v] /\ f.bindings[v] = a.bindings[v]
    BY SMTT(40), <1>1, <2>5, <2>6, <2>9, RewardReplaced
  <2> HIDE DEF f
  <2>11. Forward(d, f) /\ OrdersOk(f)
    BY <2>9, <2>10 DEF Forward, StoreOk, OrdersOk
  <2>12. \A q \in Coupons : f.coupons[q].status = "used" =>
            d.coupons[q].status = "used" /\ f.coupons[q].usedBy = d.coupons[q].usedBy
    BY <2>2, <2>4, <2>9, <2>10
  <2>13. CouponsOk(f)
    BY <2>9, <2>10, <2>12 DEF StoreOk, CouponsOk
  <2>14. RewardOk(f, u)
    <3>1. /\ d.orders[o].user = u /\ d.orders[o].kind = "first_purchase"
          /\ d.orders[o].status \in Settled
      <4>1. RewardOk(d, u)
        BY Zenon, <1>1 DEF StoreOk, RewardsOk
      <4> QED
        BY Zenon, <2>1, <2>8, <4>1 DEF RewardOk
    <3> QED
      BY <2>1, <2>2, <2>4, <2>5, <2>6, <2>9, <2>10, <3>1 DEF RewardOk
  <2>15. ASSUME NEW v \in Users, v # u PROVE RewardOk(f, v)
    <3>1. RewardOk(d, v)
      BY Zenon DEF StoreOk, RewardsOk
    <3> QED
      BY SMTT(40), <2>1, <2>2, <2>4, <2>9, <2>10, <2>15, <3>1, RewardStays
  <2>16. StoreOk(f)
    BY <2>10, <2>11, <2>13, <2>14, <2>15 DEF StoreOk, RewardsOk
  <2>17. ASSUME NEW v \in Users, f.rewards[v].status # "none", f.rewards[v].order = o
         PROVE  f.rewards[v].status = "revoked"
    <3>1. v = u
      <4>1. RewardOk(f, v)
        BY Zenon, <2>16 DEF StoreOk, RewardsOk
      <4> QED
        BY Zenon, <2>8, <2>9, <2>10, <2>17, <4>1 DEF RewardOk
    <3> QED
      BY <2>5, <2>10, <3>1
  <2>18. /\ StoreOk(e) /\ Forward(d, e) /\ e.orders = d.orders /\ e.pays = d.pays
         /\ \A q \in Coupons : e.coupons[q].status = "used" =>
               d.coupons[q].status = "used" /\ e.coupons[q].usedBy = d.coupons[q].usedBy
         /\ \A v \in Users : e.rewards[v].status # "none" /\ e.rewards[v].order = o =>
                             e.rewards[v].status = "revoked"
    BY <2>7, <2>9, <2>10, <2>11, <2>12, <2>16, <2>17
  <2> QED
    BY SMTT(40), <2>18 DEF e
<1> QED
  BY <1>2, <1>3

\* Entitlements alone are laid out again.
LEMMA RebuildKeeps ==
    ASSUME NEW d, StoreOk(d), NEW u
    PROVE  StoreOk(Rebuild(d, u)) /\ Forward(d, Rebuild(d, u))
<1> DEFINE e == Rebuild(d, u)
<1>1. \A x : [d EXCEPT !.ents = x].orders = d.orders /\ StoreOk([d EXCEPT !.ents = x])
  <2> TAKE x
  <2> DEFINE f == [d EXCEPT !.ents = x]
  <2>1. StoreType(f) /\ f.orders = d.orders /\ f.coupons = d.coupons /\ f.pays = d.pays
        /\ f.bindings = d.bindings /\ f.rewards = d.rewards
    BY SMTT(40) DEF StoreOk, StoreType
  <2> HIDE DEF f
  <2>2. StoreOk(f) /\ f.orders = d.orders
    <3>1. OrdersOk(f) /\ CouponsOk(f)
      BY <2>1 DEF StoreOk, OrdersOk, CouponsOk
    <3>2. ASSUME NEW v \in Users PROVE RewardOk(f, v)
      <4>1. RewardOk(d, v)
        BY Zenon DEF StoreOk, RewardsOk
      <4> QED
        BY <2>1, <4>1, RewardStays
    <3> QED
      BY <2>1, <3>1, <3>2 DEF StoreOk, RewardsOk
  <2> QED
    BY <2>2 DEF f
<1>2. PICK x : e = [d EXCEPT !.ents = x]
  BY DEF Rebuild
<1> HIDE DEF e
<1>3. StoreOk(e) /\ Forward(d, e)
  BY <1>1, <1>2 DEF Forward
<1> QED
  BY <1>3 DEF e

\* The payments of one order get another status.
LEMMA PaymentsReplaced ==
    ASSUME NEW d, StoreType(d), NEW o \in Orders, NEW Y \in [Trades -> PayStatus]
    PROVE  LET e == [d EXCEPT !.pays[o] = Y]
           IN  /\ StoreType(e) /\ e.orders = d.orders /\ e.coupons = d.coupons
               /\ e.bindings = d.bindings /\ e.rewards = d.rewards
               /\ e.pays[o] = Y /\ \A p \in Orders \ {o} : e.pays[p] = d.pays[p]
<1> DEFINE X == [d.pays EXCEPT ![o] = Y]
           e == [d EXCEPT !.pays = X]
<1>1. X \in [Orders -> [Trades -> PayStatus]] /\ X[o] = Y /\ \A p \in Orders \ {o} : X[p] = d.pays[p]
  BY DEF StoreType
<1> HIDE DEF X
<1>2. StoreType(e) /\ e.orders = d.orders /\ e.coupons = d.coupons
      /\ e.bindings = d.bindings /\ e.rewards = d.rewards /\ e.pays = X
  BY <1>1 DEF StoreType
<1>3. e = [d EXCEPT !.pays[o] = Y]
  BY DEF X
<1> HIDE DEF e
<1> QED
  BY <1>1, <1>2, <1>3

\* The store of a refund before the user's periods are laid out again.
Repaid(d, o) ==
    LET b == RewardRolledBack(CouponRestored(d, o), o) IN
    [b EXCEPT !.pays[o] = [t \in Trades |-> IF b.pays[o][t] = "none" THEN "none" ELSE "refunded"],
              !.orders[o].status = "refunded"]

LEMMA RepaidKeeps ==
    ASSUME NEW d, StoreOk(d), NEW o \in Orders, Refundable(d, o)
    PROVE  StoreOk(Repaid(d, o)) /\ Forward(d, Repaid(d, o))
<1> DEFINE a == CouponRestored(d, o)
           b == RewardRolledBack(a, o)
           Y == [t \in Trades |-> IF b.pays[o][t] = "none" THEN "none" ELSE "refunded"]
           p == [b EXCEPT !.pays[o] = Y]
           r == [p.orders[o] EXCEPT !.status = "refunded"]
           s == [p EXCEPT !.orders[o] = r]
<1>1. d.orders[o].status \in {"paid", "refund_pending"} /\ ~RewardIsUsed(a, o)
  BY DEF Refundable
<1>2. /\ StoreOk(a) /\ Forward(d, a) /\ a.orders = d.orders
      /\ \A c \in Coupons : a.coupons[c].status = "used" => a.coupons[c].usedBy # o
  BY RestoredKeeps
<1>3. Repaid(d, o) = [b EXCEPT !.pays[o] = Y, !.orders[o].status = "refunded"]
  BY DEF Repaid
<1> HIDE DEF a
<1>4. /\ StoreOk(b) /\ Forward(a, b) /\ b.orders = a.orders /\ b.pays = a.pays
      /\ \A c \in Coupons : b.coupons[c].status = "used" =>
            a.coupons[c].status = "used" /\ b.coupons[c].usedBy = a.coupons[c].usedBy
      /\ \A v \in Users : b.rewards[v].status # "none" /\ b.rewards[v].order = o =>
                          b.rewards[v].status = "revoked"
  BY <1>1, <1>2, RolledBackKeeps
<1> HIDE DEF b
<1>5. Y \in [Trades -> PayStatus] /\ (b.pays[o]["transaction"] # "none" => Y["transaction"] # "none")
  BY DEF PayStatus, Trades
<1>6. [b EXCEPT !.pays[o] = Y, !.orders[o].status = "refunded"] = s
  <2>1. b \in [orders: {b.orders}, ents: {b.ents}, coupons: {b.coupons}, pays: {b.pays},
               bindings: {b.bindings}, rewards: {b.rewards}]
    BY <1>4 DEF StoreOk, StoreType
  <2> HIDE DEF Y
  <2> QED
    BY <2>1
<1> HIDE DEF Y
<1>7. /\ StoreType(p) /\ p.orders = b.orders /\ p.coupons = b.coupons
      /\ p.bindings = b.bindings /\ p.rewards = b.rewards
      /\ p.pays[o] = Y /\ \A q \in Orders \ {o} : p.pays[q] = b.pays[q]
  BY <1>4, <1>5, PaymentsReplaced DEF StoreOk
<1> HIDE DEF p
<1>8. r \in OrderRow /\ r.status = "refunded" /\ r.user = p.orders[o].user
      /\ r.kind = p.orders[o].kind /\ r.coupon = p.orders[o].coupon
  BY <1>7, Rows DEF OrderRow, OrderStatus
<1> HIDE DEF r
<1>9. /\ StoreType(s) /\ s.coupons = p.coupons /\ s.pays = p.pays
      /\ s.bindings = p.bindings /\ s.rewards = p.rewards
      /\ s.orders[o] = r /\ \A q \in Orders \ {o} : s.orders[q] = p.orders[q]
  BY <1>7, <1>8, OrderReplaced
<1> HIDE DEF s
<1>10. Forward(b, s)
  BY <1>1, <1>2, <1>4, <1>7, <1>8, <1>9 DEF Forward, Settled, Dead
<1>11. OrdersOk(s)
  <2>1. OrdersOk(b)
    BY <1>4 DEF StoreOk
  <2>2. \A q \in Orders : b.pays[q]["transaction"] # "none" => s.pays[q]["transaction"] # "none"
    BY <1>5, <1>7, <1>9
  <2>3. b.orders[o].status \in Settled
    BY <1>1, <1>2, <1>4 DEF Settled
  <2>4. \A q \in Orders :
           /\ s.orders[q].user = b.orders[q].user
           /\ s.orders[q].status # "none" => b.orders[q].status # "none"
           /\ s.orders[q].status \in Settled => b.orders[q].status \in Settled
    BY <1>7, <1>8, <1>9, <2>3 DEF Settled
  <2> QED
    BY Zenon, <2>1, <2>2, <2>4 DEF OrdersOk
<1>12. CouponsOk(s)
  <2>1. CouponsOk(b)
    BY <1>4 DEF StoreOk
  <2>2. \A c \in Coupons : s.coupons[c].status = "used" => s.coupons[c].usedBy # o
    BY <1>2, <1>4, <1>7, <1>9
  <2>3. r.coupon = b.orders[o].coupon
    BY <1>7, <1>8
  <2> QED
    BY <1>7, <1>9, <2>1, <2>2, <2>3, CouponsStay
<1>13. ASSUME NEW v \in Users PROVE RewardOk(s, v)
  <2>1. RewardOk(b, v)
    BY Zenon, <1>4 DEF StoreOk, RewardsOk
  <2>2. b.rewards[v].order = o => b.rewards[v].status \in {"none", "revoked"}
    BY <1>4
  <2> QED
    BY SMTT(40), <1>7, <1>8, <1>9, <2>1, <2>2, RewardStays DEF Settled
<1>14. StoreOk(s)
  BY <1>9, <1>11, <1>12, <1>13 DEF StoreOk, RewardsOk
<1>15. Forward(d, b)
  BY <1>2, <1>4, ForwardTransitive
<1>16. Forward(d, s)
  BY <1>10, <1>15, ForwardTransitive
<1> QED
  BY <1>3, <1>6, <1>14, <1>16

LEMMA RefundedKeeps ==
    ASSUME NEW d, StoreOk(d), NEW o \in Orders, Refundable(d, o)
    PROVE  StoreOk(Refunded(d, o)) /\ Forward(d, Refunded(d, o))
<1> DEFINE u == d.orders[o].user
           s == Repaid(d, o)
           m == Rebuild(s, u)
           e == Expire(m, {u}, now)
<1>1. Refunded(d, o) = e
  BY DEF Refunded, Repaid
<1> HIDE DEF u
<1>2. StoreOk(s) /\ Forward(d, s)
  BY RepaidKeeps
<1> HIDE DEF s
<1>3. StoreOk(m) /\ Forward(s, m)
  BY <1>2, RebuildKeeps
<1> HIDE DEF m
<1>4. StoreOk(e) /\ Forward(m, e)
  BY <1>3, ExpireKeeps
<1> HIDE DEF e
<1>5. Forward(d, m)
  BY <1>2, <1>3, ForwardTransitive
<1>6. Forward(d, e)
  BY <1>4, <1>5, ForwardTransitive
<1> QED
  BY <1>1, <1>4, <1>6

LEMMA FinalizeKeeps ==
    ASSUME NEW d, StoreOk(d), NEW o \in Orders, FinalizeRefund(d, o)
    PROVE  StoreOk(db') /\ Forward(d, db')
<1>1. CASE db' = Expire(Rebuild(d, d.orders[o].user), {d.orders[o].user}, now)
  <2> DEFINE u == d.orders[o].user
             m == Rebuild(d, u)
  <2> HIDE DEF u
  <2>1. StoreOk(m) /\ Forward(d, m)
    BY RebuildKeeps
  <2>2. db' = Expire(m, {u}, now)
    BY <1>1 DEF u
  <2> HIDE DEF m
  <2>3. StoreOk(db') /\ Forward(m, db')
    BY <2>1, <2>2, ExpireKeeps
  <2> QED
    BY <2>1, <2>3, ForwardTransitive
<1>2. CASE Refundable(d, o) /\ db' = Refunded(d, o)
  BY <1>2, RefundedKeeps
<1> QED
  BY <1>1, <1>2 DEF FinalizeRefund

\* A settled order is paid again, or waits for its refund again, with its payment.
Resettled(d, o, payment, order) ==
    [d EXCEPT !.pays[o]["transaction"] = payment, !.orders[o].status = order]

LEMMA ResettledKeeps ==
    ASSUME NEW d, StoreOk(d), NEW o \in Orders, d.orders[o].status \in Settled,
           NEW payment \in PayStatus \ {"none"}, NEW order \in {"paid", "refund_pending"}
    PROVE  StoreOk(Resettled(d, o, payment, order)) /\ Forward(d, Resettled(d, o, payment, order))
<1> DEFINE p == [d EXCEPT !.pays[o]["transaction"] = payment]
           r == [p.orders[o] EXCEPT !.status = order]
           e == [p EXCEPT !.orders[o] = r]
<1>1. /\ StoreOk(p) /\ Forward(d, p) /\ p.orders = d.orders
      /\ p.pays[o]["transaction"] = payment
  BY PaymentKeeps DEF Trades
<1>2. Resettled(d, o, payment, order) = e
  <2>1. d \in [orders: {d.orders}, ents: {d.ents}, coupons: {d.coupons}, pays: {d.pays},
               bindings: {d.bindings}, rewards: {d.rewards}]
    BY DEF StoreOk, StoreType
  <2> QED
    BY <2>1 DEF Resettled
<1> HIDE DEF p
<1>3. r \in OrderRow /\ r.status = order /\ r.user = p.orders[o].user
      /\ r.kind = p.orders[o].kind /\ r.coupon = p.orders[o].coupon
  BY <1>1, Rows DEF StoreOk, OrderRow, OrderStatus
<1> HIDE DEF r
<1>4. /\ StoreType(e) /\ e.coupons = p.coupons /\ e.pays = p.pays
      /\ e.bindings = p.bindings /\ e.rewards = p.rewards
      /\ e.orders[o] = r /\ \A q \in Orders \ {o} : e.orders[q] = p.orders[q]
  BY <1>1, <1>3, OrderReplaced DEF StoreOk
<1> HIDE DEF e
<1>5. Forward(d, e)
  BY <1>1, <1>3, <1>4 DEF Forward, Settled, Dead
<1>6. OrdersOk(e)
  BY <1>1, <1>3, <1>4 DEF StoreOk, OrdersOk, Settled
<1>7. CouponsOk(e)
  <2>1. CouponsOk(p)
    BY <1>1 DEF StoreOk
  <2> QED
    BY <1>1, <1>3, <1>4, <2>1, CouponsStay
<1>8. ASSUME NEW v \in Users PROVE RewardOk(e, v)
  <2>1. RewardOk(p, v)
    BY Zenon, <1>1 DEF StoreOk, RewardsOk
  <2> QED
    BY SMTT(40), <1>1, <1>3, <1>4, <2>1, RewardStays DEF Settled
<1> QED
  BY <1>2, <1>4, <1>5, <1>6, <1>7, <1>8 DEF StoreOk, RewardsOk

-----------------------------------------------------------------------------
(* Coupons and invitations by themselves. *)

LEMMA VoidKeeps ==
    ASSUME StoreOk(db), NEW c \in Coupons, VoidCoupon(c)
    PROVE  StoreOk(db') /\ Forward(db, db')
<1> DEFINE X == ExpiredCoupons(db, Users, now)
           d == [db EXCEPT !.coupons = X]
           k == [d.coupons[c] EXCEPT !.status = "revoked"]
<1>1. \A q \in Coupons :
        \/ X[q] = db.coupons[q]
        \/ /\ db.coupons[q].status = "available"
           /\ X[q] = [db.coupons[q] EXCEPT !.status = "expired"]
  BY DEF ExpiredCoupons
<1>2. \A q \in Coupons : [db.coupons[q] EXCEPT !.status = "expired"] \in CouponRow
                         /\ [db.coupons[q] EXCEPT !.status = "expired"].status = "expired"
  BY Rows DEF StoreOk, CouponRow
<1>3. X \in [Coupons -> CouponRow]
  <2>1. ASSUME NEW q \in Coupons PROVE X[q] \in CouponRow
    <3> HIDE DEF X
    <3>1. db.coupons[q] \in CouponRow
      BY Rows DEF StoreOk
    <3> QED
      BY <1>1, <1>2, <3>1
  <2> QED
    BY <2>1 DEF ExpiredCoupons
<1>4. d.coupons[c].status = "available" /\ db' = [d EXCEPT !.coupons[c].status = "revoked"]
  BY DEF VoidCoupon
<1> HIDE DEF X
<1>5. StoreType(d) /\ d.coupons = X /\ d.orders = db.orders /\ d.pays = db.pays
      /\ d.bindings = db.bindings /\ d.rewards = db.rewards
  BY <1>3 DEF StoreOk, StoreType
<1> HIDE DEF d
<1>6. StoreOk(d) /\ Forward(db, d)
  <2>1. \A q \in Coupons :
          \/ d.coupons[q] = db.coupons[q]
          \/ /\ db.coupons[q].status = "available"
             /\ d.coupons[q].status \in {"expired", "revoked"}
    BY ZenonT(40), <1>1, <1>2, <1>5
  <2> HIDE DEF k
  <2> QED
    BY <1>5, <2>1, Fading
<1>7. k \in CouponRow /\ k.status = "revoked"
  BY <1>5, Rows DEF CouponRow
<1>8. db' = [d EXCEPT !.coupons[c] = k]
  BY <1>4
<1> HIDE DEF k
<1>9. /\ StoreType(db') /\ db'.orders = d.orders /\ db'.pays = d.pays
      /\ db'.bindings = d.bindings /\ db'.rewards = d.rewards
      /\ db'.coupons[c] = k /\ \A q \in Coupons \ {c} : db'.coupons[q] = d.coupons[q]
  BY <1>5, <1>7, <1>8, CouponReplaced
<1>10. StoreOk(db') /\ Forward(d, db')
  BY <1>4, <1>6, <1>7, <1>9, Fading
<1> QED
  BY <1>6, <1>10, ForwardTransitive

LEMMA BindKeeps ==
    ASSUME NEW d, StoreOk(d), NEW u \in Users, NEW v \in Users
    PROVE  LET e == [d EXCEPT !.bindings[u].inviter = v]
           IN  StoreOk(e) /\ Forward(d, e)
<1> DEFINE b == [d.bindings[u] EXCEPT !.inviter = v]
           X == [d.bindings EXCEPT ![u] = b]
           e == [d EXCEPT !.bindings = X]
<1>1. b \in BindingRow /\ b.status = d.bindings[u].status /\ b.order = d.bindings[u].order
  BY Rows DEF StoreOk, BindingRow
<1> HIDE DEF b
<1>2. X \in [Users -> BindingRow] /\ X[u] = b /\ \A w \in Users \ {u} : X[w] = d.bindings[w]
  BY <1>1 DEF StoreOk, StoreType
<1> HIDE DEF X
<1>3. StoreType(e) /\ e.orders = d.orders /\ e.coupons = d.coupons /\ e.pays = d.pays
      /\ e.rewards = d.rewards /\ e.bindings = X
  BY <1>2 DEF StoreOk, StoreType
<1>4. e = [d EXCEPT !.bindings[u].inviter = v]
  BY DEF X, b
<1> HIDE DEF e
<1>5. Forward(d, e) /\ OrdersOk(e) /\ CouponsOk(e)
  BY <1>3 DEF Forward, StoreOk, OrdersOk, CouponsOk
<1>6. ASSUME NEW w \in Users PROVE RewardOk(e, w)
  <2>1. e.bindings[w].status = d.bindings[w].status /\ e.bindings[w].order = d.bindings[w].order
    BY <1>1, <1>2, <1>3
  <2>2. RewardOk(d, w)
    BY Zenon DEF StoreOk, RewardsOk
  <2> QED
    BY <1>3, <2>1, <2>2, RewardStays
<1>7. StoreOk(e)
  BY <1>3, <1>5, <1>6 DEF StoreOk, RewardsOk
<1> QED
  BY <1>4, <1>5, <1>7

-----------------------------------------------------------------------------
(* The invariant. *)

RefundStates == {"refunding", "abnormal", "refunded"}
ChargeStates == {"open", "paid", "failed", "closed"} \cup RefundStates

\* Who asks is a user; what the provider shows and charges is an amount at a time.
RequestsOk == \A a \in asked : a.type = "invite" => a.user \in Users /\ a.with \in Users
ProviderOk ==
    /\ bills \in [Orders -> SUBSET [amount: Int, until: Nat]]
    /\ charge \in [Orders -> [state: ChargeStates, amount: Int, at: Nat]]
    /\ reports \in [Orders -> SUBSET (ChargeStates \cup {"still refunding"})]

\* The provider is asked to refund what has been paid, so an order whose refund it
\* has ever reported is settled.
RefundsKnown ==
    \A o \in Orders :
        (charge[o].state \in RefundStates
           \/ \E s \in RefundStates \cup {"still refunding"} : s \in reports[o]) =>
        db.orders[o].status \in Settled

Inv == now \in Nat /\ StoreOk(db) /\ RequestsOk /\ ProviderOk /\ RefundsKnown

\* An operation that leaves the provider alone and moves the tables forward.
LEMMA StoreStep ==
    ASSUME Inv, StoreOk(db'), Forward(db, db'), RequestsOk', bills' \in [Orders -> SUBSET [amount: Int, until: Nat]],
           UNCHANGED <<now, charge, reports>>
    PROVE  Inv'
  BY DEF Inv, ProviderOk, RefundsKnown, Forward

LEMMA PriceIsInt ==
    ASSUME NEW row
    PROVE  OrderPrice(row) \in Int
  BY DEF OrderPrice, Price, PreCouponPrice, BASE_MONTHLY_PRICE_CENT, FIRST_ORDER_DISCOUNT_CENT,
         INVITE_REWARD_COUPON_AMOUNT_CENT

\* An order row that does not exist yet does not expire.
LEMMA ExpireLeaves ==
    ASSUME NEW d, StoreType(d), NEW us, NEW t, NEW o \in Orders, d.orders[o].status = "none"
    PROVE  Expire(d, us, t).orders[o].status = "none"
<1> DEFINE e == Expire(d, us, t)
<1>1. \A q \in Orders :
        \/ e.orders[q] = d.orders[q]
        \/ /\ d.orders[q].status = "pending"
           /\ e.orders[q] = [d.orders[q] EXCEPT !.status = "expired"]
  BY ExpireTables
<1> HIDE DEF e
<1>2. e.orders[o].status = "none"
  BY <1>1
<1> QED
  BY <1>2 DEF e

LEMMA CreateOrderKeeps ==
    ASSUME Inv, NEW u \in Users, NEW p \in Providers, NEW c \in Coupons \cup {None},
           CreateOrder(u, p, c)
    PROVE  Inv' /\ Forward(db, db')
<1> DEFINE d == Expire(db, {u}, now)
           chosen == IF PendingOrders(d, u, p) # {} THEN PendingOrders(d, u, p)
                     ELSE IF FreeOrders = {} THEN {} ELSE {Min(FreeOrders)}
<1>1. StoreOk(d) /\ Forward(db, d)
  BY ExpireKeeps DEF Inv
<1>2. ASSUME NEW o \in Orders, db.orders[o].status = "none" PROVE d.orders[o].status = "none"
  BY <1>2, ExpireLeaves DEF Inv, StoreOk
<1>3. PICK o \in chosen : db' = Placed(d, o, u, p, c) /\ bills' = Billed(o, db'.orders[o])
  BY DEF CreateOrder
<1>4. \E request \in OrderRequests(u, c) : asked' = asked \ request
  BY DEF CreateOrder
<1>5. UNCHANGED <<now, charge, reports>>
  BY DEF CreateOrder
<1>6. o \in Orders /\ d.orders[o].status \in {"none", "pending"}
  <2>1. CASE PendingOrders(d, u, p) # {}
    BY <1>3, <2>1 DEF PendingOrders, OrdersOf
  <2>2. CASE PendingOrders(d, u, p) = {} /\ FreeOrders # {}
    <3>1. o = Min(FreeOrders)
      BY <1>3, <2>2
    <3>2. FreeOrders \subseteq Nat
      BY RowAssumption DEF FreeOrders
    <3>3. o \in FreeOrders
      BY <2>2, <3>1, <3>2, MinIn
    <3> QED
      BY <1>2, <3>3 DEF FreeOrders
  <2> QED
    BY <1>3, <2>1, <2>2
<1> HIDE DEF d, chosen
<1>7. StoreOk(db') /\ Forward(d, db')
  BY <1>1, <1>3, <1>6, PlacedKeeps, ProviderAssumption DEF Inv
<1>8. bills' \in [Orders -> SUBSET [amount: Int, until: Nat]]
  <2> DEFINE row == db'.orders[o]
  <2>1. row \in OrderRow
    BY <1>6, <1>7, Rows DEF StoreOk
  <2>2. [amount |-> OrderPrice(row), until |-> row.until] \in [amount: Int, until: Nat]
    BY <2>1, PriceIsInt DEF OrderRow
  <2>3. bills' = IF row.provider # "wechat_native" THEN bills
                 ELSE [bills EXCEPT ![o] = @ \cup {[amount |-> OrderPrice(row), until |-> row.until]}]
    BY <1>3 DEF Billed
  <2> HIDE DEF row
  <2> QED
    BY <1>6, <2>2, <2>3 DEF Inv, ProviderOk
<1>9. RequestsOk'
  BY <1>4 DEF Inv, RequestsOk
<1>10. Forward(db, db')
  BY <1>1, <1>7, ForwardTransitive
<1> QED
  BY <1>5, <1>7, <1>8, <1>9, <1>10, StoreStep

\* An operation changes the tables in one or two steps, and nothing but the tables.
LEMMA StoreAction ==
    ASSUME Inv, NEW d, StoreOk(d), Forward(db, d), StoreOk(db'), Forward(d, db'),
           UNCHANGED <<now, asked, bills, charge, reports>>
    PROVE  Inv' /\ Forward(db, db')
<1>1. Forward(db, db')
  BY ForwardTransitive
<1>2. RequestsOk' /\ bills' \in [Orders -> SUBSET [amount: Int, until: Nat]]
  BY DEF Inv, RequestsOk, ProviderOk
<1> QED
  BY <1>1, <1>2, StoreStep

LEMMA CloseOrderKeeps ==
    ASSUME Inv, NEW o \in Orders, CloseOrder(o)
    PROVE  Inv' /\ Forward(db, db')
<1> DEFINE d == Expire(db, {db.orders[o].user}, now)
<1>1. StoreOk(d) /\ Forward(db, d)
  BY SMTT(40), ExpireKeeps DEF Inv
<1>2. \/ db' = d
      \/ d.orders[o].status = "pending" /\ db' = [d EXCEPT !.orders[o].status = "closed"]
  BY ZenonT(40) DEF CloseOrder
<1>3. UNCHANGED <<now, asked, bills, charge, reports>>
  BY DEF CloseOrder
<1> HIDE DEF d
<1>4. StoreOk(db') /\ Forward(d, db')
  <2>1. CASE db' = d
    BY <1>1, <2>1 DEF Forward
  <2>2. CASE d.orders[o].status = "pending" /\ db' = [d EXCEPT !.orders[o].status = "closed"]
    BY <1>1, <2>2, ClosedKeeps
  <2> QED
    BY <1>2, <2>1, <2>2
<1> QED
  BY <1>1, <1>3, <1>4, StoreAction

LEMMA ConfirmPaymentKeeps ==
    ASSUME Inv, NEW o \in Orders, ConfirmPayment(o)
    PROVE  Inv' /\ Forward(db, db')
<1> DEFINE d == Expire(db, {db.orders[o].user}, now)
<1>1. StoreOk(d) /\ Forward(db, d)
  BY SMTT(40), ExpireKeeps DEF Inv
<1>2. Confirmable(d, o) /\ RewardFits(d, o) /\ db' = Confirmed(d, o, now)
  BY DEF ConfirmPayment
<1>3. now \in Nat /\ UNCHANGED <<now, asked, bills, charge, reports>>
  BY DEF ConfirmPayment, Inv
<1> HIDE DEF d
<1>4. StoreOk(db') /\ Forward(d, db')
  BY <1>1, <1>2, <1>3, ConfirmedKeeps
<1> QED
  BY <1>1, <1>3, <1>4, StoreAction

LEMMA ConfirmProviderPaymentKeeps ==
    ASSUME Inv, NEW o \in Orders, ConfirmProviderPayment(o)
    PROVE  Inv' /\ Forward(db, db')
<1> DEFINE t == charge[o].at
           d == Expire(db, Users, t)
<1>1. StoreOk(d) /\ Forward(db, d)
  BY ExpireKeeps DEF Inv
<1>2. Confirmable(d, o) /\ RewardFits(d, o) /\ db' = Confirmed(d, o, t)
  BY DEF ConfirmProviderPayment
<1>3. t \in Nat /\ UNCHANGED <<now, asked, bills, charge, reports>>
  BY DEF ConfirmProviderPayment, Inv, ProviderOk
<1> HIDE DEF t, d
<1>4. StoreOk(db') /\ Forward(d, db')
  BY <1>1, <1>2, <1>3, ConfirmedKeeps
<1> QED
  BY <1>1, <1>3, <1>4, StoreAction

LEMMA SyncTerminalPaymentKeeps ==
    ASSUME Inv, NEW o \in Orders, SyncTerminalPayment(o)
    PROVE  Inv' /\ Forward(db, db')
<1> DEFINE d == Expire(db, Users, now)
<1>1. StoreOk(d) /\ Forward(db, d)
  BY ExpireKeeps DEF Inv
<1>2. d.orders[o].status \in {"pending", "closed"}
  BY DEF SyncTerminalPayment
<1>3. PICK t \in TerminalTrades(o) :
        db' = [TerminalPayment(d, o, t) EXCEPT !.orders[o].status = "closed"]
  BY DEF SyncTerminalPayment
<1>4. UNCHANGED <<now, asked, bills, charge, reports>>
  BY DEF SyncTerminalPayment
<1>5. t \in Trades
  BY <1>3 DEF TerminalTrades, Trades
<1> HIDE DEF d
<1>6. StoreOk(db') /\ Forward(d, db')
  BY <1>1, <1>2, <1>3, <1>5, TerminalKeeps
<1> QED
  BY <1>1, <1>4, <1>6, StoreAction

-----------------------------------------------------------------------------
(* Refunds, as the actions of the store. *)

LEMMA RefundOrderKeeps ==
    ASSUME Inv, NEW o \in Orders, RefundOrder(o)
    PROVE  Inv' /\ Forward(db, db')
<1> DEFINE d == Expire(db, Users, now)
<1>1. StoreOk(d) /\ Forward(db, d)
  BY ExpireKeeps DEF Inv
<1>2. FinalizeRefund(d, o) /\ UNCHANGED <<now, asked, bills, charge, reports>>
  BY DEF RefundOrder
<1> HIDE DEF d
<1>3. StoreOk(db') /\ Forward(d, db')
  BY <1>1, <1>2, FinalizeKeeps
<1> QED
  BY <1>1, <1>2, <1>3, StoreAction

LEMMA RefundSucceededKeeps ==
    ASSUME Inv, NEW o \in Orders, RefundSucceeded(o)
    PROVE  Inv' /\ Forward(db, db')
<1>1. FinalizeRefund(db, o) /\ UNCHANGED <<now, asked, bills, charge, reports>>
  BY DEF RefundSucceeded
<1>2. StoreOk(db) /\ Forward(db, db)
  BY DEF Inv, Forward
<1>3. StoreOk(db') /\ Forward(db, db')
  BY <1>1, <1>2, FinalizeKeeps
<1> QED
  BY <1>1, <1>2, <1>3, StoreAction

LEMMA MarkRefundPendingKeeps ==
    ASSUME Inv, NEW o \in Orders, MarkRefundPending(o)
    PROVE  Inv' /\ Forward(db, db')
<1> DEFINE d == Expire(db, Users, now)
<1>1. StoreOk(d) /\ Forward(db, d)
  BY ExpireKeeps DEF Inv
<1>2. d.orders[o].status \in Settled
  BY DEF MarkRefundPending, Settled
<1>3. /\ db' = Resettled(d, o, "refund_pending", "refund_pending")
      /\ UNCHANGED <<now, asked, bills, charge, reports>>
  BY DEF MarkRefundPending, Resettled
<1> HIDE DEF d
<1>4. StoreOk(db') /\ Forward(d, db')
  BY <1>1, <1>2, <1>3, ResettledKeeps DEF PayStatus
<1> QED
  BY <1>1, <1>3, <1>4, StoreAction

\* The branches of sync_provider_refund that only write the two states.
LEMMA ResyncedKeeps ==
    ASSUME Inv, NEW o \in Orders, db.orders[o].status \in Settled,
           NEW payment \in PayStatus \ {"none"}, NEW order \in {"paid", "refund_pending"},
           db' = Resynced(o, payment, order),
           UNCHANGED <<now, asked, bills, charge, reports>>
    PROVE  Inv' /\ Forward(db, db')
<1> DEFINE d == Resettled(db, o, payment, order)
           u == db.orders[o].user
<1>1. StoreOk(d) /\ Forward(db, d)
  BY ResettledKeeps DEF Inv
<1>2. db' = Expire(d, {u}, now)
  BY DEF Resynced, Resettled
<1> HIDE DEF d, u
<1>3. StoreOk(db') /\ Forward(d, db')
  BY <1>1, <1>2, ExpireKeeps
<1> QED
  BY <1>1, <1>3, StoreAction

LEMMA RefundReportKeeps ==
    ASSUME Inv, NEW o \in Orders, RefundStillPending(o) \/ RefundFailed(o)
    PROVE  Inv' /\ Forward(db, db')
<1>1. db.orders[o].status \in Settled
  BY DEF Inv, RefundsKnown, RefundStillPending, RefundFailed, RefundStates
<1>2. CASE RefundStillPending(o)
  BY <1>1, <1>2, ResyncedKeeps DEF RefundStillPending, PayStatus
<1>3. CASE RefundFailed(o)
  BY <1>1, <1>3, ResyncedKeeps DEF RefundFailed, PayStatus
<1> QED
  BY <1>2, <1>3

-----------------------------------------------------------------------------
(* Coupons and invitations, as the actions of the store. *)

LEMMA GrantCouponKeeps ==
    ASSUME Inv, NEW u \in Users, NEW min \in MinSpends, GrantCoupon(u, min)
    PROVE  Inv' /\ Forward(db, db')
<1> DEFINE k == [status |-> "available", user |-> u, usedBy |-> None,
                 min |-> min, until |-> now + Period]
<1>1. FreeCoupons(db) # {} /\ UNCHANGED <<now, asked, bills, charge, reports>>
  BY DEF GrantCoupon
<1>2. db' = [db EXCEPT !.coupons[NewCoupon(db)] = k]
  BY DEF GrantCoupon
<1>3. StoreOk(db) /\ Forward(db, db)
  BY DEF Inv, Forward
<1>4. k \in CouponRow /\ k.status = "available"
  <2>1. now + Period \in Nat
    BY TimeAssumption DEF Inv
  <2>2. min \in Nat
    BY SpendAssumption
  <2> QED
    BY <2>1, <2>2 DEF CouponRow
<1> HIDE DEF k
<1>5. StoreOk(db') /\ Forward(db, db')
  BY <1>1, <1>2, <1>3, <1>4, GrantKeeps
<1> QED
  BY <1>1, <1>3, <1>5, StoreAction

LEMMA VoidCouponKeeps ==
    ASSUME Inv, NEW c \in Coupons, VoidCoupon(c)
    PROVE  Inv' /\ Forward(db, db')
<1>1. StoreOk(db) /\ Forward(db, db)
  BY DEF Inv, Forward
<1>2. StoreOk(db') /\ Forward(db, db')
  BY <1>1, VoidKeeps
<1>3. UNCHANGED <<now, asked, bills, charge, reports>>
  BY DEF VoidCoupon
<1> QED
  BY <1>1, <1>2, <1>3, StoreAction

LEMMA BindInviteKeeps ==
    ASSUME Inv, NEW a \in asked, BindInvite(a)
    PROVE  Inv' /\ Forward(db, db')
<1>1. a.user \in Users /\ a.with \in Users
  BY DEF BindInvite, Inv, RequestsOk
<1>2. StoreOk(db') /\ Forward(db, db')
  <2>1. CASE db' = [db EXCEPT !.bindings[a.user].inviter = a.with]
    BY <1>1, <2>1, BindKeeps DEF Inv
  <2>2. CASE db' = db
    BY <2>2 DEF Inv, Forward
  <2> QED
    BY <2>1, <2>2 DEF BindInvite
<1>3. asked' = asked \ {a} /\ UNCHANGED <<now, bills, charge, reports>>
  BY DEF BindInvite
<1>4. RequestsOk' /\ bills' \in [Orders -> SUBSET [amount: Int, until: Nat]]
  BY <1>3 DEF Inv, RequestsOk, ProviderOk
<1> QED
  BY <1>2, <1>3, <1>4, StoreStep

\* A request that has made its checks and has not written yet.
LEMMA AskingKeeps ==
    ASSUME Inv, NEW a, a.type = "invite" => a.user \in Users /\ a.with \in Users,
           asked' = asked \cup {a}, UNCHANGED <<now, db, bills, charge, reports>>
    PROVE  Inv' /\ UNCHANGED db
<1>1. RequestsOk'
  BY DEF Inv, RequestsOk
<1> QED
  BY <1>1 DEF Inv, ProviderOk, RefundsKnown

-----------------------------------------------------------------------------
(* The provider. *)

\* The provider reports a state of an order; of a refund only if the order is settled.
LEMMA ReportKeeps ==
    ASSUME Inv, NEW o \in Orders, NEW s \in ChargeStates, Report(o, s),
           s \in RefundStates => db.orders[o].status \in Settled
    PROVE  Inv' /\ UNCHANGED db
<1>1. charge' = [charge EXCEPT ![o].state = s] /\ reports' = [reports EXCEPT ![o] = @ \cup {s}]
      /\ UNCHANGED <<now, db, asked, bills>>
  BY DEF Report
<1>2. charge[o] \in [state: ChargeStates, amount: Int, at: Nat]
  BY DEF Inv, ProviderOk
<1>3. [charge[o] EXCEPT !.state = s] \in [state: ChargeStates, amount: Int, at: Nat]
      /\ [charge[o] EXCEPT !.state = s].state = s
  BY <1>2
<1>4. /\ charge' \in [Orders -> [state: ChargeStates, amount: Int, at: Nat]]
      /\ charge'[o].state = s /\ \A q \in Orders \ {o} : charge'[q] = charge[q]
  BY <1>1, <1>3 DEF Inv, ProviderOk
<1>5. /\ reports' \in [Orders -> SUBSET (ChargeStates \cup {"still refunding"})]
      /\ reports'[o] = reports[o] \cup {s} /\ \A q \in Orders \ {o} : reports'[q] = reports[q]
  BY <1>1 DEF Inv, ProviderOk
<1>6. ProviderOk' /\ RequestsOk' /\ now' \in Nat /\ StoreOk(db')
  BY <1>1, <1>4, <1>5 DEF Inv, ProviderOk, RequestsOk
<1>7. ASSUME NEW q \in Orders,
             charge'[q].state \in RefundStates
               \/ \E r \in RefundStates \cup {"still refunding"} : r \in reports'[q]
      PROVE  db'.orders[q].status \in Settled
  <2>1. CASE q = o /\ s \in RefundStates
    BY <1>1, <2>1
  <2>2. CASE q = o /\ s \notin RefundStates
    <3>1. s # "still refunding"
      BY DEF ChargeStates, RefundStates
    <3>2. \E r \in RefundStates \cup {"still refunding"} : r \in reports[o]
      BY <1>4, <1>5, <1>7, <2>2, <3>1
    <3> QED
      BY <1>1, <2>2, <3>2 DEF Inv, RefundsKnown
  <2>3. CASE q # o
    BY <1>1, <1>4, <1>5, <1>7, <2>3 DEF Inv, RefundsKnown
  <2> QED
    BY <2>1, <2>2, <2>3
<1>8. RefundsKnown'
  BY <1>7 DEF RefundsKnown
<1> QED
  BY <1>1, <1>6, <1>8 DEF Inv

LEMMA PayKeeps ==
    ASSUME Inv, NEW o \in Orders, Pay(o)
    PROVE  Inv' /\ UNCHANGED db
<1>1. PICK b \in bills[o] :
        charge' = [charge EXCEPT ![o] = [state |-> "paid", amount |-> b.amount, at |-> now]]
  BY DEF Pay
<1>2. reports' = [reports EXCEPT ![o] = @ \cup {"paid"}] /\ UNCHANGED <<now, db, asked, bills>>
  BY DEF Pay
<1>3. [state |-> "paid", amount |-> b.amount, at |-> now]
        \in [state: ChargeStates, amount: Int, at: Nat]
  <2>1. bills[o] \subseteq [amount: Int, until: Nat] /\ now \in Nat
    BY DEF Inv, ProviderOk
  <2>2. b.amount \in Int
    BY <2>1
  <2> QED
    BY <2>1, <2>2 DEF ChargeStates
<1>4. /\ charge' \in [Orders -> [state: ChargeStates, amount: Int, at: Nat]]
      /\ charge'[o].state = "paid" /\ \A q \in Orders \ {o} : charge'[q] = charge[q]
  BY <1>1, <1>3 DEF Inv, ProviderOk
<1>5. /\ reports' \in [Orders -> SUBSET (ChargeStates \cup {"still refunding"})]
      /\ reports'[o] = reports[o] \cup {"paid"} /\ \A q \in Orders \ {o} : reports'[q] = reports[q]
  BY <1>2 DEF Inv, ProviderOk, ChargeStates
<1>6. ProviderOk' /\ RequestsOk' /\ now' \in Nat /\ StoreOk(db')
  BY <1>2, <1>4, <1>5 DEF Inv, ProviderOk, RequestsOk
<1>7. RefundsKnown'
  BY <1>2, <1>4, <1>5 DEF Inv, RefundsKnown, RefundStates
<1> QED
  BY <1>2, <1>6, <1>7 DEF Inv

LEMMA ProviderKeeps ==
    ASSUME Inv, NEW o \in Orders,
           ProviderGivesUp(o) \/ RequestRefund(o) \/ QueryRefund(o) \/ SettleRefund(o)
    PROVE  Inv' /\ UNCHANGED db
<1>1. CASE ProviderGivesUp(o)
  <2>1. Report(o, "failed") \/ Report(o, "closed")
    BY <1>1 DEF ProviderGivesUp
  <2> QED
    BY <2>1, ReportKeeps DEF ChargeStates, RefundStates
<1>2. CASE RequestRefund(o)
  <2>1. db.orders[o].status \in Settled
    BY <1>2 DEF RequestRefund, WasPaid, Settled
  <2>2. \E s \in RefundStates : Report(o, s)
    BY <1>2 DEF RequestRefund, RefundStates
  <2> QED
    BY <2>1, <2>2, ReportKeeps DEF ChargeStates
<1>3. CASE QueryRefund(o)
  <2>1. db.orders[o].status \in Settled
    BY <1>3 DEF QueryRefund, WasPaid, Settled
  <2>2. /\ reports' = [reports EXCEPT ![o] = @ \cup {"still refunding"}]
        /\ UNCHANGED <<now, db, asked, bills, charge>>
    BY <1>3 DEF QueryRefund
  <2>3. /\ reports' \in [Orders -> SUBSET (ChargeStates \cup {"still refunding"})]
        /\ \A q \in Orders \ {o} : reports'[q] = reports[q]
    BY <2>2 DEF Inv, ProviderOk
  <2> QED
    BY <2>1, <2>2, <2>3 DEF Inv, ProviderOk, RequestsOk, RefundsKnown
<1>4. CASE SettleRefund(o)
  <2>1. db.orders[o].status \in Settled
    BY <1>4 DEF SettleRefund, Inv, RefundsKnown, RefundStates
  <2>2. \E s \in RefundStates : Report(o, s)
    BY <1>4 DEF SettleRefund, RefundStates
  <2> QED
    BY <2>1, <2>2, ReportKeeps DEF ChargeStates
<1> QED
  BY <1>1, <1>2, <1>3, <1>4

LEMMA TickKeeps ==
    ASSUME Inv, Tick
    PROVE  Inv' /\ UNCHANGED db
<1>1. now' \in Nat /\ UNCHANGED <<db, asked, charge, reports>>
  BY DEF Inv, Tick
<1>2. bills' \in [Orders -> SUBSET [amount: Int, until: Nat]]
  BY DEF Inv, Tick, ProviderOk
<1> QED
  BY <1>1, <1>2 DEF Inv, ProviderOk, RequestsOk, RefundsKnown

-----------------------------------------------------------------------------
(* The theorems. *)

LEMMA InitInv == Init => Inv
<1> SUFFICES ASSUME Init PROVE Inv
  OBVIOUS
<1>1. NoOrder \in OrderRow /\ NoCoupon \in CouponRow
  BY DEF NoOrder, NoCoupon, OrderRow, OrderStatus, CouponRow
<1>2. [inviter |-> None, status |-> "bound", order |-> None] \in BindingRow
      /\ [status |-> "none", order |-> None, coupon |-> None] \in RewardRow
  BY DEF BindingRow, RewardRow
<1>3. /\ db.orders = [o \in Orders |-> NoOrder]
      /\ db.coupons = [c \in Coupons |-> NoCoupon]
      /\ db.pays = [o \in Orders |-> [t \in Trades |-> "none"]]
      /\ db.bindings = [u \in Users |-> [inviter |-> None, status |-> "bound", order |-> None]]
      /\ db.rewards = [u \in Users |-> [status |-> "none", order |-> None, coupon |-> None]]
  BY DEF Init
<1>4. [t \in Trades |-> "none"] \in [Trades -> PayStatus]
  BY DEF PayStatus
<1>5. StoreType(db)
  <2>1. db \in [orders: {db.orders}, ents: {db.ents}, coupons: {db.coupons},
                pays: {db.pays}, bindings: {db.bindings}, rewards: {db.rewards}]
    BY DEF Init
  <2>2. db.orders \in [Orders -> OrderRow] /\ db.coupons \in [Coupons -> CouponRow]
    BY <1>1, <1>3
  <2>3. db.bindings \in [Users -> BindingRow] /\ db.rewards \in [Users -> RewardRow]
    BY <1>2, <1>3
  <2>4. db.pays \in [Orders -> [Trades -> PayStatus]]
    BY <1>3, <1>4
  <2> QED
    BY <2>1, <2>2, <2>3, <2>4 DEF StoreType
<1>6. OrdersOk(db) /\ CouponsOk(db)
  BY <1>3 DEF OrdersOk, CouponsOk, NoOrder, NoCoupon, Settled
<1>7. RewardsOk(db)
  BY <1>3 DEF RewardsOk, RewardOk
<1>8. now \in Nat /\ RequestsOk /\ ProviderOk
  BY DEF Init, RequestsOk, ProviderOk, ChargeStates
<1>9. RefundsKnown
  BY DEF Init, RefundsKnown, RefundStates
<1> QED
  BY <1>5, <1>6, <1>7, <1>8, <1>9 DEF Inv, StoreOk

\* Every action keeps the tables in step and takes no order back.
LEMMA NextKeeps == Inv /\ [Next]_vars => Inv' /\ Forward(db, db')
<1> SUFFICES ASSUME Inv, [Next]_vars PROVE Inv' /\ Forward(db, db')
  OBVIOUS
<1>1. UNCHANGED db => Forward(db, db')
  BY DEF Forward
<1>2. ASSUME NEW u \in Users, NEW c \in Coupons, ResolveCoupon(u, c) PROVE Inv' /\ Forward(db, db')
  <2> DEFINE a == [type |-> "order", user |-> u, with |-> c]
  <2>1. a.type = "invite" => a.user \in Users /\ a.with \in Users
    OBVIOUS
  <2>2. asked' = asked \cup {a} /\ UNCHANGED <<now, db, bills, charge, reports>>
    BY <1>2 DEF ResolveCoupon
  <2> HIDE DEF a
  <2> QED
    BY <1>1, <2>1, <2>2, AskingKeeps
<1>3. ASSUME NEW u \in Users, NEW p \in Providers, NEW c \in Coupons \cup {None}, CreateOrder(u, p, c)
      PROVE  Inv' /\ Forward(db, db')
  BY <1>3, CreateOrderKeeps
<1>4. ASSUME NEW o \in Orders,
             CloseOrder(o) \/ ConfirmPayment(o) \/ SyncProviderPayment(o) \/ RefundOrder(o)
      PROVE  Inv' /\ Forward(db, db')
  BY <1>4, CloseOrderKeeps, ConfirmPaymentKeeps, ConfirmProviderPaymentKeeps,
     SyncTerminalPaymentKeeps, RefundOrderKeeps DEF SyncProviderPayment
<1>5. ASSUME NEW o \in Orders,
             MarkRefundPending(o) \/ RefundSucceeded(o) \/ RefundStillPending(o) \/ RefundFailed(o)
      PROVE  Inv' /\ Forward(db, db')
  BY <1>5, MarkRefundPendingKeeps, RefundSucceededKeeps, RefundReportKeeps
<1>6. ASSUME NEW u \in Users, NEW min \in MinSpends, GrantCoupon(u, min)
      PROVE  Inv' /\ Forward(db, db')
  BY <1>6, GrantCouponKeeps
<1>7. ASSUME NEW c \in Coupons, VoidCoupon(c) PROVE Inv' /\ Forward(db, db')
  BY <1>7, VoidCouponKeeps
<1>8. ASSUME NEW u \in Users, NEW v \in Users, CheckInvite(u, v) PROVE Inv' /\ Forward(db, db')
  <2> DEFINE a == [type |-> "invite", user |-> u, with |-> v]
  <2>1. a.type = "invite" => a.user \in Users /\ a.with \in Users
    OBVIOUS
  <2>2. asked' = asked \cup {a} /\ UNCHANGED <<now, db, bills, charge, reports>>
    BY <1>8 DEF CheckInvite
  <2> HIDE DEF a
  <2> QED
    BY <1>1, <2>1, <2>2, AskingKeeps
<1>9. ASSUME NEW a \in asked, BindInvite(a) PROVE Inv' /\ Forward(db, db')
  BY <1>9, BindInviteKeeps
<1>10. ASSUME NEW o \in Orders, Pay(o) PROVE Inv' /\ Forward(db, db')
  BY <1>1, <1>10, PayKeeps
<1>11. ASSUME NEW o \in Orders,
              ProviderGivesUp(o) \/ RequestRefund(o) \/ QueryRefund(o) \/ SettleRefund(o)
       PROVE  Inv' /\ Forward(db, db')
  BY <1>1, <1>11, ProviderKeeps
<1>12. CASE Tick
  BY <1>1, <1>12, TickKeeps
<1>13. CASE UNCHANGED vars
  BY <1>1, <1>13 DEF vars, Inv, RequestsOk, ProviderOk, RefundsKnown
<1> QED
  BY <1>2, <1>3, <1>4, <1>5, <1>6, <1>7, <1>8, <1>9, <1>10, <1>11, <1>12, <1>13 DEF Next

\* The tables are in step in every reachable state.
LEMMA AlwaysInv == Spec => []Inv
<1>1. Inv /\ [Next]_vars => Inv'
  BY NextKeeps
<1> QED
  BY <1>1, InitInv, PTL DEF Spec

\* A used coupon paid for exactly the order it names, which was not refunded
\* (membership_store.py:1593-1730 spends it, 2120-2240 gives it back).
THEOREM CouponsBackOrders == Spec => []CouponBacksItsOrder
<1>1. Inv => CouponBacksItsOrder
  <2> SUFFICES ASSUME Inv, NEW c \in Coupons, db.coupons[c].status = "used"
               PROVE  /\ db.coupons[c].usedBy # None
                      /\ db.orders[db.coupons[c].usedBy].coupon = c
                      /\ db.orders[db.coupons[c].usedBy].status \in {"paid", "refund_pending"}
    BY DEF CouponBacksItsOrder
  <2> QED
    BY NoneAssumption DEF Inv, StoreOk, CouponsOk
<1> QED
  BY <1>1, AlwaysInv, PTL

\* The refund of the order that earned an invite reward takes the reward's coupon
\* back (membership_store.py, _rollback_invite_reward_for_refund), and a reward that
\* was spent stands in the way of the refund.
THEOREM RefundsTakeRewards == Spec => []RefundTakesReward
<1>1. Inv => RefundTakesReward
  <2> SUFFICES ASSUME Inv, NEW u \in Users, db.rewards[u].status # "none"
               PROVE  /\ (db.bindings[u].status = "rewarded") <=> (db.rewards[u].status = "issued")
                      /\ db.orders[db.rewards[u].order].status = "refunded" =>
                           db.coupons[db.rewards[u].coupon].status \notin {"available", "used"}
    BY DEF RefundTakesReward
  <2>1. RewardOk(db, u)
    BY DEF Inv, StoreOk, RewardsOk
  <2> QED
    BY <2>1 DEF RewardOk
<1> QED
  BY <1>1, AlwaysInv, PTL

\* Money that the provider gave back belongs to an order that can still be refunded
\* here (membership_store.py:2120-2264).
THEOREM RefundsCanBeBooked == Spec => []RefundIsBookable
<1>1. Inv => RefundIsBookable
  BY DEF Inv, RefundsKnown, RefundStates, StoreOk, OrdersOk, Settled, RefundIsBookable
<1> QED
  BY <1>1, AlwaysInv, PTL

\* A late payment or refund report never brings a dead order back
\* (membership_store.py:1593-1730, 1733-1795, 2120-2240).
THEOREM DeadOrdersStayDead == Spec => DeadStaysDead
<1>1. Inv /\ [Next]_vars => DeadOrders \subseteq DeadOrders'
  BY NextKeeps DEF Forward, DeadOrders, Dead
<1> QED
  BY <1>1, AlwaysInv, PTL DEF Spec, DeadStaysDead

-----------------------------------------------------------------------------
(* Times. *)

\* A time, and those of some rows.
Times(t, f, J) == {t} \cup {f[j] : j \in J}
HasGreatest(S) == \E m \in S : \A y \in S : m >= y

\* Of finitely many times one is the greatest.
LEMMA TimesHaveGreatest ==
    ASSUME NEW I, IsFiniteSet(I), NEW f, \A i \in I : f[i] \in Nat, NEW t \in Nat
    PROVE  HasGreatest(Times(t, f, I))
<1> DEFINE R == {p \in Nat \X Nat : p[1] < p[2]}
           N == {n \in Nat : \E J \in SUBSET I :
                   IsFiniteSet(J) /\ Cardinality(J) = n /\ ~HasGreatest(Times(t, f, J))}
<1>1. SUFFICES ASSUME ~HasGreatest(Times(t, f, I)) PROVE FALSE
  OBVIOUS
<1>2. Cardinality(I) \in N
  BY <1>1, FS_CardinalityType
<1>3. IsWellFoundedOn(R, Nat)
  BY NatLessThanWellFounded DEF OpToRel
<1>4. PICK n \in N : \A m \in N : ~(<<m, n>> \in R)
  <2>1. N \subseteq Nat /\ N # {}
    BY <1>2
  <2> HIDE DEF R, N
  <2> QED
    BY <1>3, <2>1, WFMin
<1>5. PICK J \in SUBSET I : IsFiniteSet(J) /\ Cardinality(J) = n /\ ~HasGreatest(Times(t, f, J))
  BY <1>4
<1>6. J # {}
  <2>1. Times(t, f, {}) = {t}
    BY DEF Times
  <2>2. HasGreatest({t})
    BY DEF HasGreatest
  <2> QED
    BY <1>5, <2>1, <2>2
<1>7. PICK j \in J : TRUE
  BY <1>6
<1> DEFINE K == J \ {j}
<1>8. IsFiniteSet(K) /\ Cardinality(K) = n - 1
  BY <1>5, FS_RemoveElement
<1>9. Cardinality(K) \in Nat
  BY <1>8, FS_CardinalityType
<1>10. HasGreatest(Times(t, f, K))
  <2>1. n \in Nat /\ n - 1 \in Nat
    BY <1>4, <1>8, <1>9
  <2>2. <<n - 1, n>> \in R
    BY <2>1
  <2>3. ~(n - 1 \in N)
    <3> HIDE DEF N, R
    <3> QED
      BY <1>4, <2>2
  <2>4. K \in SUBSET I
    OBVIOUS
  <2> HIDE DEF K, R
  <2> QED
    BY <1>8, <2>1, <2>3, <2>4
<1>11. PICK m \in Times(t, f, K) : \A y \in Times(t, f, K) : m >= y
  BY <1>10 DEF HasGreatest
<1>12. Times(t, f, J) = Times(t, f, K) \cup {f[j]}
  BY DEF Times
<1>13. Times(t, f, K) \subseteq Nat /\ f[j] \in Nat
  BY DEF Times
<1> HIDE DEF K
<1>14. CASE m >= f[j]
  BY <1>5, <1>11, <1>12, <1>14 DEF HasGreatest
<1>15. CASE f[j] > m
  <2>1. \A y \in Times(t, f, J) : f[j] >= y
    BY <1>11, <1>12, <1>13, <1>15
  <2> QED
    BY <1>5, <1>12, <2>1 DEF HasGreatest
<1> QED
  BY <1>11, <1>13, <1>14, <1>15

\* Max is that time.
LEMMA MaxOfTimes ==
    ASSUME NEW I, IsFiniteSet(I), NEW f, \A i \in I : f[i] \in Nat, NEW t \in Nat
    PROVE  /\ Max(Times(t, f, I)) \in Nat
           /\ t <= Max(Times(t, f, I))
           /\ \A i \in I : f[i] <= Max(Times(t, f, I))
<1> DEFINE S == Times(t, f, I)
<1>1. S \subseteq Nat /\ t \in S /\ \A i \in I : f[i] \in S
  BY DEF Times
<1>2. HasGreatest(S)
  BY TimesHaveGreatest
<1> HIDE DEF S
<1>3. Max(S) \in S /\ \A y \in S : Max(S) >= y
  BY <1>2 DEF Max, HasGreatest
<1>4. Max(S) \in Nat /\ t <= Max(S) /\ \A i \in I : f[i] <= Max(S)
  BY <1>1, <1>3
<1> QED
  BY <1>4 DEF S

-----------------------------------------------------------------------------
(* A user's periods, laid out again. *)

\* The paid orders of u that come before o.
Earlier(d, u, o) == {q \in PaidOrders(d, u) : Precedes(d, q, o)}

\* What RebuiltEnd asks of the ends f.
LaidOut(d, u, f) ==
    [o \in Orders |-> Max(Times(d.orders[o].paidAt, f, Earlier(d, u, o))) + Period]

LEMMA RebuiltEndIsChosen ==
    ASSUME NEW d, NEW u
    PROVE  RebuiltEnd(d, u) = CHOOSE f : f = LaidOut(d, u, f)
  BY DEF RebuiltEnd, LaidOut, Times, Earlier

\* The orders that exist.
Known(d) == {o \in Orders : d.orders[o].status # "none"}
Rank(d, u, o) == Cardinality(Earlier(d, u, o))

\* Fewer orders come before an earlier order than before a later one.
LEMMA EarlierRanks ==
    ASSUME NEW d, StoreType(d), IsFiniteSet(Known(d)), NEW u, NEW o \in Orders
    PROVE  /\ IsFiniteSet(Earlier(d, u, o)) /\ Rank(d, u, o) \in Nat
           /\ Rank(d, u, o) <= Cardinality(Known(d))
           /\ Earlier(d, u, o) \subseteq Orders
           /\ \A p \in Earlier(d, u, o) : Rank(d, u, p) < Rank(d, u, o)
<1>1. Earlier(d, u, o) \subseteq Known(d) /\ Earlier(d, u, o) \subseteq Orders
  BY DEF Earlier, PaidOrders, OrdersOf, Known
<1>2. IsFiniteSet(Earlier(d, u, o)) /\ Rank(d, u, o) <= Cardinality(Known(d))
  BY <1>1, FS_Subset DEF Rank
<1>3. Rank(d, u, o) \in Nat
  BY <1>2, FS_CardinalityType DEF Rank
<1>4. ASSUME NEW p \in Earlier(d, u, o) PROVE Rank(d, u, p) < Rank(d, u, o)
  <2>1. p \in Orders /\ \A q \in Orders : d.orders[q].paidAt \in Nat /\ q \in Nat
    BY <1>1, RowAssumption, Rows DEF OrderRow
  <2>2. Precedes(d, p, o)
    BY DEF Earlier
  <2>3. Earlier(d, u, p) \subseteq Earlier(d, u, o)
    <3>1. \A q \in Orders : Precedes(d, q, p) => Precedes(d, q, o)
      BY <2>1, <2>2 DEF Precedes
    <3> QED
      BY <3>1 DEF Earlier, PaidOrders, OrdersOf
  <2>4. p \notin Earlier(d, u, p)
    BY <2>1 DEF Earlier, Precedes
  <2>5. IsFiniteSet(Earlier(d, u, p)) /\ Rank(d, u, p) <= Rank(d, u, o) /\ Rank(d, u, p) # Rank(d, u, o)
    BY <1>2, <2>3, <2>4, FS_Subset DEF Rank
  <2>6. Rank(d, u, p) \in Nat
    BY <2>5, FS_CardinalityType DEF Rank
  <2> QED
    BY <1>3, <2>5, <2>6
<1> QED
  BY <1>1, <1>2, <1>3, <1>4

\* f lays out the orders with fewer than n orders before them.
LaidUpTo(d, u, f, n) ==
    \A o \in Orders : Rank(d, u, o) < n => f[o] = LaidOut(d, u, f)[o]

\* The periods can be laid out as far as one likes.
LEMMA LayingExists ==
    ASSUME NEW d, StoreType(d), IsFiniteSet(Known(d)), NEW u, NEW k \in Nat
    PROVE  \E f : f = [o \in Orders |-> f[o]] /\ LaidUpTo(d, u, f, k)
<1> DEFINE R == {p \in Nat \X Nat : p[1] < p[2]}
           Lays(f, n) == f = [o \in Orders |-> f[o]] /\ LaidUpTo(d, u, f, n)
           N == {n \in Nat : ~ \E f : Lays(f, n)}
<1>1. SUFFICES ASSUME N # {} PROVE FALSE
  <2>1. k \notin N => \E f : Lays(f, k)
    OBVIOUS
  <2> QED
    BY <2>1
<1>2. IsWellFoundedOn(R, Nat)
  BY NatLessThanWellFounded DEF OpToRel
<1>3. PICK n \in N : \A m \in N : ~(<<m, n>> \in R)
  <2>1. N \subseteq Nat
    OBVIOUS
  <2> HIDE DEF R, N
  <2> QED
    BY <1>1, <1>2, <2>1, WFMin
<1>4. n \in Nat /\ n # 0
  <2>1. n \in Nat
    OBVIOUS
  <2>2. Lays([o \in Orders |-> 0], 0)
    BY EarlierRanks DEF LaidUpTo
  <2>3. 0 \notin N
    BY <2>2
  <2> QED
    BY <2>1, <2>3
<1>5. PICK f : Lays(f, n - 1)
  <2>1. n - 1 \in Nat /\ <<n - 1, n>> \in R
    BY <1>4
  <2>2. n - 1 \notin N
    <3> HIDE DEF R, N
    <3> QED
      BY <1>3, <2>1
  <2> QED
    BY <2>1, <2>2
<1> DEFINE g == [o \in Orders |-> IF Rank(d, u, o) < n - 1 THEN f[o] ELSE LaidOut(d, u, f)[o]]
<1>6. ASSUME NEW o \in Orders, Rank(d, u, o) < n PROVE g[o] = LaidOut(d, u, g)[o]
  <2>1. /\ Rank(d, u, o) \in Nat /\ Earlier(d, u, o) \subseteq Orders
        /\ \A p \in Earlier(d, u, o) : Rank(d, u, p) \in Nat /\ Rank(d, u, p) < Rank(d, u, o)
    BY EarlierRanks
  <2>2. \A p \in Earlier(d, u, o) : Rank(d, u, p) < n - 1
    BY <1>4, <1>6, <2>1
  <2>3. \A p \in Earlier(d, u, o) : g[p] = f[p]
    BY <2>1, <2>2
  <2>4. Times(d.orders[o].paidAt, g, Earlier(d, u, o)) = Times(d.orders[o].paidAt, f, Earlier(d, u, o))
    <3> HIDE DEF g
    <3> QED
      BY <2>3 DEF Times
  <2>5. g[o] = LaidOut(d, u, f)[o]
    BY <1>5 DEF LaidUpTo
  <2>6. LaidOut(d, u, f)[o] = LaidOut(d, u, g)[o]
    <3> HIDE DEF g
    <3> QED
      BY <2>4 DEF LaidOut
  <2> QED
    BY <2>5, <2>6
<1>7. g = [o \in Orders |-> g[o]]
  OBVIOUS
<1>8. Lays(g, n)
  <2> HIDE DEF g
  <2> QED
    BY <1>6, <1>7 DEF LaidUpTo
<1> QED
  BY <1>3, <1>8

\* RebuiltEnd lays out every order.
LEMMA RebuiltEndLays ==
    ASSUME NEW d, StoreType(d), IsFiniteSet(Known(d)), NEW u
    PROVE  RebuiltEnd(d, u) = LaidOut(d, u, RebuiltEnd(d, u))
<1> DEFINE k == Cardinality(Known(d)) + 1
<1>1. k \in Nat /\ \A o \in Orders : Rank(d, u, o) \in Nat /\ Rank(d, u, o) < k
  <2>1. Cardinality(Known(d)) \in Nat
    BY FS_CardinalityType
  <2>2. \A o \in Orders : Rank(d, u, o) \in Nat /\ Rank(d, u, o) <= Cardinality(Known(d))
    BY EarlierRanks
  <2> QED
    BY <2>1, <2>2
<1> HIDE DEF k
<1>2. PICK f : f = [o \in Orders |-> f[o]] /\ LaidUpTo(d, u, f, k)
  BY <1>1, LayingExists
<1>3. \A o \in Orders : f[o] = LaidOut(d, u, f)[o]
  BY <1>1, <1>2 DEF LaidUpTo
<1>4. LaidOut(d, u, f) = [o \in Orders |-> LaidOut(d, u, f)[o]]
  BY DEF LaidOut
<1>5. f = LaidOut(d, u, f)
  BY <1>2, <1>3, <1>4
<1>6. LET g == CHOOSE h : h = LaidOut(d, u, h) IN g = LaidOut(d, u, g)
  BY Zenon, <1>5
<1> QED
  BY <1>6, RebuiltEndIsChosen

\* The end of a period is a time, no period starts before its order was paid, and
\* none before the end of an earlier one.
LEMMA RebuiltPeriods ==
    ASSUME NEW d, StoreType(d), IsFiniteSet(Known(d)), NEW u, NEW o \in Orders
    PROVE  LET end == RebuiltEnd(d, u)
           IN  /\ end[o] \in Nat /\ end[o] - Period \in Nat
               /\ \A p \in Earlier(d, u, o) : end[p] <= end[o] - Period
<1> DEFINE end == RebuiltEnd(d, u)
           R == {p \in Nat \X Nat : p[1] < p[2]}
           N == {n \in Nat : \E q \in Orders : Rank(d, u, q) = n /\ end[q] \notin Nat}
           Latest(q) == Max(Times(d.orders[q].paidAt, end, Earlier(d, u, q)))
<1>1. end = LaidOut(d, u, end)
  BY RebuiltEndLays
<1> HIDE DEF end
<1>2. \A q \in Orders : end[q] = Latest(q) + Period
  BY <1>1 DEF LaidOut
<1>3. ASSUME NEW q \in Orders, \A p \in Earlier(d, u, q) : end[p] \in Nat
      PROVE  Latest(q) \in Nat /\ \A p \in Earlier(d, u, q) : end[p] <= Latest(q)
  <2>1. d.orders[q].paidAt \in Nat /\ IsFiniteSet(Earlier(d, u, q))
    BY EarlierRanks, Rows DEF OrderRow
  <2> QED
    BY <1>3, <2>1, MaxOfTimes
<1> HIDE DEF Latest
<1>4. Period \in Nat
  BY TimeAssumption
<1>5. \A q \in Orders : end[q] \in Nat
  <2>1. SUFFICES ASSUME N # {} PROVE FALSE
    <3>1. \A q \in Orders : Rank(d, u, q) \in Nat
      BY EarlierRanks
    <3> QED
      BY <3>1
  <2>2. IsWellFoundedOn(R, Nat)
    BY NatLessThanWellFounded DEF OpToRel
  <2>3. PICK n \in N : \A m \in N : ~(<<m, n>> \in R)
    <3>1. N \subseteq Nat
      OBVIOUS
    <3> HIDE DEF R, N
    <3> QED
      BY <2>1, <2>2, <3>1, WFMin
  <2>4. PICK q \in Orders : Rank(d, u, q) = n /\ end[q] \notin Nat
    BY <2>3
  <2>5. ASSUME NEW p \in Earlier(d, u, q) PROVE end[p] \in Nat
    <3>1. p \in Orders /\ Rank(d, u, p) < Rank(d, u, q)
      BY EarlierRanks
    <3>2. Rank(d, u, p) \in Nat /\ n \in Nat
      BY <3>1, EarlierRanks
    <3>3. <<Rank(d, u, p), n>> \in R
      BY <2>4, <3>1, <3>2
    <3>4. Rank(d, u, p) \notin N
      BY <2>3, <3>3
    <3> QED
      BY <3>1, <3>2, <3>4
  <2>6. Latest(q) \in Nat
    BY <1>3, <2>5
  <2> QED
    BY <1>2, <1>4, <2>4, <2>6
<1>6. \A p \in Earlier(d, u, o) : p \in Orders
  BY EarlierRanks
<1>7. Latest(o) \in Nat /\ \A p \in Earlier(d, u, o) : end[p] \in Nat /\ end[p] <= Latest(o)
  BY <1>3, <1>5, <1>6
<1>8. end[o] = Latest(o) + Period
  BY <1>2
<1>9. end[o] \in Nat /\ end[o] - Period = Latest(o)
  BY <1>4, <1>7, <1>8
<1>10. /\ end[o] \in Nat /\ end[o] - Period \in Nat
       /\ \A p \in Earlier(d, u, o) : end[p] <= end[o] - Period
  BY <1>7, <1>9
<1> QED
  BY <1>10 DEF end

-----------------------------------------------------------------------------
(* The periods of a store at time n. *)

EntitlementRow == [status: {"none", "active", "expired", "revoked"}, start: Nat, end: Nat]
Bought == {"paid", "refund_pending"}

\* ReportedLate, of any store
Late(d, a, b) ==
    /\ d.ents[a].status = "expired"
    /\ d.orders[b].provider = "wechat_native"
    /\ d.orders[b].paidAt < d.ents[a].end

Apart(d, o, p) ==
    \/ d.ents[o].end <= d.ents[p].start
    \/ d.ents[p].end <= d.ents[o].start
    \/ Late(d, o, p)
    \/ Late(d, p, o)

\* A period that is held was bought, is not called expired before its end, and is
\* apart from the user's others.
PeriodOk(d, o, n) ==
    Held(d.ents[o]) =>
        /\ d.orders[o].status \in Bought
        /\ d.ents[o].status = "expired" => d.ents[o].end <= n
        /\ \A p \in Orders \ {o} :
              d.orders[p].user = d.orders[o].user /\ Held(d.ents[p]) => Apart(d, o, p)

Laid(d, n) ==
    /\ d.ents \in [Orders -> EntitlementRow]
    /\ IsFiniteSet(Known(d))
    /\ \A o \in Orders : PeriodOk(d, o, n)

\* A store is made of its tables.
LEMMA TablesOf ==
    ASSUME NEW d, StoreType(d)
    PROVE  /\ d \in [orders: {d.orders}, ents: {d.ents}, coupons: {d.coupons}, pays: {d.pays},
                     bindings: {d.bindings}, rewards: {d.rewards}]
           /\ d.orders \in [Orders -> OrderRow]
  BY DEF StoreType

\* What Rebuild writes.
RebuiltRow(d, u, o) ==
    IF o \in PaidOrders(d, u)
      THEN [status |-> IF RebuiltEnd(d, u)[o] <= now THEN "expired" ELSE "active",
            start |-> RebuiltEnd(d, u)[o] - Period, end |-> RebuiltEnd(d, u)[o]]
    ELSE IF d.orders[o].user = u /\ d.ents[o].status # "none"
      THEN [d.ents[o] EXCEPT !.status = "revoked"]
    ELSE d.ents[o]

LEMMA RebuildTables ==
    ASSUME NEW d, StoreType(d), NEW u
    PROVE  /\ Rebuild(d, u).orders = d.orders
           /\ Rebuild(d, u).ents = [o \in Orders |-> RebuiltRow(d, u, o)]
<1>1. Rebuild(d, u) = [d EXCEPT !.ents = [o \in Orders |-> RebuiltRow(d, u, o)]]
  BY DEF Rebuild, RebuiltRow
<1> QED
  BY <1>1, TablesOf

\* Laying the periods of a user out again sets them right, whatever they were.
LEMMA RebuildLays ==
    ASSUME NEW d, StoreType(d), NEW u, now \in Nat,
           d.ents \in [Orders -> EntitlementRow], IsFiniteSet(Known(d)),
           \A o \in Orders : d.orders[o].user # u => PeriodOk(d, o, now)
    PROVE  Laid(Rebuild(d, u), now)
<1> DEFINE e == Rebuild(d, u)
           end == RebuiltEnd(d, u)
<1>1. e.orders = d.orders /\ e.ents = [o \in Orders |-> RebuiltRow(d, u, o)]
  BY RebuildTables
<1>2. \A o \in Orders : /\ end[o] \in Nat /\ end[o] - Period \in Nat
                        /\ \A p \in Earlier(d, u, o) : end[p] <= end[o] - Period
  BY RebuiltPeriods
<1> HIDE DEF e
<1>3. ASSUME NEW o \in Orders, o \in PaidOrders(d, u)
      PROVE  /\ e.ents[o] \in EntitlementRow
             /\ e.ents[o].start = end[o] - Period /\ e.ents[o].end = end[o]
             /\ e.ents[o].status = "expired" => end[o] <= now
  <2> DEFINE s == IF end[o] <= now THEN "expired" ELSE "active"
  <2>1. e.ents[o] = [status |-> s, start |-> end[o] - Period, end |-> end[o]]
    BY <1>1, <1>3 DEF RebuiltRow
  <2>2. s \in {"active", "expired"} /\ (s = "expired" => end[o] <= now)
    OBVIOUS
  <2>3. end[o] \in Nat /\ end[o] - Period \in Nat
    BY <1>2
  <2> HIDE DEF s, end, e
  <2> QED
    BY <2>1, <2>2, <2>3 DEF EntitlementRow
<1>4. ASSUME NEW o \in Orders, o \notin PaidOrders(d, u), d.orders[o].user = u
      PROVE  e.ents[o] \in EntitlementRow /\ ~Held(e.ents[o])
  <2>1. d.ents[o] \in EntitlementRow
    OBVIOUS
  <2>2. e.ents[o] = IF d.ents[o].status # "none" THEN [d.ents[o] EXCEPT !.status = "revoked"] ELSE d.ents[o]
    BY <1>1, <1>4 DEF RebuiltRow
  <2> QED
    BY <2>1, <2>2 DEF EntitlementRow, Held
<1>5. ASSUME NEW o \in Orders, d.orders[o].user # u PROVE e.ents[o] = d.ents[o]
  BY <1>1, <1>5 DEF RebuiltRow, PaidOrders, OrdersOf
<1> HIDE DEF end
<1>6. e.ents \in [Orders -> EntitlementRow]
  <2>1. ASSUME NEW o \in Orders PROVE e.ents[o] \in EntitlementRow
    <3>1. CASE o \in PaidOrders(d, u)
      BY <1>3, <3>1
    <3>2. CASE o \notin PaidOrders(d, u) /\ d.orders[o].user = u
      BY <1>4, <3>2
    <3>3. CASE d.orders[o].user # u
      BY <1>5, <3>3
    <3> QED
      BY <3>1, <3>2, <3>3
  <2> QED
    BY <1>1, <2>1
<1>7. Known(e) = Known(d)
  BY <1>1 DEF Known
<1>8. ASSUME NEW o \in Orders, d.orders[o].user # u PROVE PeriodOk(e, o, now)
  <2>1. PeriodOk(d, o, now) /\ e.ents[o] = d.ents[o]
    BY <1>5, <1>8
  <2>2. \A p \in Orders : d.orders[p].user = d.orders[o].user => e.ents[p] = d.ents[p]
    BY <1>5, <1>8
  <2> QED
    BY <1>1, <2>1, <2>2 DEF PeriodOk, Apart, Late
<1>9. ASSUME NEW o \in Orders, d.orders[o].user = u PROVE PeriodOk(e, o, now)
  <2> SUFFICES ASSUME Held(e.ents[o])
               PROVE  /\ e.orders[o].status \in Bought
                      /\ e.ents[o].status = "expired" => e.ents[o].end <= now
                      /\ \A p \in Orders \ {o} :
                            e.orders[p].user = e.orders[o].user /\ Held(e.ents[p]) => Apart(e, o, p)
    BY DEF PeriodOk
  <2>1. o \in PaidOrders(d, u)
    BY <1>4, <1>9
  <2>2. e.ents[o].start = end[o] - Period /\ e.ents[o].end = end[o]
        /\ (e.ents[o].status = "expired" => end[o] <= now)
    BY <1>3, <2>1
  <2>3. e.orders[o].status \in Bought
    BY <1>1, <2>1 DEF PaidOrders, Bought
  <2>4. ASSUME NEW p \in Orders \ {o}, e.orders[p].user = e.orders[o].user, Held(e.ents[p])
        PROVE  Apart(e, o, p)
    <3>1. p \in PaidOrders(d, u)
      BY <1>1, <1>4, <1>9, <2>4
    <3>2. e.ents[p].start = end[p] - Period /\ e.ents[p].end = end[p]
      BY <1>3, <3>1
    <3>3. p \in Earlier(d, u, o) \/ o \in Earlier(d, u, p)
      <4>1. d.orders[o].paidAt \in Nat /\ d.orders[p].paidAt \in Nat /\ o \in Nat /\ p \in Nat
        BY RowAssumption, Rows DEF OrderRow
      <4>2. Precedes(d, o, p) \/ Precedes(d, p, o)
        BY <4>1 DEF Precedes
      <4> QED
        BY <2>1, <3>1, <4>2 DEF Earlier
    <3>4. end[p] <= end[o] - Period \/ end[o] <= end[p] - Period
      BY <1>2, <3>3
    <3> QED
      BY <2>2, <3>2, <3>4 DEF Apart
  <2> QED
    BY <2>2, <2>3, <2>4
<1>10. Laid(e, now)
  BY <1>6, <1>7, <1>8, <1>9 DEF Laid
<1> QED
  BY <1>10 DEF e

\* What becomes of the orders, x aside: an order that exists keeps its provider, one
\* that is settled was so before, with the same row but for its status.
Follows(d, e, x) ==
    \A o \in Orders :
        /\ d.orders[o].status # "none" =>
              e.orders[o].status # "none" /\ e.orders[o].provider = d.orders[o].provider
        /\ e.orders[o].status = "none" => e.orders[o].provider = d.orders[o].provider
        /\ o # x /\ e.orders[o].status \in Settled =>
              /\ d.orders[o].status \in Settled
              /\ e.orders[o].user = d.orders[o].user /\ e.orders[o].kind = d.orders[o].kind
              /\ e.orders[o].coupon = d.orders[o].coupon
              /\ e.orders[o].paidAt = d.orders[o].paidAt

LEMMA FollowsTransitive ==
    ASSUME NEW d, NEW e, NEW f, NEW x, Follows(d, e, None), Follows(e, f, x)
    PROVE  Follows(d, f, x)
<1> SUFFICES ASSUME NEW o \in Orders
             PROVE  /\ d.orders[o].status # "none" =>
                          f.orders[o].status # "none" /\ f.orders[o].provider = d.orders[o].provider
                    /\ f.orders[o].status = "none" => f.orders[o].provider = d.orders[o].provider
                    /\ o # x /\ f.orders[o].status \in Settled =>
                          /\ d.orders[o].status \in Settled
                          /\ f.orders[o].user = d.orders[o].user /\ f.orders[o].kind = d.orders[o].kind
                          /\ f.orders[o].coupon = d.orders[o].coupon
                          /\ f.orders[o].paidAt = d.orders[o].paidAt
  BY DEF Follows
<1>1. o # None
  BY NoneAssumption
<1> QED
  BY <1>1 DEF Follows

\* Some periods that are over by m are called expired, and no other changes.
RunOut(d, e, m) ==
    /\ e.ents \in [Orders -> EntitlementRow]
    /\ \A o \in Orders :
          \/ e.ents[o] = d.ents[o]
          \/ /\ d.ents[o].status = "active" /\ d.ents[o].end <= m
             /\ e.ents[o] = [d.ents[o] EXCEPT !.status = "expired"]

\* No order that is paid or waits for its refund becomes anything else.
StillBought(d, e) ==
    \A o \in Orders : d.orders[o].status \in Bought => e.orders[o].status \in Bought

\* Periods stay laid out while their orders stay bought and they only run out.
LEMMA LaidStays ==
    ASSUME NEW d, NEW e, NEW n \in Nat, NEW m \in Nat, n <= m, Laid(d, n),
           Follows(d, e, None), RunOut(d, e, m), StillBought(d, e), IsFiniteSet(Known(e))
    PROVE  Laid(e, m)
<1>1. ASSUME NEW o \in Orders, Held(e.ents[o])
      PROVE  /\ Held(d.ents[o])
             /\ e.ents[o].start = d.ents[o].start /\ e.ents[o].end = d.ents[o].end
             /\ d.ents[o].status = "expired" => e.ents[o].status = "expired"
             /\ e.ents[o].status = "expired" =>
                   d.ents[o].end <= m \/ d.ents[o].status = "expired"
             /\ d.ents[o] \in EntitlementRow
  BY <1>1 DEF RunOut, Laid, Held, EntitlementRow
<1>2. ASSUME NEW o \in Orders, Held(e.ents[o])
      PROVE  /\ e.orders[o].status \in Bought
             /\ e.orders[o].user = d.orders[o].user /\ e.orders[o].paidAt = d.orders[o].paidAt
             /\ e.orders[o].provider = d.orders[o].provider
  <2>1. d.orders[o].status \in Bought
    BY <1>1, <1>2 DEF Laid, PeriodOk
  <2>2. e.orders[o].status \in Bought
    BY <2>1 DEF StillBought
  <2>3. d.orders[o].status # "none" /\ e.orders[o].status \in Settled /\ o # None
    BY <2>1, <2>2, NoneAssumption DEF Bought, Settled
  <2> QED
    BY <2>2, <2>3 DEF Follows
<1>3. ASSUME NEW o \in Orders, Held(e.ents[o]), NEW p \in Orders \ {o}, Held(e.ents[p]),
             e.orders[p].user = e.orders[o].user
      PROVE  Apart(e, o, p)
  <2>1. d.orders[p].user = d.orders[o].user
    BY <1>2, <1>3
  <2>2. Apart(d, o, p)
    BY <1>1, <1>3, <2>1 DEF Laid, PeriodOk
  <2> QED
    BY <1>1, <1>2, <1>3, <2>2 DEF Apart, Late
<1>4. ASSUME NEW o \in Orders, Held(e.ents[o]), e.ents[o].status = "expired"
      PROVE  e.ents[o].end <= m
  <2>1. d.ents[o].status = "expired" => d.ents[o].end <= n
    BY <1>1, <1>4 DEF Laid, PeriodOk
  <2>2. d.ents[o].end \in Nat
    BY <1>1, <1>4 DEF EntitlementRow
  <2> QED
    BY <1>1, <1>4, <2>1, <2>2
<1>5. ASSUME NEW o \in Orders PROVE PeriodOk(e, o, m)
  BY <1>2, <1>3, <1>4 DEF PeriodOk
<1> QED
  BY <1>5 DEF Laid, RunOut

\* Time passes.
LEMMA LaidLater ==
    ASSUME NEW d, NEW n \in Nat, NEW m \in Nat, n <= m, Laid(d, n)
    PROVE  Laid(d, m)
<1>1. Follows(d, d, None) /\ RunOut(d, d, m) /\ StillBought(d, d) /\ IsFiniteSet(Known(d))
  BY DEF Follows, RunOut, StillBought, Laid
<1> QED
  BY <1>1, LaidStays

\* The tables of orders and entitlements stay as they are.
SameTables(d, e) == e.orders = d.orders /\ e.ents = d.ents

LEMMA SameTablesLaid ==
    ASSUME NEW d, NEW e, NEW n, SameTables(d, e), Laid(d, n)
    PROVE  Laid(e, n) /\ Follows(d, e, None)
<1>1. Known(e) = Known(d) /\ \A o \in Orders : PeriodOk(d, o, n) <=> PeriodOk(e, o, n)
  BY DEF SameTables, Known, PeriodOk, Apart, Late
<1> QED
  BY <1>1 DEF SameTables, Laid, Follows

\* One order gets another row.
LEMMA RowChanged ==
    ASSUME NEW d, StoreType(d), NEW e, NEW n \in Nat, Laid(d, n), NEW o \in Orders, NEW r,
           e.ents = d.ents, e.orders = [d.orders EXCEPT ![o] = r], r.status # "none",
           d.orders[o].status # "none" => r.provider = d.orders[o].provider,
           d.orders[o].status \in Bought => r.status \in Bought,
           r.status \in Settled =>
              /\ d.orders[o].status \in Settled
              /\ r.user = d.orders[o].user /\ r.kind = d.orders[o].kind
              /\ r.coupon = d.orders[o].coupon /\ r.paidAt = d.orders[o].paidAt
    PROVE  Laid(e, n) /\ Follows(d, e, None)
<1>1. e.orders[o] = r /\ \A p \in Orders \ {o} : e.orders[p] = d.orders[p]
  BY TablesOf
<1>2. Follows(d, e, None)
  BY <1>1 DEF Follows
<1>3. StillBought(d, e)
  BY <1>1 DEF StillBought
<1>4. IsFiniteSet(Known(e))
  <2>1. IsFiniteSet(Known(d) \cup {o})
    BY FS_AddElement DEF Laid
  <2>2. Known(e) \subseteq Known(d) \cup {o}
    BY <1>1 DEF Known
  <2> QED
    BY <2>1, <2>2, FS_Subset
<1>5. RunOut(d, e, n)
  BY DEF RunOut, Laid
<1> QED
  BY <1>2, <1>3, <1>4, <1>5, LaidStays

\* Expiry, at a time that has come.
LEMMA ExpireLaid ==
    ASSUME NEW d, StoreType(d), NEW us, NEW t \in Nat, NEW n \in Nat, t <= n, Laid(d, n)
    PROVE  Laid(Expire(d, us, t), n) /\ Follows(d, Expire(d, us, t), None)
<1> DEFINE e == Expire(d, us, t)
           E == [o \in Orders |-> LET x == d.ents[o] IN
                   IF d.orders[o].user \in us /\ x.status = "active" /\ x.end <= t
                   THEN [x EXCEPT !.status = "expired"] ELSE x]
<1>1. \A o \in Orders :
        \/ e.orders[o] = d.orders[o]
        \/ /\ d.orders[o].status = "pending"
           /\ e.orders[o] = [d.orders[o] EXCEPT !.status = "expired"]
  BY ExpireTables
<1>2. e.ents = E
  BY TablesOf DEF Expire
<1>3. \A o \in Orders : d.ents[o] \in EntitlementRow
  BY DEF Laid
<1> HIDE DEF e
<1>4. RunOut(d, e, n)
  <2>1. ASSUME NEW o \in Orders
        PROVE  \/ E[o] = d.ents[o]
               \/ /\ d.ents[o].status = "active" /\ d.ents[o].end <= n
                  /\ E[o] = [d.ents[o] EXCEPT !.status = "expired"]
    <3>1. d.ents[o].end \in Nat
      BY <1>3 DEF EntitlementRow
    <3> QED
      BY <3>1
  <2>2. ASSUME NEW o \in Orders PROVE E[o] \in EntitlementRow
    <3>1. [d.ents[o] EXCEPT !.status = "expired"] \in EntitlementRow
      BY <1>3 DEF EntitlementRow
    <3> QED
      BY <1>3, <2>1, <3>1
  <2> QED
    BY <1>2, <2>1, <2>2 DEF RunOut
<1>5. ASSUME NEW o \in Orders
      PROVE  /\ \/ e.orders[o].status = d.orders[o].status
                \/ e.orders[o].status = "expired" /\ d.orders[o].status = "pending"
             /\ e.orders[o].provider = d.orders[o].provider /\ e.orders[o].user = d.orders[o].user
             /\ e.orders[o].kind = d.orders[o].kind /\ e.orders[o].coupon = d.orders[o].coupon
             /\ e.orders[o].paidAt = d.orders[o].paidAt
  <2> DEFINE r == d.orders[o]
             x == [r EXCEPT !.status = "expired"]
  <2>1. r \in OrderRow
    BY Rows
  <2>2. /\ x.status = "expired" /\ x.provider = r.provider /\ x.user = r.user
        /\ x.kind = r.kind /\ x.coupon = r.coupon /\ x.paidAt = r.paidAt
    BY <2>1 DEF OrderRow
  <2>3. e.orders[o] = r \/ (r.status = "pending" /\ e.orders[o] = x)
    BY <1>1
  <2> HIDE DEF r, x
  <2>4. /\ \/ e.orders[o].status = r.status
           \/ e.orders[o].status = "expired" /\ r.status = "pending"
        /\ e.orders[o].provider = r.provider /\ e.orders[o].user = r.user
        /\ e.orders[o].kind = r.kind /\ e.orders[o].coupon = r.coupon
        /\ e.orders[o].paidAt = r.paidAt
    BY <2>2, <2>3
  <2> QED
    BY <2>4 DEF r
<1>6. Follows(d, e, None) /\ StillBought(d, e) /\ Known(e) = Known(d)
  BY <1>5 DEF Follows, StillBought, Known, Bought, Settled
<1>7. Laid(e, n)
  BY <1>4, <1>6, LaidStays DEF Laid
<1> QED
  BY <1>6, <1>7 DEF e

\* A new price, or a new order.
LEMMA PlacedLaid ==
    ASSUME NEW d, StoreType(d), NEW o \in Orders, NEW u, NEW p, NEW c, NEW n \in Nat, Laid(d, n),
           d.orders[o].status \in {"none", "pending"},
           d.orders[o].status = "pending" => d.orders[o].provider = p
    PROVE  Laid(Placed(d, o, u, p, c), n) /\ Follows(d, Placed(d, o, u, p, c), None)
<1> DEFINE r == [status |-> "pending", user |-> u, provider |-> p, kind |-> Kind(d, u),
                 coupon |-> c, until |-> now + Ttl, paidAt |-> 0]
           e == Placed(d, o, u, p, c)
<1>1. e = [d EXCEPT !.orders[o] = r]
  BY DEF Placed
<1>2. r.status = "pending" /\ r.provider = p
  OBVIOUS
<1> HIDE DEF r
<1>3. e.ents = d.ents /\ e.orders = [d.orders EXCEPT ![o] = r]
  BY <1>1, TablesOf
<1> HIDE DEF e
<1>4. r.status \notin Settled /\ r.status # "none" /\ d.orders[o].status \notin Bought
      /\ (d.orders[o].status # "none" => r.provider = d.orders[o].provider)
  BY <1>2 DEF Settled, Bought
<1>5. Laid(e, n) /\ Follows(d, e, None)
  BY <1>3, <1>4, RowChanged
<1> QED
  BY <1>5 DEF e

\* An order that is not settled is closed, and a payment row may say why.
Closes(d, e, o) == e.ents = d.ents /\ e.orders = [d.orders EXCEPT ![o].status = "closed"]

LEMMA ClosedLaid ==
    ASSUME NEW d, StoreType(d), NEW e, NEW o \in Orders, NEW n \in Nat, Laid(d, n),
           d.orders[o].status \in {"pending", "closed"}, Closes(d, e, o)
    PROVE  Laid(e, n) /\ Follows(d, e, None)
<1> DEFINE r == [d.orders[o] EXCEPT !.status = "closed"]
<1>1. r.status = "closed" /\ r.provider = d.orders[o].provider
  BY Rows DEF OrderRow
<1>2. e.ents = d.ents /\ e.orders = [d.orders EXCEPT ![o] = r]
  BY DEF Closes
<1> HIDE DEF r
<1>3. r.status \notin Settled /\ r.status # "none" /\ d.orders[o].status \notin Bought
  BY <1>1 DEF Settled, Bought
<1> QED
  BY <1>1, <1>2, <1>3, RowChanged

\* A settled order is paid again, or waits for its refund again.
LEMMA ResettledLaid ==
    ASSUME NEW d, StoreType(d), NEW o \in Orders, d.orders[o].status \in Settled,
           NEW payment, NEW order \in {"paid", "refund_pending"}, NEW n \in Nat, Laid(d, n)
    PROVE  /\ Laid(Resettled(d, o, payment, order), n)
           /\ Follows(d, Resettled(d, o, payment, order), None)
<1> DEFINE r == [d.orders[o] EXCEPT !.status = order]
           e == Resettled(d, o, payment, order)
<1>1. /\ r.status = order /\ r.provider = d.orders[o].provider /\ r.user = d.orders[o].user
      /\ r.kind = d.orders[o].kind /\ r.coupon = d.orders[o].coupon
      /\ r.paidAt = d.orders[o].paidAt
  BY Rows DEF OrderRow
<1>2. e.ents = d.ents /\ e.orders = [d.orders EXCEPT ![o] = r]
  BY TablesOf DEF Resettled
<1> HIDE DEF r, e
<1>3. r.status \in Bought /\ r.status # "none"
  BY <1>1 DEF Bought
<1>4. Laid(e, n) /\ Follows(d, e, None)
  BY <1>1, <1>2, <1>3, RowChanged
<1> QED
  BY <1>4 DEF e

\* A record of the six tables.
IsStore(d) ==
    d \in [orders: {d.orders}, ents: {d.ents}, coupons: {d.coupons}, pays: {d.pays},
           bindings: {d.bindings}, rewards: {d.rewards}]

\* What is done to coupons and rewards leaves orders and entitlements alone.
LEMMA SpentTables ==
    ASSUME NEW d, IsStore(d), NEW o
    PROVE  IsStore(CouponSpent(d, o)) /\ SameTables(d, CouponSpent(d, o))
<1>1. CASE d.orders[o].coupon = None
  BY <1>1 DEF CouponSpent, SameTables
<1>2. CASE d.orders[o].coupon # None
  BY <1>2 DEF CouponSpent, SameTables, IsStore
<1> QED
  BY <1>1, <1>2

LEMMA RewardTables ==
    ASSUME NEW d, IsStore(d), NEW o, NEW t
    PROVE  IsStore(WithReward(d, o, t)) /\ SameTables(d, WithReward(d, o, t))
<1>1. CASE EarnsReward(d, d.orders[o])
  BY <1>1 DEF WithReward, SameTables, IsStore
<1>2. CASE ~EarnsReward(d, d.orders[o])
  BY <1>2 DEF WithReward, SameTables
<1> QED
  BY <1>1, <1>2

LEMMA RestoredTables ==
    ASSUME NEW d, IsStore(d), NEW o
    PROVE  IsStore(CouponRestored(d, o)) /\ SameTables(d, CouponRestored(d, o))
<1> DEFINE c == d.orders[o].coupon
<1>1. CASE c # None /\ d.coupons[c].status = "used" /\ d.coupons[c].usedBy = o
  BY <1>1 DEF CouponRestored, SameTables, IsStore
<1>2. CASE ~(c # None /\ d.coupons[c].status = "used" /\ d.coupons[c].usedBy = o)
  BY <1>2 DEF CouponRestored, SameTables
<1> QED
  BY <1>1, <1>2

LEMMA RolledBackTables ==
    ASSUME NEW d, IsStore(d), NEW o
    PROVE  IsStore(RewardRolledBack(d, o)) /\ SameTables(d, RewardRolledBack(d, o))
<1>1. CASE TriggeredReward(d, o)
  BY <1>1 DEF RewardRolledBack, SameTables, IsStore
<1>2. CASE ~TriggeredReward(d, o)
  BY <1>2 DEF RewardRolledBack, SameTables
<1> QED
  BY <1>1, <1>2

\* What a confirmed payment writes into orders and entitlements.
PaidRow(d, o, t) == [d.orders[o] EXCEPT !.status = "paid", !.paidAt = t]
NewPeriod(d, o, t) ==
    [status |-> "active", start |-> ChainStart(d, d.orders[o].user, t),
     end |-> ChainStart(d, d.orders[o].user, t) + Period]

Confirms(d, e, o, t) ==
    /\ e.orders = [d.orders EXCEPT ![o] = PaidRow(d, o, t)]
    /\ e.ents = [d.ents EXCEPT ![o] = NewPeriod(d, o, t)]

LEMMA ConfirmedTables ==
    ASSUME NEW d, StoreType(d), NEW o \in Orders, NEW t
    PROVE  Confirms(d, Confirmed(d, o, t), o, t)
<1> DEFINE x == NewPeriod(d, o, t)
           paid == Paid(d, o, t, x)
           spent == CouponSpent(paid, o)
           e == WithReward(spent, o, t)
<1>1. e = Confirmed(d, o, t)
  BY DEF Confirmed, Paid, NewPeriod
<1>2. IsStore(d) /\ d.orders \in [Orders -> OrderRow]
  BY TablesOf DEF IsStore
<1> HIDE DEF x
<1>3. /\ IsStore(paid) /\ paid.ents = [d.ents EXCEPT ![o] = x]
      /\ paid.orders = [d.orders EXCEPT ![o] = PaidRow(d, o, t)]
  BY <1>2 DEF IsStore, Paid, PaidRow
<1> HIDE DEF paid
<1>4. IsStore(spent) /\ SameTables(paid, spent)
  BY <1>3, SpentTables
<1> HIDE DEF spent
<1>5. IsStore(e) /\ SameTables(spent, e)
  BY <1>4, RewardTables
<1> HIDE DEF e
<1>6. e.orders = paid.orders /\ e.ents = paid.ents
  BY <1>4, <1>5 DEF SameTables
<1> QED
  BY <1>1, <1>3, <1>6 DEF x, Confirms

\* A period that is added starts after every active one; with a payment of the past it
\* may meet one that is over by now.
LEMMA ConfirmedLaid ==
    ASSUME NEW d, StoreType(d), NEW o \in Orders, NEW t \in Nat, NEW n \in Nat, t <= n,
           Laid(d, n), d.orders[o].status = "pending",
           t = n \/ d.orders[o].provider = "wechat_native"
    PROVE  Laid(Confirmed(d, o, t), n) /\ Follows(d, Confirmed(d, o, t), o)
<1> DEFINE u == d.orders[o].user
           I == {p \in OrdersOf(d, u) : d.ents[p].status = "active"}
           f == [p \in Orders |-> d.ents[p].end]
           start == ChainStart(d, u, t)
           e == Confirmed(d, o, t)
           r == PaidRow(d, o, t)
           x == NewPeriod(d, o, t)
<1>1. e.orders = [d.orders EXCEPT ![o] = r] /\ e.ents = [d.ents EXCEPT ![o] = x]
  BY ConfirmedTables DEF Confirms
<1>2. /\ r.status = "paid" /\ r.paidAt = t /\ r.user = u /\ r.provider = d.orders[o].provider
  <2>1. d.orders[o] \in OrderRow
    BY Rows
  <2> QED
    BY Zenon, <2>1 DEF OrderRow, PaidRow
<1> HIDE DEF e, r
<1>3. start \in Nat /\ t <= start /\ \A p \in I : d.ents[p].end <= start
  <2>1. I \subseteq Known(d) /\ I \subseteq Orders
    BY DEF OrdersOf, Laid, PeriodOk, Held, Known, Bought
  <2>2. IsFiniteSet(I)
    BY <2>1, FS_Subset DEF Laid
  <2>3. \A p \in I : f[p] \in Nat
    BY <2>1 DEF Laid, EntitlementRow
  <2>4. start = Max(Times(t, f, I))
    <3>1. ActiveEnds(d, u) = {f[p] : p \in I}
      BY <2>1 DEF ActiveEnds
    <3> HIDE DEF f, I
    <3> QED
      BY <3>1 DEF ChainStart, Times
  <2> HIDE DEF I, f
  <2>5. start \in Nat /\ t <= start /\ \A p \in I : f[p] <= start
    BY <2>2, <2>3, <2>4, MaxOfTimes
  <2> QED
    BY <2>1, <2>5 DEF f
<1> HIDE DEF start
<1>4. x \in EntitlementRow /\ x.status = "active" /\ x.start = start
  <2>1. x = [status |-> "active", start |-> start, end |-> start + Period]
    BY DEF NewPeriod, start
  <2> HIDE DEF x
  <2> QED
    BY <1>3, <2>1, TimeAssumption DEF EntitlementRow
<1> HIDE DEF x
<1>5. /\ e.orders[o] = r /\ \A p \in Orders \ {o} : e.orders[p] = d.orders[p]
      /\ e.ents[o] = x /\ \A p \in Orders \ {o} : e.ents[p] = d.ents[p]
      /\ e.ents \in [Orders -> EntitlementRow]
  BY <1>1, <1>4, TablesOf DEF Laid
<1>6. Follows(d, e, o)
  BY <1>2, <1>5 DEF Follows
<1>7. Known(e) = Known(d)
  BY <1>2, <1>5 DEF Known
<1>8. ASSUME NEW p \in Orders \ {o}, Held(e.ents[p]), e.orders[p].user = u
      PROVE  Apart(e, p, o)
  <2>1. p \in Orders /\ Held(d.ents[p]) /\ d.orders[p].user = u /\ e.ents[p] = d.ents[p]
    BY <1>5, <1>8
  <2>2. CASE d.ents[p].status = "active"
    <3>1. p \in I
      BY <2>1, <2>2 DEF OrdersOf
    <3> HIDE DEF I
    <3> QED
      BY <1>3, <1>4, <1>5, <2>1, <3>1 DEF Apart
  <2>3. CASE d.ents[p].status = "expired"
    <3>1. d.ents[p].end <= n /\ d.ents[p].end \in Nat
      BY <2>1, <2>3 DEF Laid, PeriodOk, EntitlementRow
    <3>2. CASE d.ents[p].end <= t
      BY <1>3, <1>4, <1>5, <2>1, <3>1, <3>2 DEF Apart
    <3>3. CASE t < d.ents[p].end
      <4>1. d.orders[o].provider = "wechat_native"
        BY <3>1, <3>3
      <4> QED
        BY <1>2, <1>5, <2>1, <2>3, <3>3, <4>1 DEF Apart, Late
    <3> QED
      BY <3>1, <3>2, <3>3
  <2> QED
    BY <2>1, <2>2, <2>3 DEF Held
<1>9. PeriodOk(e, o, n)
  <2>1. ASSUME NEW p \in Orders \ {o}, e.orders[p].user = e.orders[o].user, Held(e.ents[p])
        PROVE  Apart(e, o, p)
    <3>1. Apart(e, p, o)
      BY <1>2, <1>5, <1>8, <2>1
    <3> QED
      BY <3>1 DEF Apart
  <2> QED
    BY <1>2, <1>4, <1>5, <2>1 DEF PeriodOk, Bought
<1>10. ASSUME NEW p \in Orders \ {o} PROVE PeriodOk(e, p, n)
  <2> SUFFICES ASSUME Held(e.ents[p])
               PROVE  /\ e.orders[p].status \in Bought
                      /\ e.ents[p].status = "expired" => e.ents[p].end <= n
                      /\ \A q \in Orders \ {p} :
                            e.orders[q].user = e.orders[p].user /\ Held(e.ents[q]) => Apart(e, p, q)
    BY DEF PeriodOk
  <2>1. PeriodOk(d, p, n) /\ Held(d.ents[p])
    BY <1>5 DEF Laid
  <2>2. ASSUME NEW q \in Orders \ {p}, e.orders[q].user = e.orders[p].user, Held(e.ents[q])
        PROVE  Apart(e, p, q)
    <3>1. CASE q = o
      BY <1>2, <1>5, <1>8, <2>2, <3>1
    <3>2. CASE q # o
      <4>1. Apart(d, p, q)
        BY <1>5, <2>1, <2>2, <3>2 DEF PeriodOk
      <4> QED
        BY <1>5, <3>2, <4>1 DEF Apart, Late
    <3> QED
      BY <3>1, <3>2
  <2> QED
    BY <1>5, <2>1, <2>2 DEF PeriodOk
<1>11. Laid(e, n)
  BY <1>5, <1>7, <1>9, <1>10 DEF Laid
<1> QED
  BY <1>6, <1>11 DEF e

\* A refund.
LEMMA RebuiltLaid ==
    ASSUME NEW d, StoreOk(d), NEW u, now \in Nat,
           d.ents \in [Orders -> EntitlementRow], IsFiniteSet(Known(d)),
           \A o \in Orders : d.orders[o].user # u => PeriodOk(d, o, now)
    PROVE  LET e == Expire(Rebuild(d, u), {u}, now)
           IN  Laid(e, now) /\ Follows(d, e, None)
<1> DEFINE m == Rebuild(d, u)
<1>1. StoreType(d)
  BY DEF StoreOk
<1>2. Laid(m, now) /\ m.orders = d.orders
  BY <1>1, RebuildLays, RebuildTables
<1>3. StoreOk(m)
  BY RebuildKeeps
<1> HIDE DEF m
<1>4. Follows(d, m, None)
  BY <1>2 DEF Follows
<1>5. Laid(Expire(m, {u}, now), now) /\ Follows(m, Expire(m, {u}, now), None)
  BY <1>2, <1>3, ExpireLaid DEF StoreOk
<1> DEFINE e == Expire(m, {u}, now)
<1> HIDE DEF e
<1>6. Laid(e, now) /\ Follows(d, e, None)
  BY <1>4, <1>5, FollowsTransitive DEF e
<1> QED
  BY <1>6 DEF e, m

LEMMA RefundedLaid ==
    ASSUME NEW d, StoreOk(d), NEW o \in Orders, Refundable(d, o), now \in Nat, Laid(d, now)
    PROVE  Laid(Refunded(d, o), now) /\ Follows(d, Refunded(d, o), None)
<1> DEFINE u == d.orders[o].user
           a == CouponRestored(d, o)
           b == RewardRolledBack(a, o)
           s == Repaid(d, o)
           r == [d.orders[o] EXCEPT !.status = "refunded"]
           e == Expire(Rebuild(s, u), {u}, now)
<1>1. Refunded(d, o) = e
  BY DEF Refunded, Repaid
<1>2. IsStore(d)
  BY TablesOf DEF IsStore, StoreOk
<1>3. IsStore(a) /\ SameTables(d, a)
  BY <1>2, RestoredTables
<1>4. IsStore(b) /\ SameTables(a, b)
  <2> HIDE DEF a
  <2> QED
    BY <1>3, RolledBackTables
<1>5. s.ents = d.ents /\ s.orders = [d.orders EXCEPT ![o] = r]
  <2>1. b.ents = d.ents /\ b.orders = d.orders
    BY <1>3, <1>4 DEF SameTables
  <2>2. s.ents = b.ents /\ s.orders = [b.orders EXCEPT ![o].status = "refunded"]
    <3>1. s = [b EXCEPT !.pays[o] = [t \in Trades |-> IF b.pays[o][t] = "none" THEN "none" ELSE "refunded"],
                        !.orders[o].status = "refunded"]
      BY DEF Repaid
    <3> HIDE DEF a, b, s
    <3> QED
      BY <1>4, <3>1 DEF IsStore
  <2> HIDE DEF a, b, s
  <2> QED
    BY <2>1, <2>2
<1>6. StoreOk(s)
  BY RepaidKeeps
<1>7. /\ r.status = "refunded" /\ r.user = u /\ r.provider = d.orders[o].provider
      /\ r.kind = d.orders[o].kind /\ r.coupon = d.orders[o].coupon
      /\ r.paidAt = d.orders[o].paidAt
  BY Rows DEF StoreOk, OrderRow
<1> HIDE DEF s, r
<1>8. s.orders[o] = r /\ \A p \in Orders \ {o} : s.orders[p] = d.orders[p]
  BY <1>5, TablesOf DEF StoreOk
<1>9. d.orders[o].status \in Settled /\ d.orders[o].status # "none"
  BY DEF Refundable, Settled
<1>10. Follows(d, s, None)
  BY <1>7, <1>8, <1>9 DEF Follows
<1>11. Known(s) = Known(d)
  BY <1>7, <1>8, <1>9 DEF Known
<1>12. ASSUME NEW p \in Orders, s.orders[p].user # u PROVE PeriodOk(s, p, now)
  <2>1. p # o /\ s.orders[p] = d.orders[p] /\ PeriodOk(d, p, now)
    BY <1>7, <1>8, <1>12 DEF Laid
  <2>2. \A q \in Orders : s.orders[q].user = s.orders[p].user => s.orders[q] = d.orders[q]
    BY <1>7, <1>8, <1>12
  <2> QED
    BY <1>5, <2>1, <2>2 DEF PeriodOk, Apart, Late
<1> HIDE DEF u
<1>13. s.ents \in [Orders -> EntitlementRow] /\ IsFiniteSet(Known(s))
  BY <1>5, <1>11 DEF Laid
<1>14. Laid(e, now) /\ Follows(s, e, None)
  BY <1>6, <1>12, <1>13, RebuiltLaid
<1> HIDE DEF e
<1>15. Follows(d, e, None)
  BY <1>10, <1>14, FollowsTransitive
<1> QED
  BY <1>1, <1>14, <1>15

LEMMA FinalizeLaid ==
    ASSUME NEW d, StoreOk(d), NEW o \in Orders, FinalizeRefund(d, o), now \in Nat, Laid(d, now)
    PROVE  Laid(db', now) /\ Follows(d, db', None)
<1>1. CASE db' = Expire(Rebuild(d, d.orders[o].user), {d.orders[o].user}, now)
  <2> DEFINE u == d.orders[o].user
             e == Expire(Rebuild(d, u), {u}, now)
  <2>1. db' = e
    BY <1>1
  <2> HIDE DEF u
  <2>2. \A p \in Orders : d.orders[p].user # u => PeriodOk(d, p, now)
    BY DEF Laid
  <2>3. Laid(e, now) /\ Follows(d, e, None)
    BY <2>2, RebuiltLaid DEF Laid
  <2> HIDE DEF e
  <2> QED
    BY <2>1, <2>3
<1>2. CASE Refundable(d, o) /\ db' = Refunded(d, o)
  BY <1>2, RefundedLaid
<1> QED
  BY <1>1, <1>2 DEF FinalizeRefund

-----------------------------------------------------------------------------
(* The books: the periods, and the money they stand for. *)

PaidStates == {"paid"} \cup RefundStates

\* The provider took the price of every order of its own that is settled.
PriceTaken ==
    \A o \in Orders :
        db.orders[o].status \in Settled /\ db.orders[o].provider = "wechat_native" =>
           /\ charge[o].state \in PaidStates
           /\ charge[o].amount = OrderPrice(db.orders[o])

\* The provider knows its own orders only, and what it reported as paid has been paid.
ReportsTrue ==
    \A o \in Orders :
        /\ bills[o] # {} \/ reports[o] # {} \/ charge[o].state # "open" =>
              db.orders[o].provider = "wechat_native"
        /\ db.orders[o].provider = "wechat_native" => db.orders[o].status # "none"
        /\ "paid" \in reports[o] => charge[o].state \in PaidStates
        /\ charge[o].at <= now

Books == Laid(db, now) /\ PriceTaken /\ ReportsTrue

\* An operation that leaves the provider alone; the order x may be a new purchase.
LEMMA BooksStep ==
    ASSUME Inv, Books, NEW x, Laid(db', now), Follows(db, db', x),
           UNCHANGED <<now, charge, reports>>,
           \A o \in Orders : bills'[o] # {} =>
              bills[o] # {} \/ db'.orders[o].provider = "wechat_native",
           x \in Orders => db'.orders[x].status # "none",
           x \in Orders /\ db'.orders[x].provider = "wechat_native" =>
              charge[x].state \in PaidStates /\ charge[x].amount = OrderPrice(db'.orders[x])
    PROVE  Books'
<1>1. PriceTaken'
  <2> SUFFICES ASSUME NEW o \in Orders, db'.orders[o].status \in Settled,
                      db'.orders[o].provider = "wechat_native"
               PROVE  charge[o].state \in PaidStates /\ charge[o].amount = OrderPrice(db'.orders[o])
    BY DEF PriceTaken
  <2>1. CASE o = x
    BY <2>1
  <2>2. CASE o # x
    <3>1. /\ db.orders[o].status \in Settled /\ db'.orders[o].kind = db.orders[o].kind
          /\ db'.orders[o].coupon = db.orders[o].coupon
      BY <2>2 DEF Follows
    <3>2. db.orders[o].provider = "wechat_native"
      BY <3>1 DEF Follows, Settled
    <3>3. OrderPrice(db'.orders[o]) = OrderPrice(db.orders[o])
      BY <3>1 DEF OrderPrice
    <3>4. charge[o].state \in PaidStates /\ charge[o].amount = OrderPrice(db.orders[o])
      BY <3>1, <3>2 DEF Books, PriceTaken
    <3> QED
      BY <3>3, <3>4
  <2> QED
    BY <2>1, <2>2
<1>2. ReportsTrue'
  <2> SUFFICES ASSUME NEW o \in Orders
               PROVE  /\ bills'[o] # {} \/ reports[o] # {} \/ charge[o].state # "open" =>
                            db'.orders[o].provider = "wechat_native"
                      /\ db'.orders[o].provider = "wechat_native" => db'.orders[o].status # "none"
                      /\ "paid" \in reports[o] => charge[o].state \in PaidStates
                      /\ charge[o].at <= now
    BY DEF ReportsTrue
  <2>1. db.orders[o].provider = "wechat_native" => db'.orders[o].provider = "wechat_native"
    BY DEF Books, ReportsTrue, Follows
  <2>2. db'.orders[o].provider = "wechat_native" => db'.orders[o].status # "none"
    BY DEF Books, ReportsTrue, Follows
  <2> QED
    BY <2>1, <2>2 DEF Books, ReportsTrue
<1> QED
  BY <1>1, <1>2 DEF Books

\* An operation of one or two steps that changes the tables only.
LEMMA BooksKept ==
    ASSUME Inv, Books, NEW d, Laid(d, now), Follows(db, d, None),
           Laid(db', now), Follows(d, db', None),
           UNCHANGED <<now, asked, bills, charge, reports>>
    PROVE  Books'
<1>1. Follows(db, db', None)
  BY FollowsTransitive
<1>2. None \notin Orders
  BY NoneAssumption
<1> QED
  BY <1>1, <1>2, BooksStep

\* An order that expires keeps its provider.
LEMMA ExpireProvider ==
    ASSUME NEW d, StoreType(d), NEW us, NEW t, NEW o \in Orders
    PROVE  Expire(d, us, t).orders[o].provider = d.orders[o].provider
<1> DEFINE e == Expire(d, us, t)
           r == [d.orders[o] EXCEPT !.status = "expired"]
<1>1. e.orders[o] = d.orders[o] \/ e.orders[o] = r
  BY ExpireTables
<1>2. r.provider = d.orders[o].provider
  BY Rows DEF OrderRow
<1> HIDE DEF e, r
<1>3. e.orders[o].provider = d.orders[o].provider
  BY <1>1, <1>2
<1> QED
  BY <1>3 DEF e

\* Expiry, which most operations begin with.
LEMMA ExpireBooks ==
    ASSUME Inv, Books, NEW us, NEW t \in Nat, t <= now
    PROVE  /\ StoreOk(Expire(db, us, t)) /\ Laid(Expire(db, us, t), now)
           /\ Follows(db, Expire(db, us, t), None)
<1>1. StoreOk(Expire(db, us, t))
  BY ExpireKeeps DEF Inv
<1>2. Laid(Expire(db, us, t), now) /\ Follows(db, Expire(db, us, t), None)
  BY ExpireLaid DEF Inv, Books, StoreOk
<1> QED
  BY <1>1, <1>2

LEMMA CreateOrderBooks ==
    ASSUME Inv, Books, NEW u \in Users, NEW p \in Providers, NEW c \in Coupons \cup {None},
           CreateOrder(u, p, c)
    PROVE  Books'
<1> DEFINE d == Expire(db, {u}, now)
           chosen == IF PendingOrders(d, u, p) # {} THEN PendingOrders(d, u, p)
                     ELSE IF FreeOrders = {} THEN {} ELSE {Min(FreeOrders)}
<1>1. StoreOk(d) /\ Laid(d, now) /\ Follows(db, d, None)
  BY ExpireBooks DEF Inv
<1>2. ASSUME NEW o \in Orders, db.orders[o].status = "none" PROVE d.orders[o].status = "none"
  BY <1>2, ExpireLeaves DEF Inv, StoreOk
<1>3. PICK o \in chosen : db' = Placed(d, o, u, p, c) /\ bills' = Billed(o, db'.orders[o])
  BY DEF CreateOrder
<1>4. UNCHANGED <<now, charge, reports>>
  BY DEF CreateOrder
<1>5. /\ o \in Orders /\ d.orders[o].status \in {"none", "pending"}
      /\ d.orders[o].status = "pending" => d.orders[o].provider = p
  <2>1. CASE PendingOrders(d, u, p) # {}
    BY <1>3, <2>1 DEF PendingOrders, OrdersOf
  <2>2. CASE PendingOrders(d, u, p) = {} /\ FreeOrders # {}
    <3>1. o = Min(FreeOrders)
      BY <1>3, <2>2
    <3>2. FreeOrders \subseteq Nat
      BY RowAssumption DEF FreeOrders
    <3>3. o \in FreeOrders
      BY <2>2, <3>1, <3>2, MinIn
    <3> QED
      BY <1>2, <3>3 DEF FreeOrders
  <2> QED
    BY <1>3, <2>1, <2>2
<1> HIDE DEF d, chosen
<1>6. Laid(db', now) /\ Follows(d, db', None)
  BY <1>1, <1>3, <1>5, PlacedLaid DEF Inv, StoreOk
<1>7. Follows(db, db', None) /\ None \notin Orders
  BY <1>1, <1>6, FollowsTransitive, NoneAssumption
<1>8. ASSUME NEW q \in Orders, bills'[q] # {}
      PROVE  bills[q] # {} \/ db'.orders[q].provider = "wechat_native"
  BY <1>3, <1>8 DEF Billed, Inv, ProviderOk
<1> QED
  BY <1>4, <1>6, <1>7, <1>8, BooksStep

LEMMA CloseOrderBooks ==
    ASSUME Inv, Books, NEW o \in Orders, CloseOrder(o)
    PROVE  Books'
<1> DEFINE d == Expire(db, {db.orders[o].user}, now)
<1>1. StoreOk(d) /\ Laid(d, now) /\ Follows(db, d, None)
  BY ExpireBooks DEF Inv
<1>2. \/ db' = d
      \/ d.orders[o].status = "pending" /\ db' = [d EXCEPT !.orders[o].status = "closed"]
  BY ZenonT(40) DEF CloseOrder
<1>3. UNCHANGED <<now, asked, bills, charge, reports>>
  BY DEF CloseOrder
<1> HIDE DEF d
<1>4. Laid(db', now) /\ Follows(d, db', None)
  <2>1. CASE db' = d
    BY <1>1, <2>1 DEF Follows
  <2>2. CASE d.orders[o].status = "pending" /\ db' = [d EXCEPT !.orders[o].status = "closed"]
    <3>1. StoreType(d) /\ now \in Nat
      BY <1>1 DEF StoreOk, Inv
    <3>2. Closes(d, db', o)
      <4>1. IsStore(d)
        BY <3>1, TablesOf DEF IsStore
      <4> QED
        BY <2>2, <4>1 DEF IsStore, Closes
    <3> QED
      BY <1>1, <2>2, <3>1, <3>2, ClosedLaid
  <2> QED
    BY <1>2, <2>1, <2>2
<1> QED
  BY <1>1, <1>3, <1>4, BooksKept

\* A payment that is confirmed, at a time that has come; if it is one of the provider's
\* it has taken the price.
LEMMA ConfirmedBooks ==
    ASSUME Inv, Books, NEW o \in Orders, NEW us, NEW t \in Nat, t <= now,
           Confirmable(Expire(db, us, t), o), db' = Confirmed(Expire(db, us, t), o, t),
           t = now \/ db.orders[o].provider = "wechat_native",
           db.orders[o].provider = "wechat_native" =>
              charge[o].state \in PaidStates /\ AmountMatches(Expire(db, us, t), o),
           UNCHANGED <<now, asked, bills, charge, reports>>
    PROVE  Books'
<1> DEFINE d == Expire(db, us, t)
<1>1. StoreOk(d) /\ Laid(d, now) /\ Follows(db, d, None)
  BY ExpireBooks
<1>2. d.orders[o].status = "pending" /\ db' = Confirmed(d, o, t)
  BY DEF Confirmable
<1>3. db.orders[o].provider = "wechat_native" => charge[o].amount = OrderPrice(d.orders[o])
  BY DEF AmountMatches
<1> HIDE DEF d
<1>4. StoreType(d) /\ now \in Nat /\ d.orders[o] \in OrderRow
  BY <1>1, Rows DEF StoreOk, Inv
<1>5. d.orders[o].provider = db.orders[o].provider
  BY ExpireProvider DEF d, Inv, StoreOk
<1>6. Laid(db', now) /\ Follows(d, db', o)
  BY <1>1, <1>2, <1>4, <1>5, ConfirmedLaid
<1>7. db'.orders[o] = PaidRow(d, o, t)
  <2>1. Confirms(d, db', o, t)
    BY <1>2, <1>4, ConfirmedTables
  <2> QED
    BY <1>4, <2>1, TablesOf DEF Confirms
<1>8. /\ db'.orders[o].status = "paid" /\ db'.orders[o].provider = d.orders[o].provider
      /\ db'.orders[o].kind = d.orders[o].kind /\ db'.orders[o].coupon = d.orders[o].coupon
  BY Zenon, <1>4, <1>7 DEF PaidRow, OrderRow
<1>9. OrderPrice(db'.orders[o]) = OrderPrice(d.orders[o])
  BY <1>8 DEF OrderPrice
<1>10. Follows(db, db', o)
  BY <1>1, <1>6, FollowsTransitive
<1> QED
  BY <1>3, <1>5, <1>6, <1>8, <1>9, <1>10, BooksStep

LEMMA ConfirmPaymentBooks ==
    ASSUME Inv, Books, NEW o \in Orders, ConfirmPayment(o)
    PROVE  Books'
<1> DEFINE us == {db.orders[o].user}
           d == Expire(db, us, now)
<1>1. /\ d.orders[o].provider = "manual_test" /\ Confirmable(d, o) /\ db' = Confirmed(d, o, now)
      /\ UNCHANGED <<now, asked, bills, charge, reports>>
  BY DEF ConfirmPayment
<1>2. now \in Nat /\ now <= now
  BY DEF Inv
<1> HIDE DEF us
<1>3. db.orders[o].provider # "wechat_native"
  <2>1. d.orders[o].provider = db.orders[o].provider
    BY ExpireProvider DEF Inv, StoreOk
  <2> QED
    BY <1>1, <2>1
<1> QED
  BY <1>1, <1>2, <1>3, ConfirmedBooks

LEMMA ConfirmProviderPaymentBooks ==
    ASSUME Inv, Books, NEW o \in Orders, ConfirmProviderPayment(o)
    PROVE  Books'
<1> DEFINE t == charge[o].at
<1>1. /\ AmountMatches(Expire(db, Users, t), o) /\ Confirmable(Expire(db, Users, t), o)
      /\ db' = Confirmed(Expire(db, Users, t), o, t) /\ "paid" \in reports[o]
      /\ UNCHANGED <<now, asked, bills, charge, reports>>
  BY DEF ConfirmProviderPayment
<1>2. t \in Nat /\ t <= now /\ charge[o].state \in PaidStates /\ db.orders[o].provider = "wechat_native"
  BY <1>1 DEF Inv, ProviderOk, Books, ReportsTrue
<1> HIDE DEF t
<1> QED
  BY <1>1, <1>2, ConfirmedBooks

LEMMA SyncTerminalPaymentBooks ==
    ASSUME Inv, Books, NEW o \in Orders, SyncTerminalPayment(o)
    PROVE  Books'
<1> DEFINE d == Expire(db, Users, now)
<1>1. StoreOk(d) /\ Laid(d, now) /\ Follows(db, d, None)
  BY ExpireBooks DEF Inv
<1>2. d.orders[o].status \in {"pending", "closed"}
  BY DEF SyncTerminalPayment
<1>3. PICK t \in TerminalTrades(o) :
        db' = [TerminalPayment(d, o, t) EXCEPT !.orders[o].status = "closed"]
  BY DEF SyncTerminalPayment
<1>4. UNCHANGED <<now, asked, bills, charge, reports>>
  BY DEF SyncTerminalPayment
<1> HIDE DEF d
<1>5. StoreType(d) /\ now \in Nat
  BY <1>1 DEF StoreOk, Inv
<1>6. Closes(d, db', o)
  BY <1>3, <1>5, TablesOf DEF TerminalPayment, Closes
<1>7. Laid(db', now) /\ Follows(d, db', None)
  BY <1>1, <1>2, <1>5, <1>6, ClosedLaid
<1> QED
  BY <1>1, <1>4, <1>7, BooksKept

LEMMA RefundOrderBooks ==
    ASSUME Inv, Books, NEW o \in Orders, RefundOrder(o)
    PROVE  Books'
<1> DEFINE d == Expire(db, Users, now)
<1>1. StoreOk(d) /\ Laid(d, now) /\ Follows(db, d, None)
  BY ExpireBooks DEF Inv
<1>2. FinalizeRefund(d, o) /\ UNCHANGED <<now, asked, bills, charge, reports>>
  BY DEF RefundOrder
<1> HIDE DEF d
<1>3. Laid(db', now) /\ Follows(d, db', None)
  BY <1>1, <1>2, FinalizeLaid DEF Inv
<1> QED
  BY <1>1, <1>2, <1>3, BooksKept

LEMMA RefundSucceededBooks ==
    ASSUME Inv, Books, NEW o \in Orders, RefundSucceeded(o)
    PROVE  Books'
<1>1. FinalizeRefund(db, o) /\ UNCHANGED <<now, asked, bills, charge, reports>>
  BY DEF RefundSucceeded
<1>2. Laid(db', now) /\ Follows(db, db', None)
  BY <1>1, FinalizeLaid DEF Inv, Books
<1>3. Laid(db, now) /\ Follows(db, db, None)
  BY DEF Books, Follows
<1> QED
  BY <1>1, <1>2, <1>3, BooksKept

LEMMA MarkRefundPendingBooks ==
    ASSUME Inv, Books, NEW o \in Orders, MarkRefundPending(o)
    PROVE  Books'
<1> DEFINE d == Expire(db, Users, now)
<1>1. StoreOk(d) /\ Laid(d, now) /\ Follows(db, d, None)
  BY ExpireBooks DEF Inv
<1>2. d.orders[o].status \in Settled
  BY DEF MarkRefundPending, Settled
<1>3. /\ db' = Resettled(d, o, "refund_pending", "refund_pending")
      /\ UNCHANGED <<now, asked, bills, charge, reports>>
  BY DEF MarkRefundPending, Resettled
<1> HIDE DEF d
<1>4. StoreType(d) /\ now \in Nat
  BY <1>1 DEF StoreOk, Inv
<1>5. Laid(db', now) /\ Follows(d, db', None)
  BY <1>1, <1>2, <1>3, <1>4, ResettledLaid
<1> QED
  BY <1>1, <1>3, <1>5, BooksKept

LEMMA ResyncedBooks ==
    ASSUME Inv, Books, NEW o \in Orders, db.orders[o].status \in Settled,
           NEW payment \in PayStatus \ {"none"}, NEW order \in {"paid", "refund_pending"},
           db' = Resynced(o, payment, order),
           UNCHANGED <<now, asked, bills, charge, reports>>
    PROVE  Books'
<1> DEFINE d == Resettled(db, o, payment, order)
           u == db.orders[o].user
<1>1. StoreType(db) /\ now \in Nat /\ Laid(db, now)
  BY DEF Inv, StoreOk, Books
<1>2. StoreOk(d)
  BY ResettledKeeps DEF Inv
<1>3. Laid(d, now) /\ Follows(db, d, None)
  BY <1>1, ResettledLaid
<1>4. db' = Expire(d, {u}, now)
  BY DEF Resynced, Resettled
<1> HIDE DEF d, u
<1>5. Laid(db', now) /\ Follows(d, db', None)
  BY <1>1, <1>2, <1>3, <1>4, ExpireLaid DEF StoreOk
<1> QED
  BY <1>3, <1>5, BooksKept

LEMMA RefundReportBooks ==
    ASSUME Inv, Books, NEW o \in Orders, RefundStillPending(o) \/ RefundFailed(o)
    PROVE  Books'
<1>1. db.orders[o].status \in Settled
  BY DEF Inv, RefundsKnown, RefundStillPending, RefundFailed, RefundStates
<1>2. CASE RefundStillPending(o)
  BY <1>1, <1>2, ResyncedBooks DEF RefundStillPending, PayStatus
<1>3. CASE RefundFailed(o)
  BY <1>1, <1>3, ResyncedBooks DEF RefundFailed, PayStatus
<1> QED
  BY <1>2, <1>3

\* Coupons and invitations have tables of their own.
LEMMA MarketingBooks ==
    ASSUME Inv, Books, SameTables(db, db'), UNCHANGED <<now, bills, charge, reports>>
    PROVE  Books'
<1>1. Laid(db', now) /\ Follows(db, db', None)
  BY SameTablesLaid DEF Books
<1>2. None \notin Orders
  BY NoneAssumption
<1> QED
  BY <1>1, <1>2, BooksStep

LEMMA MarketingActionBooks ==
    ASSUME Inv, Books,
           \/ \E u \in Users, min \in MinSpends : GrantCoupon(u, min)
           \/ \E c \in Coupons : VoidCoupon(c)
           \/ \E a \in asked : BindInvite(a)
    PROVE  Books'
<1>1. IsStore(db)
  BY TablesOf DEF IsStore, Inv, StoreOk
<1>2. ASSUME NEW u \in Users, NEW min \in MinSpends, GrantCoupon(u, min)
      PROVE  SameTables(db, db') /\ UNCHANGED <<now, bills, charge, reports>>
  BY <1>1, <1>2 DEF GrantCoupon, SameTables, IsStore
<1>3. ASSUME NEW c \in Coupons, VoidCoupon(c)
      PROVE  SameTables(db, db') /\ UNCHANGED <<now, bills, charge, reports>>
  BY <1>1, <1>3 DEF VoidCoupon, SameTables, IsStore
<1>4. ASSUME NEW a \in asked, BindInvite(a)
      PROVE  SameTables(db, db') /\ UNCHANGED <<now, bills, charge, reports>>
  BY <1>1, <1>4 DEF BindInvite, SameTables, IsStore
<1>5. SameTables(db, db') /\ UNCHANGED <<now, bills, charge, reports>>
  BY <1>2, <1>3, <1>4
<1> QED
  BY <1>5, MarketingBooks

\* The provider reports: of a payment only what is so.
LEMMA ReportBooks ==
    ASSUME Inv, Books, NEW o \in Orders, NEW s \in ChargeStates, Report(o, s),
           db.orders[o].provider = "wechat_native",
           s \in PaidStates \/ (s # "paid" /\ charge[o].state = "open")
    PROVE  Books'
<1>1. charge' = [charge EXCEPT ![o].state = s] /\ reports' = [reports EXCEPT ![o] = @ \cup {s}]
      /\ UNCHANGED <<now, db, asked, bills>>
  BY DEF Report
<1>2. /\ charge'[o].state = s /\ charge'[o].amount = charge[o].amount /\ charge'[o].at = charge[o].at
      /\ \A q \in Orders \ {o} : charge'[q] = charge[q]
  <2>1. charge[o] \in [state: ChargeStates, amount: Int, at: Nat]
    BY DEF Inv, ProviderOk
  <2> QED
    BY <1>1, <2>1 DEF Inv, ProviderOk
<1>3. reports'[o] = reports[o] \cup {s} /\ \A q \in Orders \ {o} : reports'[q] = reports[q]
  BY <1>1 DEF Inv, ProviderOk
<1>4. charge[o].state \in PaidStates => s \in PaidStates
  BY DEF PaidStates, RefundStates
<1>5. PriceTaken'
  <2> SUFFICES ASSUME NEW q \in Orders, db.orders[q].status \in Settled,
                      db.orders[q].provider = "wechat_native"
               PROVE  charge'[q].state \in PaidStates /\ charge'[q].amount = OrderPrice(db.orders[q])
    BY <1>1 DEF PriceTaken
  <2>1. charge[q].state \in PaidStates /\ charge[q].amount = OrderPrice(db.orders[q])
    BY DEF Books, PriceTaken
  <2> QED
    BY <1>2, <1>4, <2>1
<1>6. ReportsTrue'
  <2> SUFFICES ASSUME NEW q \in Orders
               PROVE  /\ bills[q] # {} \/ reports'[q] # {} \/ charge'[q].state # "open" =>
                            db.orders[q].provider = "wechat_native"
                      /\ db.orders[q].provider = "wechat_native" => db.orders[q].status # "none"
                      /\ "paid" \in reports'[q] => charge'[q].state \in PaidStates
                      /\ charge'[q].at <= now
    BY <1>1 DEF ReportsTrue
  <2>1. CASE q = o
    BY <1>2, <1>3, <1>4, <2>1 DEF Books, ReportsTrue
  <2>2. CASE q # o
    BY <1>2, <1>3, <2>2 DEF Books, ReportsTrue
  <2> QED
    BY <2>1, <2>2
<1> QED
  BY <1>1, <1>5, <1>6 DEF Books

LEMMA PayBooks ==
    ASSUME Inv, Books, NEW o \in Orders, Pay(o)
    PROVE  Books'
<1>1. PICK b \in bills[o] :
        charge' = [charge EXCEPT ![o] = [state |-> "paid", amount |-> b.amount, at |-> now]]
  BY DEF Pay
<1>2. /\ reports' = [reports EXCEPT ![o] = @ \cup {"paid"}] /\ UNCHANGED <<now, db, asked, bills>>
      /\ charge[o].state = "open"
  BY DEF Pay
<1>3. /\ charge'[o].state = "paid" /\ charge'[o].at = now
      /\ \A q \in Orders \ {o} : charge'[q] = charge[q]
  BY <1>1 DEF Inv, ProviderOk
<1>4. \A q \in Orders \ {o} : reports'[q] = reports[q]
  BY <1>2 DEF Inv, ProviderOk
<1>5. PriceTaken'
  <2> SUFFICES ASSUME NEW q \in Orders, db.orders[q].status \in Settled,
                      db.orders[q].provider = "wechat_native"
               PROVE  charge'[q].state \in PaidStates /\ charge'[q].amount = OrderPrice(db.orders[q])
    BY <1>2 DEF PriceTaken
  <2>1. charge[q].state \in PaidStates /\ charge[q].amount = OrderPrice(db.orders[q])
    BY DEF Books, PriceTaken
  <2>2. q # o
    BY <1>2, <2>1 DEF PaidStates, RefundStates
  <2> QED
    BY <1>3, <2>1, <2>2
<1>6. ReportsTrue'
  <2> SUFFICES ASSUME NEW q \in Orders
               PROVE  /\ bills[q] # {} \/ reports'[q] # {} \/ charge'[q].state # "open" =>
                            db.orders[q].provider = "wechat_native"
                      /\ db.orders[q].provider = "wechat_native" => db.orders[q].status # "none"
                      /\ "paid" \in reports'[q] => charge'[q].state \in PaidStates
                      /\ charge'[q].at <= now
    BY <1>2 DEF ReportsTrue
  <2>1. CASE q = o
    <3>1. now <= now /\ "paid" \in PaidStates /\ bills[o] # {}
      BY <1>1 DEF Inv, PaidStates
    <3> QED
      BY <1>3, <2>1, <3>1 DEF Books, ReportsTrue
  <2>2. CASE q # o
    BY <1>3, <1>4, <2>2 DEF Books, ReportsTrue
  <2> QED
    BY <2>1, <2>2
<1> QED
  BY <1>2, <1>5, <1>6 DEF Books

LEMMA ProviderBooks ==
    ASSUME Inv, Books, NEW o \in Orders,
           ProviderGivesUp(o) \/ RequestRefund(o) \/ QueryRefund(o) \/ SettleRefund(o)
    PROVE  Books'
<1>1. CASE ProviderGivesUp(o)
  <2>1. /\ Report(o, "failed") \/ Report(o, "closed")
        /\ charge[o].state = "open" /\ db.orders[o].provider = "wechat_native"
    BY <1>1 DEF ProviderGivesUp
  <2> QED
    BY <2>1, ReportBooks DEF ChargeStates
<1>2. CASE RequestRefund(o)
  <2>1. db.orders[o].provider = "wechat_native" /\ \E s \in RefundStates : Report(o, s)
    BY <1>2 DEF RequestRefund, RefundStates
  <2> QED
    BY <2>1, ReportBooks DEF ChargeStates, PaidStates
<1>3. CASE QueryRefund(o)
  <2>1. /\ reports' = [reports EXCEPT ![o] = @ \cup {"still refunding"}]
        /\ charge[o].state = "refunding" /\ UNCHANGED <<now, db, asked, bills, charge>>
    BY <1>3 DEF QueryRefund
  <2>2. /\ reports'[o] = reports[o] \cup {"still refunding"}
        /\ \A q \in Orders \ {o} : reports'[q] = reports[q]
    BY <2>1 DEF Inv, ProviderOk
  <2>3. PriceTaken'
    BY <2>1 DEF Books, PriceTaken
  <2>4. ReportsTrue'
    <3> SUFFICES ASSUME NEW q \in Orders
                 PROVE  /\ bills[q] # {} \/ reports'[q] # {} \/ charge[q].state # "open" =>
                              db.orders[q].provider = "wechat_native"
                        /\ db.orders[q].provider = "wechat_native" => db.orders[q].status # "none"
                        /\ "paid" \in reports'[q] => charge[q].state \in PaidStates
                        /\ charge[q].at <= now
      BY <2>1 DEF ReportsTrue
    <3>1. CASE q = o
      <4>1. db.orders[o].provider = "wechat_native"
        BY <2>1 DEF Books, ReportsTrue
      <4>2. "paid" \in reports'[o] => "paid" \in reports[o]
        BY <2>2
      <4> QED
        BY <3>1, <4>1, <4>2 DEF Books, ReportsTrue
    <3>2. CASE q # o
      BY <2>2, <3>2 DEF Books, ReportsTrue
    <3> QED
      BY <3>1, <3>2
  <2> QED
    BY <2>1, <2>3, <2>4 DEF Books
<1>4. CASE SettleRefund(o)
  <2>1. db.orders[o].provider = "wechat_native"
    BY <1>4 DEF SettleRefund, Books, ReportsTrue
  <2>2. \E s \in RefundStates : Report(o, s)
    BY <1>4 DEF SettleRefund, RefundStates
  <2> QED
    BY <2>1, <2>2, ReportBooks DEF ChargeStates, PaidStates
<1> QED
  BY <1>1, <1>2, <1>3, <1>4

LEMMA TickBooks ==
    ASSUME Inv, Books, Tick
    PROVE  Books'
<1>1. /\ now' = now + 1 /\ UNCHANGED <<db, asked, charge, reports>>
      /\ \A o \in Orders : bills'[o] # {} => bills[o] # {}
  BY DEF Tick
<1>2. now \in Nat /\ now' \in Nat /\ now <= now'
  BY <1>1 DEF Inv
<1>3. Laid(db, now')
  BY <1>2, LaidLater DEF Books
<1>4. PriceTaken'
  BY <1>1 DEF Books, PriceTaken
<1>5. ReportsTrue'
  <2> SUFFICES ASSUME NEW o \in Orders
               PROVE  /\ bills'[o] # {} \/ reports[o] # {} \/ charge[o].state # "open" =>
                            db.orders[o].provider = "wechat_native"
                      /\ db.orders[o].provider = "wechat_native" => db.orders[o].status # "none"
                      /\ "paid" \in reports[o] => charge[o].state \in PaidStates
                      /\ charge[o].at <= now'
    BY <1>1 DEF ReportsTrue
  <2>1. charge[o].at \in Nat /\ charge[o].at <= now
    BY DEF Books, ReportsTrue, Inv, ProviderOk
  <2> QED
    BY <1>1, <1>2, <2>1 DEF Books, ReportsTrue
<1> QED
  BY <1>1, <1>3, <1>4, <1>5 DEF Books

LEMMA InitBooks == Init => Books
<1> SUFFICES ASSUME Init PROVE Books
  OBVIOUS
<1>1. /\ db.orders = [o \in Orders |-> NoOrder] /\ db.ents = [o \in Orders |-> NoEntitlement]
      /\ now = 0 /\ bills = [o \in Orders |-> {}] /\ reports = [o \in Orders |-> {}]
      /\ charge = [o \in Orders |-> [state |-> "open", amount |-> 0, at |-> 0]]
  BY DEF Init
<1>2. Laid(db, now)
  <2>1. NoEntitlement \in EntitlementRow /\ ~Held(NoEntitlement)
    BY DEF NoEntitlement, EntitlementRow, Held
  <2>2. Known(db) = {}
    BY <1>1 DEF Known, NoOrder
  <2>3. IsFiniteSet(Known(db))
    BY <2>2, FS_EmptySet
  <2> QED
    BY <1>1, <2>1, <2>3 DEF Laid, PeriodOk
<1>3. PriceTaken
  BY <1>1 DEF PriceTaken, NoOrder, Settled
<1>4. ReportsTrue
  <2>1. NoOrder.provider # "wechat_native"
    BY NoneAssumption DEF NoOrder
  <2> QED
    BY <1>1, <2>1 DEF ReportsTrue
<1> QED
  BY <1>2, <1>3, <1>4 DEF Books

\* Every action keeps the books.
LEMMA NextBooks == Inv /\ Books /\ [Next]_vars => Books'
<1> SUFFICES ASSUME Inv, Books, [Next]_vars PROVE Books'
  OBVIOUS
<1>1. ASSUME UNCHANGED <<now, db, bills, charge, reports>> PROVE Books'
  BY <1>1 DEF Books, PriceTaken, ReportsTrue
<1>2. ASSUME NEW u \in Users, NEW c \in Coupons, ResolveCoupon(u, c) PROVE Books'
  BY <1>1, <1>2 DEF ResolveCoupon
<1>3. ASSUME NEW u \in Users, NEW p \in Providers, NEW c \in Coupons \cup {None}, CreateOrder(u, p, c)
      PROVE  Books'
  BY <1>3, CreateOrderBooks
<1>4. ASSUME NEW o \in Orders,
             CloseOrder(o) \/ ConfirmPayment(o) \/ SyncProviderPayment(o) \/ RefundOrder(o)
      PROVE  Books'
  BY <1>4, CloseOrderBooks, ConfirmPaymentBooks, ConfirmProviderPaymentBooks,
     SyncTerminalPaymentBooks, RefundOrderBooks DEF SyncProviderPayment
<1>5. ASSUME NEW o \in Orders,
             MarkRefundPending(o) \/ RefundSucceeded(o) \/ RefundStillPending(o) \/ RefundFailed(o)
      PROVE  Books'
  BY <1>5, MarkRefundPendingBooks, RefundSucceededBooks, RefundReportBooks
<1>6. ASSUME \/ \E u \in Users, min \in MinSpends : GrantCoupon(u, min)
             \/ \E c \in Coupons : VoidCoupon(c)
             \/ \E a \in asked : BindInvite(a)
      PROVE  Books'
  BY <1>6, MarketingActionBooks
<1>7. ASSUME NEW u \in Users, NEW v \in Users, CheckInvite(u, v) PROVE Books'
  BY <1>1, <1>7 DEF CheckInvite
<1>8. ASSUME NEW o \in Orders, Pay(o) PROVE Books'
  BY <1>8, PayBooks
<1>9. ASSUME NEW o \in Orders,
             ProviderGivesUp(o) \/ RequestRefund(o) \/ QueryRefund(o) \/ SettleRefund(o)
      PROVE  Books'
  BY <1>9, ProviderBooks
<1>10. CASE Tick
  BY <1>10, TickBooks
<1>11. CASE UNCHANGED vars
  BY <1>1, <1>11 DEF vars
<1> QED
  BY <1>2, <1>3, <1>4, <1>5, <1>6, <1>7, <1>8, <1>9, <1>10, <1>11 DEF Next

\* Nobody holds a membership that was not paid for, nor pays for a day twice but by the
\* late report of a payment made while a period ran that is over by then
\* (membership_store.py:1593-1730, 2090-2240).
THEOREM EntitlementsArePaidFor == Spec => []EntitlementIsPaidFor
<1>1. Inv /\ Books => EntitlementIsPaidFor
  <2> SUFFICES ASSUME Inv, Books, NEW o \in Orders, Held(db.ents[o])
               PROVE  /\ db.orders[o].status \in {"paid", "refund_pending"}
                      /\ db.orders[o].provider = "wechat_native" =>
                            /\ charge[o].state \notin {"open", "closed", "failed"}
                            /\ charge[o].amount = OrderPrice(db.orders[o])
                      /\ \A p \in Orders \ {o} :
                            db.orders[p].user = db.orders[o].user /\ Held(db.ents[p]) =>
                               \/ db.ents[o].end <= db.ents[p].start
                               \/ db.ents[p].end <= db.ents[o].start
                               \/ ReportedLate(o, p)
                               \/ ReportedLate(p, o)
    BY DEF EntitlementIsPaidFor
  <2>1. PeriodOk(db, o, now)
    BY DEF Books, Laid
  <2>2. db.orders[o].status \in Settled
    BY <2>1 DEF PeriodOk, Bought, Settled
  <2>3. db.orders[o].provider = "wechat_native" =>
           /\ charge[o].state \notin {"open", "closed", "failed"}
           /\ charge[o].amount = OrderPrice(db.orders[o])
    BY <2>2 DEF Books, PriceTaken, PaidStates, RefundStates
  <2> QED
    BY <2>1, <2>3 DEF PeriodOk, Bought, Apart, Late, ReportedLate
<1>2. Inv /\ Books /\ [Next]_vars => Books'
  BY NextBooks
<1> QED
  BY <1>1, <1>2, InitBooks, AlwaysInv, PTL DEF Spec
=============================================================================
