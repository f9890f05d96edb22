------------------------------- MODULE Promotions ------------------------------
(***************************************************************************)
(* One coupon and one affiliate account: what orders use the coupon        *)
(* (CouponsService and the transactions of OrdersService.placeOrder and    *)
(* placeGuestOrder), what the affiliate earns and is paid                  *)
(* (AffiliateService).                                                     *)
(*                                                                         *)
(* A coupon is validated some statements before the transaction that       *)
(* counts it, and staff may change it in between.  A payout reads what is  *)
(* owed before the transaction that pays it.                               *)
(***************************************************************************)
EXTENDS Integers, FiniteSets

CONSTANTS
    Shoppers,         \* customers with an account
    Guests,           \* guest checkouts
    Caps,             \* values that staff give to maxUses
    UserCap,          \* maxUsesPerUser
    MaxOrders,        \* bound: orders with the coupon
    Payers,           \* payout requests served at the same time
    MaxEarned         \* bound: commission earned

ASSUME PromotionsAssumption ==
    /\ IsFiniteSet(Shoppers \cup Guests)
    /\ Caps \subseteq Nat
    /\ MaxOrders \in Nat
    /\ MaxEarned \in Nat

VARIABLES
    coupon,           \* used: usedCount; cap: maxUses; isActive; expired: expiresAt is past
    usage,            \* CouponUsage rows: (coupon, user) is unique
    couponOrders,     \* orders with the coupon, by customer
    buying,           \* checkouts whose coupon was validated
    account,          \* AffiliateAccount
    attributed,       \* commission in CampaignAttribution rows
    tracking,         \* attributions whose commission is booked and that have no row yet
    payout,           \* what each payout request is about to pay
    paidOut,          \* LedgerEntry rows and wallet credits of payouts
    overlapped        \* two payouts were served at the same time

couponVars == <<coupon, usage, couponOrders, buying>>
affiliateVars == <<account, attributed, tracking, payout, paidOut, overlapped>>
promotionVars == <<couponVars, affiliateVars>>

Buyers == Shoppers \cup Guests

PromotionsTypeOK ==
    /\ coupon \in [used : Nat, cap : Caps, isActive : BOOLEAN, expired : BOOLEAN]
    /\ usage \subseteq Shoppers
    /\ couponOrders \in [Buyers -> 0..MaxOrders]
    /\ buying \subseteq Buyers
    /\ account \in [earned : 0..MaxEarned, paid : Nat]
    /\ attributed \in 0..MaxEarned
    /\ tracking \in 0..MaxEarned
    /\ payout \in [Payers -> 0..MaxEarned]
    /\ paidOut \in [ledger : Nat, wallet : Nat]
    /\ overlapped \in BOOLEAN

PromotionsInit ==
    /\ \E cap \in Caps : coupon = [used |-> 0, cap |-> cap, isActive |-> TRUE, expired |-> FALSE]
    /\ usage = {}
    /\ couponOrders = [b \in Buyers |-> 0]
    /\ buying = {}
    /\ account = [earned |-> 0, paid |-> 0]
    /\ attributed = 0
    /\ tracking = 0
    /\ payout = [p \in Payers |-> 0]
    /\ paidOut = [ledger |-> 0, wallet |-> 0]
    /\ overlapped = FALSE

-----------------------------------------------------------------------------
\* validateCoupon; a guest has no usage to count.
ValidateCoupon(b) ==
    /\ b \notin buying
    /\ coupon.isActive /\ ~coupon.expired
    /\ coupon.used < coupon.cap
    /\ b \in usage => UserCap > 1
    /\ buying' = buying \cup {b}
    /\ UNCHANGED <<coupon, usage, couponOrders, affiliateVars>>

\* The update that only a row under its limit matches, be it active or not.
CountUse ==
    /\ ~coupon.expired
    /\ coupon.used < coupon.cap
    /\ coupon' = [coupon EXCEPT !.used = @ + 1]

\* The transaction of the order: one more use, one row of usage, or nothing.
PlaceCouponOrder(b) ==
    /\ b \in buying
    /\ couponOrders[b] < MaxOrders
    /\ b \notin usage
    /\ CountUse
    /\ usage' = usage \cup ({b} \cap Shoppers)
    /\ couponOrders' = [couponOrders EXCEPT ![b] = @ + 1]
    /\ buying' = buying \ {b}
    /\ UNCHANGED affiliateVars

\* It is rolled back, or the checkout is given up.
RejectCouponOrder(b) ==
    /\ b \in buying
    /\ buying' = buying \ {b}
    /\ UNCHANGED <<coupon, usage, couponOrders, affiliateVars>>

\* Staff change the limit, withdraw the coupon or move its end; time passes it.
UpdateCoupon(cap, isActive, expired) ==
    /\ coupon' = [coupon EXCEPT !.cap = cap, !.isActive = isActive, !.expired = expired]
    /\ UNCHANGED <<usage, couponOrders, buying, affiliateVars>>

-----------------------------------------------------------------------------
\* trackAttribution: the commission is booked, ...
TrackCommission(commission) ==
    /\ account.earned + commission <= MaxEarned
    /\ account' = [account EXCEPT !.earned = @ + commission]
    /\ tracking' = tracking + commission
    /\ UNCHANGED <<couponVars, attributed, payout, paidOut, overlapped>>

\* ... and then the attribution is created, ...
CreateAttribution(commission) ==
    /\ commission <= tracking
    /\ attributed' = attributed + commission
    /\ tracking' = tracking - commission
    /\ UNCHANGED <<couponVars, account, payout, paidOut, overlapped>>

\* ... unless that fails.
LoseAttribution(commission) ==
    /\ commission <= tracking
    /\ tracking' = tracking - commission
    /\ UNCHANGED <<couponVars, account, attributed, payout, paidOut, overlapped>>

\* processPendingPayouts reads what is owed ...
ReadPending(p) ==
    /\ payout[p] = 0
    /\ account.earned > account.paid
    /\ payout' = [payout EXCEPT ![p] = account.earned - account.paid]
    /\ overlapped' = (overlapped \/ \E q \in Payers : payout[q] > 0)
    /\ UNCHANGED <<couponVars, account, attributed, tracking, paidOut>>

\* Setting totalPaid to what was read.
PayCommissionSetting(p) ==
    /\ payout[p] > 0
    /\ paidOut' = [ledger |-> paidOut.ledger + payout[p], wallet |-> paidOut.wallet + payout[p]]
    /\ account' = [account EXCEPT !.paid = payout[p]]
    /\ payout' = [payout EXCEPT ![p] = 0]
    /\ UNCHANGED <<couponVars, attributed, tracking, overlapped>>

\* ... and pays that, under a reference that holds the time.
PayCommission(p) ==
    /\ payout[p] > 0
    /\ paidOut' = [ledger |-> paidOut.ledger + payout[p], wallet |-> paidOut.wallet + payout[p]]
    /\ account' = [account EXCEPT !.paid = @ + payout[p]]
    /\ payout' = [payout EXCEPT ![p] = 0]
    /\ UNCHANGED <<couponVars, attributed, tracking, overlapped>>

PayoutFails(p) ==
    /\ payout[p] > 0
    /\ payout' = [payout EXCEPT ![p] = 0]
    /\ UNCHANGED <<couponVars, account, attributed, tracking, paidOut, overlapped>>

CouponNext ==
    \/ \E b \in Buyers : ValidateCoupon(b) \/ PlaceCouponOrder(b) \/ RejectCouponOrder(b)
    \/ \E cap \in Caps, isActive, expired \in BOOLEAN : UpdateCoupon(cap, isActive, expired)

AffiliateNext ==
    \/ \E n \in 1..MaxEarned : TrackCommission(n) \/ CreateAttribution(n) \/ LoseAttribution(n)
    \/ \E p \in Payers : ReadPending(p) \/ PayCommission(p) \/ PayoutFails(p)

PromotionsSpec == PromotionsInit /\ [][CouponNext \/ AffiliateNext]_promotionVars
-----------------------------------------------------------------------------
\* Of each customer as many as there are orders with the coupon.
OrdersWithCoupon == {x \in Buyers \X (1..MaxOrders) : x[2] <= couponOrders[x[1]]}

\* orders.service.ts:329 (V-06): the uses counted are the orders that have the
\* coupon, no more than its limit ever was (I-9), and a customer has no second
\* one, in however many checkouts that were validated at once.
UsesAreOrders ==
    /\ \E cap \in Caps : coupon.used <= cap
    /\ coupon.used = Cardinality(OrdersWithCoupon)
    /\ \A s \in Shoppers : couponOrders[s] = 1 <=> s \in usage

\* affiliate.service.ts:118: the ledger, the wallet and totalPaid agree on what was
\* paid, which is no more than was earned as long as payouts do not overlap.
PaidIsEarned ==
    /\ paidOut.ledger = account.paid /\ paidOut.wallet = account.paid
    /\ ~overlapped => account.paid <= account.earned
=============================================================================
