--------------------------------- MODULE Checkout ---------------------------------
(***************************************************************************)
(* What an order costs, who pays it, and whom the fraud gate lets in: the  *)
(* steps of OrdersService.placeOrder and placeGuestOrder around their      *)
(* transaction, FraudService.                                              *)
(*                                                                         *)
(* A checkout reads the blacklist, then prices, then the wallet, and then  *)
(* writes the order; the wallet is debited after that.  The reservation    *)
(* and its units are those of CartReservation, the book of the wallet that *)
(* of Wallet, the uses of the coupon those of Promotions.                  *)
(*                                                                         *)
(* Amounts are counted in parts of a cent, Cent of them to one: a          *)
(* percentage leaves such parts, and only the wallet's share is rounded.   *)
(***************************************************************************)
EXTENDS Integers, Sequences, FiniteSets, FiniteSetsExt

CONSTANTS
    Customer, Guest,  \* somebody with an account, and somebody without
    Checkouts,        \* requests served at the same time
    Cent,             \* parts of a cent that amounts are counted in
    Subtotals,        \* what bags cost
    Blacklistable,    \* what staff may blacklist: <<type, value>>
    CouponAmounts,    \* fixed discounts
    Asked,            \* what a customer wants the wallet to pay
    FreeShippingFrom, \* freeShippingThreshold
    ShippingFee,
    Taxes,            \* what a tax strategy may answer
    Funds,            \* bound: what the wallet has at first
    MaxPlaced         \* bound: orders

ASSUME CheckoutAssumption ==
    /\ Cent \in Nat \ {0}
    /\ Subtotals \subseteq Nat /\ CouponAmounts \subseteq Nat
    /\ Asked \subseteq Nat /\ Taxes \subseteq Nat
    /\ FreeShippingFrom \in Nat /\ ShippingFee \in Nat /\ Funds \in Nat /\ MaxPlaced \in Nat

VARIABLES
    blacklist,        \* active entries: <<type, value>>
    risk,             \* the customer's UserRiskScore
    funds,            \* of the customer's wallet
    checkout,         \* locals of each request
    placed            \* orders: amounts, share of the wallet, what it had when the share
                      \* was set, what was debited, and whether others used the wallet,
                      \* or died, before the debit

checkoutVars == <<blacklist, risk, funds, checkout, placed>>

NoCheckout == [stage |-> "none"]
HighRisk == 70

CheckoutTypeOK ==
    /\ blacklist \subseteq Blacklistable
    /\ risk \in 0..100
    /\ funds \in 0..Funds
    /\ \A q \in Checkouts :
          checkout[q].stage \in {"none", "gated", "priced", "ready", "owing"}
    /\ Len(placed) <= MaxPlaced

CheckoutInit ==
    /\ blacklist = {}
    /\ risk = 0
    /\ funds = Funds
    /\ checkout = [q \in Checkouts |-> NoCheckout]
    /\ placed = <<>>

-----------------------------------------------------------------------------
\* FraudService.

AddToBlacklist(e) ==
    /\ blacklist' = blacklist \cup {e}
    /\ UNCHANGED <<risk, funds, checkout, placed>>

RemoveFromBlacklist(e) ==
    /\ blacklist' = blacklist \ {e}
    /\ UNCHANGED <<risk, funds, checkout, placed>>

\* Points for the share of orders that came back, for the share of those paid in
\* cash that were cancelled, and for a first order that came back.
RiskScore(total, returned, cod, codCancelled) ==
    LET returns == IF 2 * returned > total THEN 40 ELSE IF 10 * returned > 3 * total THEN 20 ELSE 0
        cash == IF 10 * codCancelled > 4 * cod THEN 30
                ELSE IF 10 * codCancelled > 2 * cod THEN 15 ELSE 0
        first == IF total < 2 /\ returned > 0 THEN 10 ELSE 0
    IN  IF total = 0 THEN 0 ELSE Min({returns + cash + first, 100})

RefundAbuse(total, returned) == 2 * returned > total
CodAbuse(cod, codCancelled) == 10 * codCancelled > 4 * cod

\* When staff ask for it.  No order is written with a payment in cash.
ComputeRiskScore ==
    LET mine == {i \in DOMAIN placed : placed[i].by = Customer}
        back == {i \in mine : placed[i].status = "RETURN_REQUESTED"}
    IN  /\ mine # {}
        /\ risk' = RiskScore(Cardinality(mine), Cardinality(back), 0, 0)
        /\ UNCHANGED <<blacklist, funds, checkout, placed>>

\* Where the request comes from is looked up before who sends it; a guest's device
\* is not known, nor a score.
Blocked(by, device) ==
    \/ <<"IP", "home">> \in blacklist
    \/ by = Customer /\ device /\ <<"DEVICE", "phone">> \in blacklist
    \/ <<"USER", by>> \in blacklist
    \/ by = Customer /\ risk >= HighRisk

-----------------------------------------------------------------------------
\* placeOrder and placeGuestOrder.

PassGate(q, by, device) ==
    /\ checkout[q] = NoCheckout
    /\ ~Blocked(by, device)
    /\ Len(placed) < MaxPlaced
    /\ checkout' = [checkout EXCEPT ![q] = [stage |-> "gated", by |-> by]]
    /\ UNCHANGED <<blacklist, risk, funds, placed>>

\* A fixed discount is not held down to the price.
CalcDiscountUncapped(kind, value, amount) ==
    CASE kind = "CASHBACK" -> 0
      [] kind = "PERCENTAGE" -> (amount * value) \div 100
      [] OTHER -> value

CalcDiscount(kind, value, amount) ==
    CASE kind = "CASHBACK" -> 0
      [] kind = "PERCENTAGE" -> Min({(amount * value) \div 100, amount})
      [] OTHER -> Min({value, amount})

\* Prices come from the reservation or the products, the discount from the coupon,
\* the fee from the settings of the store, the tax from them or a plugin.
PriceOrder(q, subtotal, discount, tax) ==
    LET taxable == subtotal - discount
        fee == IF taxable >= FreeShippingFrom THEN 0 ELSE ShippingFee
    IN  /\ checkout[q].stage = "gated"
        /\ checkout' = [checkout EXCEPT ![q] =
              [stage |-> IF @.by = Guest THEN "ready" ELSE "priced", by |-> @.by,
               subtotal |-> subtotal, discount |-> discount,
               total |-> taxable + fee + tax, share |-> 0, available |-> 0, alone |-> TRUE]]
        /\ UNCHANGED <<blacklist, risk, funds, placed>>

\* To the nearest cent, from half a cent up.
Rounded(amount) == ((2 * amount + Cent) \div (2 * Cent)) * Cent

\* A share that is not held down to what the wallet has.
ClampToTotal(q, wanted) ==
    /\ checkout[q].stage = "priced"
    /\ checkout' = [checkout EXCEPT
          ![q].stage = "ready", ![q].available = funds,
          ![q].share = Rounded(Min({wanted, checkout[q].total}))]
    /\ UNCHANGED <<blacklist, risk, funds, placed>>

\* The wallet's share: what was asked for, is there, or is to be paid, whichever is
\* least; rounded after that, so it may be half a cent more than any of them.
ClampToWallet(q, wanted) ==
    /\ checkout[q].stage = "priced"
    /\ checkout' = [checkout EXCEPT
          ![q].stage = "ready", ![q].available = funds,
          ![q].share = Rounded(Min({wanted, funds, checkout[q].total}))]
    /\ UNCHANGED <<blacklist, risk, funds, placed>>

\* A rejected coupon, a plugin's veto, a reservation that is gone, a roll-back.
RejectCheckout(q) ==
    /\ checkout[q].stage \in {"gated", "priced", "ready"}
    /\ checkout' = [checkout EXCEPT ![q] = NoCheckout]
    /\ UNCHANGED <<blacklist, risk, funds, placed>>

CommitCheckout(q) ==
    LET c == checkout[q]
    IN  /\ c.stage = "ready"
        /\ Len(placed) < MaxPlaced
        /\ placed' = Append(placed,
              [by |-> c.by, status |-> "PENDING", subtotal |-> c.subtotal, discount |-> c.discount,
               total |-> c.total, share |-> c.share, available |-> c.available,
               debited |-> 0, alone |-> c.alone])
        /\ checkout' = [checkout EXCEPT ![q] =
              IF c.share = 0 THEN NoCheckout
              ELSE [stage |-> "owing", order |-> Len(placed) + 1, share |-> c.share]]
        /\ UNCHANGED <<blacklist, risk, funds>>

\* Whoever counts on the wallet is not alone when another takes from it.
TakeFunds(q, amount) ==
    /\ funds' = funds - amount
    /\ checkout' = [x \in Checkouts |->
          IF x = q THEN NoCheckout
          ELSE IF checkout[x].stage \in {"priced", "ready"} THEN [checkout[x] EXCEPT !.alone = FALSE]
          ELSE checkout[x]]
    /\ placed' = [i \in DOMAIN placed |->
          IF checkout[q].stage = "owing" /\ i = checkout[q].order
          THEN [placed[i] EXCEPT !.debited = amount]
          ELSE IF \E x \in Checkouts \ {q} : checkout[x].stage = "owing" /\ i = checkout[x].order
          THEN [placed[i] EXCEPT !.alone = FALSE]
          ELSE placed[i]]
    /\ UNCHANGED <<blacklist, risk>>

\* The debit after the commit, ...
DebitShare(q) ==
    /\ checkout[q].stage = "owing"
    /\ funds >= checkout[q].share
    /\ TakeFunds(q, checkout[q].share)

\* ... whose failure nobody hears of.
SwallowDebit(q) ==
    /\ checkout[q].stage = "owing"
    /\ funds < checkout[q].share
    /\ checkout' = [checkout EXCEPT ![q] = NoCheckout]
    /\ UNCHANGED <<blacklist, risk, funds, placed>>

\* The process dies between the two.
DieOwing(q) ==
    /\ checkout[q].stage = "owing"
    /\ placed' = [placed EXCEPT ![checkout[q].order].alone = FALSE]
    /\ checkout' = [checkout EXCEPT ![q] = NoCheckout]
    /\ UNCHANGED <<blacklist, risk, funds>>

\* An order comes back.
ReturnOrder(i) ==
    /\ placed[i].status = "PENDING"
    /\ placed' = [placed EXCEPT ![i].status = "RETURN_REQUESTED"]
    /\ UNCHANGED <<blacklist, risk, funds, checkout>>

CheckoutNext ==
    \/ \E e \in Blacklistable : AddToBlacklist(e) \/ RemoveFromBlacklist(e)
    \/ ComputeRiskScore
    \/ \E i \in DOMAIN placed : ReturnOrder(i)
    \/ \E q \in Checkouts :
          \/ \E by \in {Customer, Guest}, device \in BOOLEAN : PassGate(q, by, device)
          \/ \E subtotal \in Subtotals, value \in CouponAmounts, tax \in Taxes :
                PriceOrder(q, subtotal, CalcDiscount("FIXED", value, subtotal), tax)
          \/ \E wanted \in Asked : ClampToWallet(q, wanted)
          \/ RejectCheckout(q) \/ CommitCheckout(q)
          \/ DebitShare(q) \/ SwallowDebit(q) \/ DieOwing(q)

CheckoutSpec == CheckoutInit /\ [][CheckoutNext]_checkoutVars
-----------------------------------------------------------------------------
\* orders.service.ts:226: no order costs less than nothing or gives more off than it
\* costs; its share of the wallet is whole cents, at most half a cent above what is to
\* be paid and above what the wallet had; and the share that the order says the wallet paid
\* was debited, unless rounding took it above what was there, the wallet was used
\* by others, or the process died in between (line 366).
AmountsAddUp ==
    \A i \in DOMAIN placed :
        LET o == placed[i]
            owing == \E q \in Checkouts : checkout[q].stage = "owing" /\ checkout[q].order = i
        IN  /\ 0 <= o.discount /\ o.discount <= o.subtotal /\ 0 <= o.total
            /\ 0 <= o.share /\ o.share % Cent = 0
            /\ 2 * o.share <= 2 * o.total + Cent /\ 2 * o.share <= 2 * o.available + Cent
            /\ o.alone /\ ~owing => o.debited = IF o.share <= o.available THEN o.share ELSE 0
            /\ o.debited \in {0, o.share}

HighRiskMeansBoth(total, returned, cod, codCancelled) ==
    RiskScore(total, returned, cod, codCancelled) >= HighRisk
        <=> RefundAbuse(total, returned) /\ CodAbuse(cod, codCancelled)

\* fraud.service.ts:18: a score that blocks is for both abuses at once, whatever the
\* orders were; neither alone, nor a first order that came back, reaches it.
HighRiskIsBothAbuses ==
    \A total \in 1..4 : \A returned \in 0..total, cod \in 0..total :
        \A codCancelled \in 0..Min({cod, total - returned}) :
            HighRiskMeansBoth(total, returned, cod, codCancelled)
=============================================================================
