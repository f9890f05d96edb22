------------------------------- MODULE FlashGate -------------------------------
(***************************************************************************)
(* The Redis gate in front of flash-sale reservations: a counter of tokens *)
(* per variant that turns customers away before they reach the row locks   *)
(* of PostgreSQL.  It is filled from the warehouse row by the first        *)
(* request that misses it, and forgotten after an hour.                    *)
(*                                                                         *)
(* Every cart here is a flash cart.  The steps of CartReservation that the *)
(* gate takes part in are extended, the others leave it alone; calls to    *)
(* Redis are steps of their own that PostgreSQL does not see.  The claim   *)
(* is that the gate is advisory: whatever it answers and however it fails, *)
(* the system still does what CartReservation says.                        *)
(***************************************************************************)
EXTENDS CartReservation, FiniteSetsExt

CONSTANT Faults     \* may Redis, a pod or a transaction fail?

ASSUME FaultsAssumption == Faults \in BOOLEAN

VARIABLES
    gate,     \* tokens left for each variant
    asked,    \* items of its cart for which a request has passed the gate
    tokens,   \* gatesConsumed: tokens a request has taken
    cold,     \* an item whose gate a request found missing, and what it read
    owed      \* tokens to be returned after a commit

gateVars == <<gate, asked, tokens, cold, owed>>
flashVars == <<vars, gateVars>>

NoGate == -1
Warm == [step |-> "warm"]
NoTokens == [v \in Variants |-> 0]

GateTypeOK ==
    /\ gate \in [Variants -> Nat \cup {NoGate}]
    /\ asked \in [Requests -> SUBSET Variants]
    /\ tokens \in [Requests -> [Variants -> 0..MaxQty]]
    /\ cold \in [Requests -> {Warm} \cup [step : {"init", "retry"}, v : Variants, sellable : Nat]]
    /\ owed \in [Variants -> Nat]

\* Rows, requests, sweeps and gates: no column goes negative and no gate counts
\* below zero, which Redis, unlike the CHECKs of PostgreSQL, would not refuse.
FlashTypeOK == TypeOK /\ GateTypeOK

FlashInit ==
    /\ Init
    /\ gate = [v \in Variants |-> NoGate]
    /\ asked = [q \in Requests |-> {}]
    /\ tokens = [q \in Requests |-> NoTokens]
    /\ cold = [q \in Requests |-> Warm]
    /\ owed = NoTokens

-----------------------------------------------------------------------------
\* The gate: three scripts Redis runs atomically.

\* Decrementing a gate that exists without looking at what it has left.
TryReserveGateUnchecked(v, n) ==
    /\ gate[v] # NoGate
    /\ gate' = [gate EXCEPT ![v] = @ - n]

TryReserveGate(v, n) ==
    /\ gate[v] # NoGate
    /\ gate[v] >= n
    /\ gate' = [gate EXCEPT ![v] = @ - n]

\* Set if absent.
InitReserveGate(v, n) ==
    gate' = IF gate[v] = NoGate THEN [gate EXCEPT ![v] = n] ELSE gate

\* Increments the gates that exist.
ReleaseReserveGate(qty) ==
    gate' = [v \in Variants |-> IF gate[v] = NoGate THEN NoGate ELSE gate[v] + qty[v]]

-----------------------------------------------------------------------------
\* The loop of createReservation over the items of the cart, before its
\* transaction commits.

ItemsOf(q) == {v \in Variants : request[q].cart[v] > 0}

\* q has come to the gate of v.
AtGate(q, v) ==
    /\ request[q].op = "reserve"
    /\ request[q].victims = {}
    /\ v \in ItemsOf(q) \ asked[q]
    /\ cold[q] = Warm \/ (cold[q].step = "retry" /\ cold[q].v = v)

\* The locals of a request disappear with it; tokens it holds are lost.
Forget(q) ==
    /\ asked' = [asked EXCEPT ![q] = {}]
    /\ tokens' = [tokens EXCEPT ![q] = NoTokens]
    /\ cold' = [cold EXCEPT ![q] = Warm]

PassGate(q, v) ==
    /\ AtGate(q, v)
    /\ TryReserveGate(v, request[q].cart[v])
    /\ asked' = [asked EXCEPT ![q] = @ \cup {v}]
    /\ tokens' = [tokens EXCEPT ![q][v] = request[q].cart[v]]
    /\ cold' = [cold EXCEPT ![q] = Warm]
    /\ UNCHANGED <<vars, owed>>

\* Too few tokens: an error, and the tokens taken for other items stay taken.
GateRejects(q, v) ==
    /\ AtGate(q, v)
    /\ gate[v] # NoGate
    /\ gate[v] < request[q].cart[v]
    /\ Abort(q)
    /\ Forget(q)
    /\ UNCHANGED <<gate, owed>>

\* No gate: reads the sellable units from the warehouse row, ...
ReadSellable(q, v) ==
    /\ AtGate(q, v)
    /\ cold[q] = Warm
    /\ gate[v] = NoGate
    /\ cold' = [cold EXCEPT ![q] = [step |-> "init", v |-> v, sellable |-> Sellable(v)]]
    /\ UNCHANGED <<vars, gate, asked, tokens, owed>>

\* ... fills the gate unless another request has, and tries again.
FillGate(q) ==
    /\ cold[q].step = "init"
    /\ InitReserveGate(cold[q].v, cold[q].sellable)
    /\ cold' = [cold EXCEPT ![q].step = "retry"]
    /\ UNCHANGED <<vars, asked, tokens, owed>>

\* Redis does not answer, or the gate is gone again: on without a token.
PassUngated(q, v) ==
    /\ AtGate(q, v)
    /\ Faults
    /\ asked' = [asked EXCEPT ![q] = @ \cup {v}]
    /\ cold' = [cold EXCEPT ![q] = Warm]
    /\ UNCHANGED <<vars, gate, tokens, owed>>

\* Reserving without the conditional update once the gate has let all items pass.
FlashCreateTrusting(q, r) ==
    /\ request[q].op = "reserve"
    /\ request[q].victims = {}
    /\ NextRow(r)
    /\ asked[q] = ItemsOf(q)
    /\ reserved' = [v \in Variants |-> reserved[v] + request[q].cart[v]]
    /\ variantReserved' = [v \in Variants |-> variantReserved[v] + request[q].cart[v]]
    /\ status' = [status EXCEPT ![r] = "ACTIVE"]
    /\ owner' = [owner EXCEPT ![r] = request[q].user]
    /\ items' = [items EXCEPT ![r] = request[q].cart]
    /\ Reply(q)
    /\ Forget(q)
    /\ UNCHANGED <<stock, variantStock, late, orders, batch, gate, owed>>

FlashCreate(q, r) ==
    /\ CreateReservation(q, r)
    /\ asked[q] = ItemsOf(q)
    /\ Forget(q)
    /\ UNCHANGED <<gate, owed>>

\* PostgreSQL has the last word; the tokens of this attempt go back.
FlashReject(q) ==
    /\ RejectReservation(q)
    /\ \E v \in asked[q] : Sellable(v) < request[q].cart[v]
    /\ ReleaseReserveGate(tokens[q])
    /\ Forget(q)
    /\ UNCHANGED owed

FlashAbort(q) ==
    /\ Faults
    /\ Abort(q)
    /\ Forget(q)
    /\ UNCHANGED <<gate, owed>>

-----------------------------------------------------------------------------
\* Releases return tokens after the commit.

Owe(qty) == owed' = [v \in Variants |-> owed[v] + qty[v]]
ItemsIfActive(r) == IF status[r] = "ACTIVE" THEN items[r] ELSE NoTokens

FlashReleaseVictim(q, r) ==
    /\ ReleaseVictim(q, r)
    /\ Owe(ItemsIfActive(r))
    /\ UNCHANGED <<gate, asked, tokens, cold>>

FlashReleaseById(q) ==
    /\ ReleaseById(q)
    /\ Owe(ItemsIfActive(request[q].r))
    /\ UNCHANGED <<gate, asked, tokens, cold>>

FlashExpiryCommit(p) ==
    /\ ExpiryCommit(p)
    /\ Owe(Quantity(batch[p]))
    /\ UNCHANGED <<gate, asked, tokens, cold>>

\* One unit at a time: the increments of several releases commute.
One(v) == [w \in Variants |-> IF w = v THEN 1 ELSE 0]

ReturnToken(v) ==
    /\ owed[v] > 0
    /\ owed' = [owed EXCEPT ![v] = @ - 1]
    /\ ReleaseReserveGate(One(v))
    /\ UNCHANGED <<vars, asked, tokens, cold>>

LoseToken(v) ==
    /\ Faults
    /\ owed[v] > 0
    /\ owed' = [owed EXCEPT ![v] = @ - 1]
    /\ UNCHANGED <<vars, gate, asked, tokens, cold>>

\* RESERVE_GATE_TTL_SECONDS are over, or Redis restarts.
GateExpires(v) ==
    /\ Faults
    /\ gate[v] # NoGate
    /\ gate' = [gate EXCEPT ![v] = NoGate]
    /\ UNCHANGED <<vars, asked, tokens, cold, owed>>

-----------------------------------------------------------------------------
\* The steps of CartReservation the gate has no part in.
GatelessStep ==
    \/ \E q \in Requests :
        \/ \E u \in Users, cart \in Carts : ReadCart(q, u, cart)
        \/ \E r \in Reservations :
            SkipVictim(q, r) \/ ReadForRelease(q, r) \/ ValidateForCheckout(q, r)
        \/ PlaceOrder(q)
        \/ RejectOrder(q)
    \/ \E r \in Reservations : Elapse(r)
    \/ \E p \in Pods :
        \/ \E S \in SUBSET Reservations : ExpirySnapshot(p, S)
        \/ ExpiryAbort(p)
    \/ \E v \in Variants :
        \/ \E n \in StockLevels : OperatorSetsStock(v, n)
        \/ \E n \in VariantEdits : OperatorEditsVariant(v, n)

FlashNext ==
    \/ GatelessStep /\ UNCHANGED gateVars
    \/ \E q \in Requests :
        \/ \E v \in Variants :
            PassGate(q, v) \/ GateRejects(q, v) \/ ReadSellable(q, v) \/ PassUngated(q, v)
        \/ FillGate(q)
        \/ \E r \in Reservations : FlashCreate(q, r) \/ FlashReleaseVictim(q, r)
        \/ FlashReject(q)
        \/ FlashReleaseById(q)
        \/ FlashAbort(q)
    \/ \E p \in Pods : FlashExpiryCommit(p)
    \/ \E v \in Variants : ReturnToken(v) \/ LoseToken(v) \/ GateExpires(v)

FlashSpec == FlashInit /\ [][FlashNext]_flashVars

-----------------------------------------------------------------------------
\* cart-reservation.service.ts:277: PostgreSQL stays authoritative.  Whatever
\* the gate answers, fails to answer or has forgotten, every behaviour is one
\* of CartReservation.
ImplementsReservation == Spec
=============================================================================
