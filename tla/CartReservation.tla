--------------------------- MODULE CartReservation ---------------------------
(***************************************************************************)
(* Checkout reservations (CartReservationService): a customer locks the    *)
(* units of a cart, then either places an order with the reservation,      *)
(* releases it, or lets it run out and a cron sweeps it.                   *)
(*                                                                         *)
(* A request reads rows, yields, and only then runs its transaction; what  *)
(* it read may be stale by then.  A request therefore has a record that    *)
(* carries what it read from one step to the next.  The sweep is a         *)
(* transaction of two statements that keeps the rows of the first locked   *)
(* (FOR UPDATE SKIP LOCKED); other transactions wait for those rows.       *)
(*                                                                         *)
(* Redis is absent here (tryReserveGate returns null, and releaseReserve-  *)
(* Gate does nothing, without REDIS_URL); module FlashGate adds it.  Time  *)
(* is abstracted to one bit per row: has expiresAt passed.                 *)
(***************************************************************************)
EXTENDS Inventory, FiniteSets

CONSTANTS
    Users,
    Requests,         \* requests the API serves at the same time
    Pods,             \* processes that may run the sweep at the same time
    MaxReservations,  \* bound: rows ever created
    MaxQty,           \* bound: units of one variant in one cart
    Carts,            \* contents a cart may have
    Cap,              \* MAX_CONCURRENT_RESERVATIONS_PER_USER
    InitialStock,
    StockLevels,      \* bound: values an operator sets a warehouse row to
    VariantEdits      \* values an operator sets a catalogue row to

Reservations == 1..MaxReservations
NoUser == 0

ASSUME BoundsAssumption ==
    /\ MaxReservations \in Nat
    /\ MaxQty \in Nat
    /\ Cap \in Nat \ {0}
    /\ NoUser \notin Users
ASSUME CartsAssumption == Carts \subseteq [Variants -> 0..MaxQty]
ASSUME StockAssumption ==
    /\ InitialStock \in [Variants -> Nat]
    /\ StockLevels \subseteq Nat
    /\ VariantEdits \subseteq Nat

VARIABLES
    status,    \* CartReservation.status; NONE: no such row yet
    owner,     \* CartReservation.userId
    items,     \* CartReservationItem: units of each variant
    late,      \* expiresAt <= now
    orders,    \* orders created from the reservation
    request,   \* the request being served by each slot
    batch      \* rows each pod's sweep has selected and locked

reservationVars == <<status, owner, items, late, orders>>
vars == <<inventoryVars, reservationVars, request, batch>>

Idle == [op |-> "idle"]
Request ==
    {Idle}
    \cup [op : {"reserve"}, user : Users, cart : Carts, victims : SUBSET Reservations]
    \cup [op : {"release", "checkout"}, r : Reservations]

TypeOK ==
    /\ InventoryTypeOK
    /\ status \in [Reservations -> {"NONE", "ACTIVE", "CONSUMED", "EXPIRED"}]
    /\ owner \in [Reservations -> Users \cup {NoUser}]
    /\ items \in [Reservations -> [Variants -> 0..MaxQty]]
    /\ late \in [Reservations -> BOOLEAN]
    /\ orders \in [Reservations -> Nat]
    /\ request \in [Requests -> Request]
    /\ batch \in [Pods -> SUBSET Reservations]

Init ==
    /\ InventoryInit(InitialStock)
    /\ status = [r \in Reservations |-> "NONE"]
    /\ owner = [r \in Reservations |-> NoUser]
    /\ items = [r \in Reservations |-> [v \in Variants |-> 0]]
    /\ late = [r \in Reservations |-> FALSE]
    /\ orders = [r \in Reservations |-> 0]
    /\ request = [q \in Requests |-> Idle]
    /\ batch = [p \in Pods |-> {}]

-----------------------------------------------------------------------------
\* Reservations and their units.

Active == {r \in Reservations : status[r] = "ACTIVE"}
Locked == UNION {batch[p] : p \in Pods}

\* Ids are handed out in creation order.
NextRow(r) ==
    /\ status[r] = "NONE"
    /\ \A s \in Reservations : s < r => status[s] # "NONE"

\* One element per unit of v that the reservations of S hold, and their number:
\* SUM(quantity) over the rows of S.
Units(it, v, S) == {u \in S \X (1..MaxQty) : u[2] <= it[u[1]][v]}
Quantity(S) == [v \in Variants |-> Cardinality(Units(items, v, S))]

\* Rows that count against the cap of a user.
Live(u) == {r \in Active : owner[r] = u /\ ~late[r]}

\* The oldest rows that leave room for one more.
Victims(u) == {r \in Live(u) : Cardinality({s \in Live(u) : s > r}) >= Cap - 1}

\* The end of a request; its transaction, if any, is part of the same step.
Reply(q) == request' = [request EXCEPT ![q] = Idle]

-----------------------------------------------------------------------------
\* POST /cart/reserve

\* Reads the cart and the rows that the cap makes it release.
ReadCart(q, u, cart) ==
    /\ request[q] = Idle
    /\ Cardinality({r \in Reservations : status[r] = "NONE"})
         > Cardinality({p \in Requests : request[p].op = "reserve"})
    /\ request' = [request EXCEPT ![q] =
           [op |-> "reserve", user |-> u, cart |-> cart, victims |-> Victims(u)]]
    /\ UNCHANGED <<inventoryVars, reservationVars, batch>>

\* Flipping without WHERE status = 'ACTIVE'.
ExpireRowUnconditional(r) ==
    /\ r \notin Locked
    /\ status' = [status EXCEPT ![r] = "EXPIRED"]
    /\ Release(items[r])
    /\ UNCHANGED <<owner, items, late, orders>>

\* The transaction of releaseById: whoever flips the row gives its units back.
ExpireRow(r) ==
    /\ r \notin Locked
    /\ IF status[r] = "ACTIVE"
       THEN /\ status' = [status EXCEPT ![r] = "EXPIRED"]
            /\ Release(items[r])
       ELSE UNCHANGED <<status, inventoryVars>>
    /\ UNCHANGED <<owner, items, late, orders>>

\* enforceConcurrentCap releases its victims one at a time, oldest first, ...
ReleaseVictim(q, r) ==
    /\ request[q].op = "reserve"
    /\ r \in request[q].victims
    /\ \A s \in request[q].victims : r <= s
    /\ ExpireRow(r)
    /\ request' = [request EXCEPT ![q].victims = @ \ {r}]
    /\ UNCHANGED batch

\* ... and goes on when a release fails.
SkipVictim(q, r) ==
    /\ request[q].op = "reserve"
    /\ r \in request[q].victims
    /\ \A s \in request[q].victims : r <= s
    /\ request' = [request EXCEPT ![q].victims = @ \ {r}]
    /\ UNCHANGED <<inventoryVars, reservationVars, batch>>

\* The transaction that creates the row and reserves every line, ...
CreateReservation(q, r) ==
    /\ request[q].op = "reserve"
    /\ request[q].victims = {}
    /\ NextRow(r)
    /\ Reserve(request[q].cart)
    /\ status' = [status EXCEPT ![r] = "ACTIVE"]
    /\ owner' = [owner EXCEPT ![r] = request[q].user]
    /\ items' = [items EXCEPT ![r] = request[q].cart]
    /\ Reply(q)
    /\ UNCHANGED <<late, orders, batch>>

\* ... rolled back when one line cannot be reserved.
RejectReservation(q) ==
    /\ request[q].op = "reserve"
    /\ request[q].victims = {}
    /\ ~Reservable(request[q].cart)
    /\ Reply(q)
    /\ UNCHANGED <<inventoryVars, reservationVars, batch>>

-----------------------------------------------------------------------------
\* DELETE /cart/reserve/:id, by the owner of the row.

ReadForRelease(q, r) ==
    /\ request[q] = Idle
    /\ status[r] = "ACTIVE"
    /\ request' = [request EXCEPT ![q] = [op |-> "release", r |-> r]]
    /\ UNCHANGED <<inventoryVars, reservationVars, batch>>

ReleaseById(q) ==
    /\ request[q].op = "release"
    /\ ExpireRow(request[q].r)
    /\ Reply(q)
    /\ UNCHANGED batch

-----------------------------------------------------------------------------
\* POST /orders, by the owner of the row.

ValidateForCheckout(q, r) ==
    /\ request[q] = Idle
    /\ status[r] = "ACTIVE"
    /\ ~late[r]
    /\ request' = [request EXCEPT ![q] = [op |-> "checkout", r |-> r]]
    /\ UNCHANGED <<inventoryVars, reservationVars, batch>>

\* Consuming without WHERE status = 'ACTIVE'.
ConsumeUnconditional(r) ==
    /\ r \notin Locked
    /\ status' = [status EXCEPT ![r] = "CONSUMED"]

\* The conditional update; expiresAt is not looked at again.
Consume(r) ==
    /\ r \notin Locked
    /\ status[r] = "ACTIVE"
    /\ status' = [status EXCEPT ![r] = "CONSUMED"]

\* The transaction that creates the order.  The units stay reserved, for the order.
PlaceOrder(q) ==
    /\ request[q].op = "checkout"
    /\ Consume(request[q].r)
    /\ orders' = [orders EXCEPT ![request[q].r] = @ + 1]
    /\ Reply(q)
    /\ UNCHANGED <<inventoryVars, owner, items, late, batch>>

\* 409: the reservation was consumed or expired since it was validated.
RejectOrder(q) ==
    /\ request[q].op = "checkout"
    /\ request[q].r \notin Locked
    /\ status[request[q].r] # "ACTIVE"
    /\ Reply(q)
    /\ UNCHANGED <<inventoryVars, reservationVars, batch>>

-----------------------------------------------------------------------------
\* A request ends early: a hook, the fraud gate, a price drift or an invalid
\* coupon rejects it, its transaction rolls back on an error, or its pod dies.
Abort(q) ==
    /\ request[q] # Idle
    /\ Reply(q)
    /\ UNCHANGED <<inventoryVars, reservationVars, batch>>

\* expiresAt passes.
Elapse(r) ==
    /\ status[r] = "ACTIVE"
    /\ ~late[r]
    /\ late' = [late EXCEPT ![r] = TRUE]
    /\ UNCHANGED <<inventoryVars, status, owner, items, orders, request, batch>>

-----------------------------------------------------------------------------
\* The sweep: expireOldReservations.

\* Leaving out the last row past its time.
ExpirySnapshotButLast(p, S) ==
    /\ batch[p] = {}
    /\ S # {}
    /\ S \subseteq {r \in Active : late[r]} \ Locked
    /\ \E s \in Active \ S : late[s] /\ \A r \in S : r < s
    /\ batch' = [batch EXCEPT ![p] = S]
    /\ UNCHANGED <<inventoryVars, reservationVars, request>>

\* Selects and locks rows past their time; rows another transaction holds are
\* skipped, and so are those beyond the LIMIT.
ExpirySnapshot(p, S) ==
    /\ batch[p] = {}
    /\ S # {}
    /\ S \subseteq {r \in Active : late[r]} \ Locked
    /\ batch' = [batch EXCEPT ![p] = S]
    /\ UNCHANGED <<inventoryVars, reservationVars, request>>

\* The CTE flips the rows that are still active and gives their units back.
ExpiryCommit(p) ==
    LET expired == batch[p] \cap Active
    IN  /\ batch[p] # {}
        /\ status' = [r \in Reservations |-> IF r \in expired THEN "EXPIRED" ELSE status[r]]
        /\ Release(Quantity(expired))
        /\ batch' = [batch EXCEPT ![p] = {}]
        /\ UNCHANGED <<owner, items, late, orders, request>>

\* The sweep's transaction rolls back.
ExpiryAbort(p) ==
    /\ batch[p] # {}
    /\ batch' = [batch EXCEPT ![p] = {}]
    /\ UNCHANGED <<inventoryVars, reservationVars, request>>

-----------------------------------------------------------------------------
\* PATCH of a warehouse row, and of a catalogue row, by an operator.

OperatorSetsStock(v, n) ==
    /\ UpdateInventory(v, n)
    /\ UNCHANGED <<reservationVars, request, batch>>

OperatorEditsVariant(v, n) ==
    /\ UpdateVariant(v, n)
    /\ UNCHANGED <<reservationVars, request, batch>>

-----------------------------------------------------------------------------
\* What a request does once it has been accepted.
Serve(q) ==
    \/ \E r \in Reservations : ReleaseVictim(q, r) \/ SkipVictim(q, r) \/ CreateReservation(q, r)
    \/ RejectReservation(q)
    \/ ReleaseById(q)
    \/ PlaceOrder(q)
    \/ RejectOrder(q)

Next ==
    \/ \E q \in Requests :
        \/ \E u \in Users, cart \in Carts : ReadCart(q, u, cart)
        \/ \E r \in Reservations : ReadForRelease(q, r) \/ ValidateForCheckout(q, r)
        \/ Serve(q)
        \/ Abort(q)
    \/ \E r \in Reservations : Elapse(r)
    \/ \E p \in Pods :
        \/ \E S \in SUBSET Reservations : ExpirySnapshot(p, S)
        \/ ExpiryCommit(p)
        \/ ExpiryAbort(p)
    \/ \E v \in Variants :
        \/ \E n \in StockLevels : OperatorSetsStock(v, n)
        \/ \E n \in VariantEdits : OperatorEditsVariant(v, n)

Spec == Init /\ [][Next]_vars

\* Some pod's sweep selects r.
Select(r) == \E p \in Pods, S \in SUBSET Reservations : r \in S /\ ExpirySnapshot(p, S)

\* The API keeps serving; the sweep runs every minute, oldest rows first, and
\* its transaction does not fail every time.
Fairness ==
    /\ \A q \in Requests : WF_vars(Serve(q))
    /\ \A r \in Reservations : SF_vars(Select(r))
    /\ \A p \in Pods : SF_vars(ExpiryCommit(p))

FairSpec == Spec /\ Fairness

-----------------------------------------------------------------------------
\* Reservations whose units are set aside: still in checkout, or owned by an order.
Holding == {r \in Reservations : status[r] \in {"ACTIVE", "CONSUMED"}}

\* I-2, as the code keeps it: what is reserved is exactly what active
\* reservations and the orders made from consumed ones hold.  A double release,
\* a release after the order took the units over, or a lost release breaks it;
\* it also says GREATEST(0, ...) never has to clamp.
ReservedIsHeld == reserved = Quantity(Holding)

\* A reservation backs at most one order, and exactly one once it is consumed,
\* however often and however late checkout is submitted.
OneOrderPerReservation ==
    \A r \in Reservations : orders[r] = IF status[r] = "CONSUMED" THEN 1 ELSE 0

\* An abandoned reservation gives its units back, or became an order.
LateIsSwept ==
    \A r \in Reservations : (status[r] = "ACTIVE" /\ late[r]) ~> status[r] # "ACTIVE"

\* Waiting for rows the sweep has locked never blocks a request for ever.
EveryRequestAnswered == \A q \in Requests : request[q] # Idle ~> request[q] = Idle
=============================================================================
