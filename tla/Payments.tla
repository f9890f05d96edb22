------------------------------- MODULE Payments -------------------------------
(***************************************************************************)
(* Card payments of orders and their refunds: payment intents, the         *)
(* gateway's events, the two-phase refund (PaymentsService) and the hourly *)
(* job that asks again for refunds that got stuck (RefundRetryService).    *)
(*                                                                         *)
(* The gateway is outside: an intent is charged and given back at most     *)
(* once, an answer may be lost after the refund was made, a key repeated   *)
(* brings the answer given before, and an event that has happened may be   *)
(* delivered at any time, any number of times, or never.                   *)
(*                                                                         *)
(* Other handlers write the same Order rows: any status may be set at any  *)
(* time, over a claim that a refund has on the order as well, and an item  *)
(* may be refunded to the wallet, which counts as a refund of the order.   *)
(*                                                                         *)
(* The wallet's part in these handlers is in Wallet, what the events do to *)
(* the stock an order holds in OrderFulfilment.                            *)
(***************************************************************************)
EXTENDS Integers

CONSTANTS
    Orders,
    OtherStatuses, \* of an order: SHIPPED, CANCELLED, ..., which mean nothing here
    Edited,        \* bound: orders that other handlers write
    MaxIntents,    \* bound: payment intents ever created
    Requests,      \* requests and events that are served at the same time
    Workers,       \* runs of the hourly job that may be under way at the same time
    MaxRetries,    \* MAX_REFUND_RETRIES
    MaxCount,      \* bound: retryCount of a RefundRequest row
    MaxFaults      \* bound: crashes of the job and outcomes it loses

ASSUME RetriesAssumption ==
    /\ MaxIntents \in Nat
    /\ MaxRetries \in Nat \ {0}
    /\ MaxCount \in Nat /\ MaxCount >= MaxRetries
    /\ MaxFaults \in Nat
    /\ OtherStatuses \cap {"CANCELLING", "REFUNDED"} = {}

VARIABLES
    order,            \* Order rows
    credited,         \* orders of which an item was refunded to the wallet
    reconciled,       \* orders with a PaymentReconciliation row
    refund,           \* the RefundRequest row of each order
    intent,           \* the gateway's payment intents
    answered,         \* idempotency keys under which the gateway has made a refund
    request,          \* the request being served by each slot
    worker,           \* the runs of the job
    faults

gatewayVars == <<intent, answered>>
vars == <<order, credited, reconciled, refund, intent, answered, request, worker, faults>>

None == 0
Intents == 1..MaxIntents
OrderStatus == {"PENDING", "CONFIRMED", "CANCELLING", "REFUNDED"} \cup OtherStatuses
Refundable == OrderStatus \ {"CANCELLING", "REFUNDED"}
PaymentStatus == {"UNPAID", "PAID", "PARTIALLY_REFUNDED", "REFUNDED"}

Idle == [op |-> "idle"]
NoRow == [status |-> "NONE"]

Order == [status : OrderStatus, payment : PaymentStatus, intent : Intents \cup {None}]
\* late: its updatedAt is more than RETRY_AFTER_MS ago.
Refund == {NoRow} \cup
    [status : {"PROCESSING", "COMPLETED", "FAILED"}, count : 0..MaxCount, late : BOOLEAN]
\* first: created under the key order:<id>.
Intent == {NoRow} \cup
    [status : {"open", "canceled", "charged", "returned"}, order : Orders,
     first : BOOLEAN]
\* stands (history): no other handler has written the order's status since the claim.
Request ==
    {Idle}
    \cup [op : {"create", "settle"}, o : Orders]
    \cup [op : {"retry"}, o : Orders, intent : Intents \cup {None}]
    \cup [op : {"keep"}, o : Orders, intent : Intents]
    \cup [op : {"claim", "record", "call", "complete", "rollback", "fail"},
          o : Orders, prior : Refundable, intent : Intents, stands : BOOLEAN]
\* todo: rows read and not yet retried; at: the row being retried.
Stuck == [o : Orders, count : 0..MaxCount, intent : Intents]
Worker ==
    {Idle}
    \cup [op : {"batch"}, todo : SUBSET Stuck]
    \cup [op : {"made", "refused"}, todo : SUBSET Stuck, at : Stuck]

TypeOK ==
    /\ order \in [Orders -> Order]
    /\ credited \subseteq Orders
    /\ reconciled \subseteq Orders
    /\ refund \in [Orders -> Refund]
    /\ intent \in [Intents -> Intent]
    /\ answered \subseteq Orders \X (1..MaxCount)
    /\ request \in [Requests -> Request]
    /\ worker \in [Workers -> Worker]
    /\ faults \in 0..MaxFaults

Init ==
    /\ order = [o \in Orders |-> [status |-> "PENDING", payment |-> "UNPAID", intent |-> None]]
    /\ credited = {}
    /\ reconciled = {}
    /\ refund = [o \in Orders |-> NoRow]
    /\ intent = [i \in Intents |-> NoRow]
    /\ answered = {}
    /\ request = [q \in Requests |-> Idle]
    /\ worker = [w \in Workers |-> Idle]
    /\ faults = 0

-----------------------------------------------------------------------------
\* The gateway.

NewIntent(o, first) == [status |-> "open", order |-> o, first |-> first]
NextIntent == CHOOSE i \in 1..(MaxIntents + 1) :
    \A j \in Intents : j < i <=> intent[j] # NoRow

CustomerPays(i) ==
    /\ intent[i].status = "open"
    /\ intent' = [intent EXCEPT ![i].status = "charged"]
    /\ UNCHANGED <<credited, order, reconciled, refund, answered, request, worker, faults>>

\* Someone refunds a charge in the gateway's dashboard.
DashboardRefund(i) ==
    /\ intent[i].status = "charged"
    /\ intent' = [intent EXCEPT ![i].status = "returned"]
    /\ UNCHANGED <<credited, order, reconciled, refund, answered, request, worker, faults>>

-----------------------------------------------------------------------------
\* Handlers.

SetRequest(q, r) == request' = [request EXCEPT ![q] = r]
Accept(q, r) == request[q] = Idle /\ SetRequest(q, r)
Goto(q, op) == SetRequest(q, [request[q] EXCEPT !.op = op])
Reply(q) == SetRequest(q, Idle)
SetOrder(o, r) == order' = [order EXCEPT ![o] = r]

\* Between a request's claim of an order and its end.
Claimed(q, o) ==
    request[q].op \in {"record", "call", "complete", "rollback"} /\ request[q].o = o
\* The requests, when somebody writes over what they have claimed.
Overwritten(o) ==
    [q \in Requests |-> IF Claimed(q, o) THEN [request[q] EXCEPT !.stands = FALSE] ELSE request[q]]

\* POST /payments/create-intent and /payments/retry/:orderId read the order, ...
ReadToCreate(q, o) ==
    /\ order[o].payment # "PAID"
    /\ Accept(q, [op |-> "create", o |-> o])
    /\ UNCHANGED <<credited, order, reconciled, refund, gatewayVars, worker, faults>>

ReadToRetry(q, o) ==
    /\ order[o].payment # "PAID"
    /\ Accept(q, [op |-> "retry", o |-> o, intent |-> order[o].intent])
    /\ UNCHANGED <<credited, order, reconciled, refund, gatewayVars, worker, faults>>

\* The intent that the key of an order stands for.
FirstIntents(o) ==
    {i \in Intents : intent[i] # NoRow /\ intent[i].order = o /\ intent[i].first}

\* ... the first asks for the intent with the key of the order, ...
CreateIntent(q, i) ==
    LET o == request[q].o
    IN  /\ request[q].op = "create"
        /\ IF FirstIntents(o) = {}
           THEN i = NextIntent /\ intent' = [intent EXCEPT ![i] = NewIntent(o, TRUE)]
           ELSE i \in FirstIntents(o) /\ UNCHANGED intent
        /\ SetRequest(q, [op |-> "keep", o |-> o, intent |-> i])
        /\ UNCHANGED <<credited, order, reconciled, refund, answered, worker, faults>>

\* ... the second cancels the intent it saw, if that is open and the gateway
\* obeys, and asks for a new one, which may fail, ...
RenewIntent(q) ==
    LET o == request[q].o
        old == request[q].intent
        canceled == {i \in {old} \ {None} : intent[i].status = "open"}
        remaining(S) == [i \in Intents |->
                           IF i \in S THEN [intent[i] EXCEPT !.status = "canceled"] ELSE intent[i]]
    IN  /\ request[q].op = "retry"
        /\ \E S \in {{}, canceled} :
              \/ intent' = remaining(S) /\ Reply(q)
              \/ \E i \in {NextIntent} \cap Intents :
                    /\ intent' = [remaining(S) EXCEPT ![i] = NewIntent(o, FALSE)]
                    /\ SetRequest(q, [op |-> "keep", o |-> o, intent |-> i])
        /\ UNCHANGED <<credited, order, reconciled, refund, answered, worker, faults>>

\* ... and write its id, whatever has become of the order.
KeepIntent(q) ==
    LET o == request[q].o
    IN  /\ request[q].op = "keep"
        /\ SetOrder(o, [order[o] EXCEPT !.intent = request[q].intent])
        /\ Reply(q)
        /\ UNCHANGED <<credited, reconciled, refund, gatewayVars, worker, faults>>

-----------------------------------------------------------------------------
\* Events.

\* Not claiming the event with the reconciliation row.
ConfirmPaymentUnclaimed(i) ==
    LET o == intent[i].order
    IN  /\ intent[i].status \in {"charged", "returned"}
        /\ reconciled' = reconciled \cup {o}
        /\ SetOrder(o, [order[o] EXCEPT !.payment = "PAID", !.status = "CONFIRMED"])
        /\ UNCHANGED <<credited, refund, gatewayVars, request, worker, faults>>

\* payment_intent.succeeded.  The row is unique for the intent and for the
\* order, so that whatever comes second is taken for a duplicate.
ConfirmPayment(i) ==
    LET o == intent[i].order
    IN  /\ intent[i].status \in {"charged", "returned"}
        /\ o \notin reconciled
        /\ reconciled' = reconciled \cup {o}
        /\ SetOrder(o, [order[o] EXCEPT !.payment = "PAID", !.status = "CONFIRMED"])
        /\ UNCHANGED <<credited, refund, gatewayVars, request, worker, faults>>

\* payment_intent.payment_failed, whatever has become of the order.  Any intent
\* may have seen an attempt fail while it was open.
PaymentFailed(i) ==
    LET o == intent[i].order
    IN  /\ intent[i] # NoRow
        /\ SetOrder(o, [order[o] EXCEPT !.payment = "UNPAID"])
        /\ UNCHANGED <<credited, reconciled, refund, gatewayVars, request, worker, faults>>

\* charge.refunded reads the order whose present intent it is, ...
ReadToSettle(q, o) ==
    LET i == order[o].intent
    IN  /\ i # None
        /\ intent[i].status = "returned"
        /\ order[o].payment # "REFUNDED"
        /\ Accept(q, [op |-> "settle", o |-> o])
        /\ UNCHANGED <<credited, order, reconciled, refund, gatewayVars, worker, faults>>

\* ... and settles it unless that has been done.
Settle(q) ==
    LET o == request[q].o
    IN  /\ request[q].op = "settle"
        /\ IF order[o].payment # "REFUNDED"
           THEN SetOrder(o, [order[o] EXCEPT !.payment = "REFUNDED", !.status = "REFUNDED"])
           ELSE UNCHANGED order
        /\ Reply(q)
        /\ UNCHANGED <<credited, reconciled, refund, gatewayVars, worker, faults>>

-----------------------------------------------------------------------------
\* POST /payments/refund/:orderId.

ReadToRefund(q, o) ==
    /\ order[o].intent # None
    /\ order[o].payment = "PAID"
    /\ order[o].status \notin {"CANCELLING", "REFUNDED"}
    /\ Accept(q, [op |-> "claim", o |-> o, prior |-> order[o].status,
                 intent |-> order[o].intent, stands |-> TRUE])
    /\ UNCHANGED <<credited, order, reconciled, refund, gatewayVars, worker, faults>>

\* Entering CANCELLING without looking at the row again.
ClaimOrderUnconditional(q) ==
    LET o == request[q].o
    IN  /\ request[q].op = "claim"
        /\ SetOrder(o, [order[o] EXCEPT !.status = "CANCELLING"])
        /\ Goto(q, "record")
        /\ UNCHANGED <<credited, reconciled, refund, gatewayVars, worker, faults>>

\* The claim is an update of the row as it was read.
ClaimOrder(q) ==
    LET o == request[q].o
    IN  /\ request[q].op = "claim"
        /\ IF order[o].status = request[q].prior /\ order[o].payment = "PAID"
           THEN /\ SetOrder(o, [order[o] EXCEPT !.status = "CANCELLING"])
                /\ Goto(q, "record")
           ELSE Reply(q) /\ UNCHANGED order
        /\ UNCHANGED <<credited, reconciled, refund, gatewayVars, worker, faults>>

\* The RefundRequest row is created, or counts one more attempt, ...
RecordRefund(q) ==
    LET o == request[q].o
        count == IF refund[o] = NoRow THEN 0 ELSE refund[o].count + 1
    IN  /\ request[q].op = "record"
        /\ count <= MaxCount
        /\ refund' = [refund EXCEPT ![o] =
               [status |-> "PROCESSING", count |-> count, late |-> FALSE]]
        /\ Goto(q, "call")
        /\ UNCHANGED <<credited, order, reconciled, gatewayVars, worker, faults>>

\* ... the gateway gives the money back, refuses, or gives it back and is not heard, ...
CallGateway(q) ==
    LET i == request[q].intent
    IN  /\ request[q].op = "call"
        /\ \/ /\ intent[i].status = "charged"
              /\ intent' = [intent EXCEPT ![i].status = "returned"]
              /\ \E op \in {"complete", "rollback"} : Goto(q, op)
           \/ UNCHANGED intent /\ Goto(q, "rollback")
        /\ UNCHANGED <<credited, order, reconciled, refund, answered, worker, faults>>

\* ... and the row is completed.  When that fails, or the tracking event after
\* it, the code goes on as if the gateway had refused.
CompleteRefund(q) ==
    LET o == request[q].o
        done == [refund EXCEPT ![o].status = "COMPLETED", ![o].late = FALSE]
    IN  /\ request[q].op = "complete"
        /\ \/ refund' = done /\ Reply(q)
           \/ refund' \in {done, refund} /\ Goto(q, "rollback")
        /\ UNCHANGED <<credited, order, reconciled, gatewayVars, worker, faults>>

\* Whose CANCELLING it is, is not asked.
RollBackClaim(q) ==
    LET o == request[q].o
    IN  /\ request[q].op = "rollback"
        /\ IF order[o].status = "CANCELLING"
           THEN /\ SetOrder(o, [order[o] EXCEPT !.status = request[q].prior])
                /\ request' = [Overwritten(o) EXCEPT ![q] = [request[q] EXCEPT !.op = "fail"]]
           ELSE Goto(q, "fail") /\ UNCHANGED order
        /\ UNCHANGED <<credited, reconciled, refund, gatewayVars, worker, faults>>

FailRefund(q) ==
    LET o == request[q].o
    IN  /\ request[q].op = "fail"
        /\ refund' = [refund EXCEPT ![o].status = "FAILED", ![o].late = FALSE]
        /\ Reply(q)
        /\ UNCHANGED <<credited, order, reconciled, gatewayVars, worker, faults>>

\* An error or a crash ends a request between two of its statements.
Abort(q) ==
    /\ request[q] # Idle
    /\ Reply(q)
    /\ UNCHANGED <<credited, order, reconciled, refund, gatewayVars, worker, faults>>

-----------------------------------------------------------------------------
\* What other handlers do to the order: updateOrderStatus of OrdersService and of
\* AdminService set any status, whatever there is; cancelOrder, cancelOrderItem,
\* requestReturn, a split and a return to the warehouse set one in some of these cases.
UpdateOrderStatus(o, status) ==
    /\ o \in Edited
    /\ SetOrder(o, [order[o] EXCEPT !.status = status])
    /\ request' = Overwritten(o)
    /\ UNCHANGED <<credited, reconciled, refund, gatewayVars, worker, faults>>

\* refundOrderItem pays to the wallet and asks nobody at the gateway.  How many of the
\* items are refunded or cancelled is left open.
RefundOrderItem(o) ==
    /\ o \in Edited
    /\ credited' = credited \cup {o}
    /\ \E payment \in {order[o].payment, "PARTIALLY_REFUNDED", "REFUNDED"} :
          SetOrder(o, [order[o] EXCEPT !.payment = payment])
    /\ UNCHANGED <<reconciled, refund, gatewayVars, request, worker, faults>>

-----------------------------------------------------------------------------
\* The hourly job.

\* A row that no request is working on becomes old enough; a request does not
\* last an hour.
GrowsLate(o) ==
    /\ refund[o].status = "PROCESSING"
    /\ ~refund[o].late
    /\ \A q \in Requests : request[q].op \in {"call", "complete", "rollback", "fail"} => request[q].o # o
    /\ refund' = [refund EXCEPT ![o].late = TRUE]
    /\ UNCHANGED <<credited, order, reconciled, gatewayVars, request, worker, faults>>

SetWorker(w, r) == worker' = [worker EXCEPT ![w] = r]

\* Picking a row once more than that.
IsStuckOnceMore(o) ==
    refund[o].status = "PROCESSING" /\ refund[o].late /\ refund[o].count <= MaxRetries

IsStuck(o) ==
    refund[o].status = "PROCESSING" /\ refund[o].late /\ refund[o].count < MaxRetries

\* runOnce: the batch, ...
SelectStuck(w) ==
    LET stuck == {o \in Orders : IsStuck(o)}
    IN  /\ worker[w] = Idle
        /\ stuck # {}
        /\ SetWorker(w, [op |-> "batch", todo |->
               {[o |-> o, count |-> refund[o].count, intent |-> order[o].intent] : o \in stuck}])
        /\ UNCHANGED <<credited, order, reconciled, refund, gatewayVars, request, faults>>

\* ... for each row one call, under a key of the row and the attempt, ...
RetryRefund(w, r) ==
    LET key == <<r.o, r.count + 1>>
        next(op) == [op |-> op, todo |-> worker[w].todo \ {r}, at |-> r]
    IN  /\ worker[w].op = "batch"
        /\ r \in worker[w].todo
        /\ \/ key \in answered /\ UNCHANGED gatewayVars /\ SetWorker(w, next("made"))
           \/ /\ key \notin answered
              /\ intent[r.intent].status = "charged"
              /\ intent' = [intent EXCEPT ![r.intent].status = "returned"]
              /\ answered' = answered \cup {key}
              /\ \E op \in {"made", "refused"} : SetWorker(w, next(op))
           \/ UNCHANGED gatewayVars /\ SetWorker(w, next("refused"))
        /\ UNCHANGED <<credited, order, reconciled, refund, request, faults>>

\* Not counting the attempts that fail.
WriteOutcomeUncounted(w) ==
    LET r == worker[w].at
    IN  /\ worker[w].op \in {"made", "refused"}
        /\ \/ worker[w].op = "made" /\ refund' = [refund EXCEPT ![r.o].status = "COMPLETED"]
           \/ refund' = [refund EXCEPT ![r.o].late = FALSE]
        /\ SetWorker(w, [op |-> "batch", todo |-> worker[w].todo])
        /\ UNCHANGED <<credited, order, reconciled, gatewayVars, request, faults>>

\* ... whose outcome is written without a condition, a refund that cannot be
\* recorded as an attempt that failed.
WriteOutcome(w) ==
    LET r == worker[w].at
        counted == [refund EXCEPT ![r.o].count = r.count + 1, ![r.o].late = FALSE]
    IN  /\ worker[w].op \in {"made", "refused"}
        /\ \/ worker[w].op = "made" /\ refund' = [counted EXCEPT ![r.o].status = "COMPLETED"]
           \/ refund' = counted
        /\ SetWorker(w, [op |-> "batch", todo |-> worker[w].todo])
        /\ UNCHANGED <<credited, order, reconciled, gatewayVars, request, faults>>

\* markAndAlertPermanentFailures, after the last row of a batch.
MarkExhausted(w) ==
    /\ worker[w].op = "batch"
    /\ worker[w].todo = {}
    /\ refund' = [o \in Orders |->
           IF refund[o].status = "PROCESSING" /\ refund[o].count >= MaxRetries
           THEN [refund[o] EXCEPT !.status = "FAILED", !.late = FALSE]
           ELSE refund[o]]
    /\ SetWorker(w, Idle)
    /\ UNCHANGED <<credited, order, reconciled, gatewayVars, request, faults>>

\* Neither statement succeeds and the loop goes on, or the process dies.
Fail(w) ==
    /\ worker[w] # Idle
    /\ faults < MaxFaults
    /\ faults' = faults + 1
    /\ \/ SetWorker(w, Idle)
       \/ worker[w].op # "batch" /\ SetWorker(w, [op |-> "batch", todo |-> worker[w].todo])
    /\ UNCHANGED <<credited, order, reconciled, refund, gatewayVars, request>>

-----------------------------------------------------------------------------
Serve(q) ==
    \/ \E i \in Intents : CreateIntent(q, i)
    \/ RenewIntent(q)
    \/ KeepIntent(q)
    \/ Settle(q)
    \/ ClaimOrder(q)
    \/ RecordRefund(q)
    \/ CallGateway(q)
    \/ CompleteRefund(q)
    \/ RollBackClaim(q)
    \/ FailRefund(q)
    \/ Abort(q)

Work(w) ==
    \/ SelectStuck(w)
    \/ \E r \in Stuck : RetryRefund(w, r)
    \/ WriteOutcome(w)
    \/ MarkExhausted(w)

Next ==
    \/ \E i \in Intents :
        \/ CustomerPays(i)
        \/ DashboardRefund(i)
        \/ ConfirmPayment(i)
        \/ PaymentFailed(i)
    \/ \E q \in Requests :
        \/ Serve(q)
        \/ \E o \in Orders : ReadToCreate(q, o) \/ ReadToRetry(q, o) \/ ReadToSettle(q, o) \/ ReadToRefund(q, o)
    \/ \E w \in Workers : Work(w) \/ Fail(w)
    \/ \E o \in Orders :
        \/ \E status \in OrderStatus : UpdateOrderStatus(o, status)
        \/ RefundOrderItem(o)
        \/ GrowsLate(o)

Spec == Init /\ [][Next]_vars

\* A request that was accepted goes on or fails, an hour passes, and the job,
\* started every hour, goes through its batch.
FairSpec ==
    /\ Spec
    /\ \A q \in Requests : WF_vars(Serve(q))
    /\ \A w \in Workers : WF_vars(Work(w))
    /\ \A o \in Orders : WF_vars(GrowsLate(o))
-----------------------------------------------------------------------------
Standing(q, o) == Claimed(q, o) /\ request[q].stands
Returned(o) == \E i \in Intents : intent[i].status = "returned" /\ intent[i].order = o

Promise == INSTANCE TwoPhaseRefund WITH
    Callers <- Requests,
    claimants <- [o \in Orders |-> {q \in Requests : Standing(q, o)}],
    returned <- [o \in Orders |-> Returned(o)],
    completed <- [o \in Orders |-> refund[o].status = "COMPLETED"],
    refunded <- [o \in Orders |-> order[o].payment = "REFUNDED"]

\* payments.service.ts:616 (R-004): a second click on refund cannot start a second
\* refund while the first is under way, whatever events, crashes and retries come
\* between, unless another handler wrote over the status that the first had claimed
\* (orders.service.ts:799, admin.service.ts:370).  The RefundRequest says that the money
\* is back only after the gateway gave it back, and the order only after that or
\* after an item was paid back to the wallet (orders.service.ts:1026).
ImplementsTwoPhaseRefund == Promise!Spec

\* payments.service.ts:281: once the payment was recorded, a success that is
\* delivered again does not make a refunded order a paid one.
RefundedIsNotPaidAgain ==
    [][\A o \in Orders : (order[o].payment = "REFUNDED" /\ o \in reconciled)
            => order'[o].payment # "PAID"]_vars

\* refund-retry.service.ts:22: a row that got stuck in PROCESSING is completed,
\* failed, or tried until its attempts are used up.
StuckRefundsAreRetried ==
    \A o \in Orders : refund[o].status = "PROCESSING" ~>
        (refund[o].status # "PROCESSING" \/ refund[o].count >= MaxRetries)

\* refund-retry.service.ts:24: after MAX_REFUND_RETRIES attempts a row is FAILED.
ExhaustedRefundsFail ==
    \A o \in Orders : (refund[o].status = "PROCESSING" /\ refund[o].count >= MaxRetries) ~>
        refund[o].status # "PROCESSING"
=============================================================================
