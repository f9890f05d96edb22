----------------------------- MODULE PaymentsProofs -----------------------------
(***************************************************************************)
(* Refunds to the card implement the two-phase refund, for any number of   *)
(* orders, intents, requests and runs of the job, any number of attempts   *)
(* and faults.                                                             *)
(***************************************************************************)
EXTENDS Payments, TLAPS

-----------------------------------------------------------------------------
\* The inductive invariant.

\* Intents are created one after the other.
IntentsInARow ==
    \E n \in 1..(MaxIntents + 1) : \A j \in Intents : j < n <=> intent[j] # NoRow

IntentOf(i, o) == i \in Intents /\ intent[i] # NoRow /\ intent[i].order = o

\* An order's intent is one of its own.
IntentsBelong == \A o \in Orders : order[o].intent # None => IntentOf(order[o].intent, o)

\* A refund follows an intent that was kept.
RefundsFollowIntents == \A o \in Orders : refund[o] # NoRow => order[o].intent # None

\* What a request carries is true: its intent is of its order, there is a row
\* where it has written one, and money went back where it is about to say so.
Fits(r) ==
    /\ r.op \in {"keep", "claim", "record", "call", "complete", "rollback", "fail"}
          => IntentOf(r.intent, r.o)
    /\ r.op \in {"claim", "record", "call", "complete", "rollback", "fail"}
          => order[r.o].intent # None
    /\ r.op \in {"call", "complete", "rollback", "fail"} => refund[r.o] # NoRow
    /\ r.op \in {"settle", "complete"} => Returned(r.o)
RequestsFit == \A q \in Requests : Fits(request[q])

\* What a run of the job has before it.
Rows(w) ==
    IF worker[w] = Idle THEN {}
    ELSE worker[w].todo \cup (IF worker[w].op = "batch" THEN {} ELSE {worker[w].at})

\* A run works on rows that were picked.
Picked(r) == r \in Stuck /\ IntentOf(r.intent, r.o) /\ refund[r.o] # NoRow /\ r.count < MaxRetries
PickedRows == \A w \in Workers : \A r \in Rows(w) : Picked(r)

\* Only a paid order is claimed, and it stays claimed or refunded until the
\* claimant has ended or another handler has written over its claim.
ClaimsHold ==
    /\ \A o \in Orders : order[o].payment = "PAID" => o \in reconciled
    /\ \A q \in Requests, o \in Orders : Standing(q, o) =>
          o \in reconciled /\ order[o].status \in {"CANCELLING", "REFUNDED"}
    /\ \A p, q \in Requests, o \in Orders : Standing(p, o) /\ Standing(q, o) => p = q

\* What the two books say of an order.
Completed(o) == refund[o].status = "COMPLETED"
Refunded(o) == order[o].payment = "REFUNDED"

\* The RefundRequest rows and the runs of the job say only of money that went back
\* that it did.
BooksFollowGateway ==
    /\ \A o \in Orders : Completed(o) => Returned(o)
    /\ \A k \in answered : Returned(k[1])
    /\ \A w \in Workers : worker[w].op = "made" => Returned(worker[w].at.o)

PaymentsInv ==
    /\ TypeOK
    /\ IntentsInARow
    /\ IntentsBelong
    /\ RefundsFollowIntents
    /\ RequestsFit
    /\ PickedRows
    /\ ClaimsHold
    /\ BooksFollowGateway

-----------------------------------------------------------------------------
\* Types.

ClaimOps == {"claim", "record", "call", "complete", "rollback", "fail"}
ClaimRequest ==
    [op : ClaimOps, o : Orders, prior : Refundable, intent : Intents, stands : BOOLEAN]

\* What the fields of a request are, by what it is at.
LEMMA RequestTyped ==
    ASSUME TypeOK, NEW q \in Requests
    PROVE  /\ request[q].op \in {"create", "settle"} => request[q] \in [op : {"create", "settle"}, o : Orders]
           /\ request[q].op = "retry" =>
                 request[q] \in [op : {"retry"}, o : Orders, intent : Intents \cup {None}]
           /\ request[q].op = "keep" => request[q] \in [op : {"keep"}, o : Orders, intent : Intents]
           /\ request[q].op \in ClaimOps => request[q] \in ClaimRequest
           /\ request[q].op \in {"idle", "create", "settle", "retry", "keep"} \cup ClaimOps
           /\ request[q].op = "idle" => request[q] = Idle
BY DEF TypeOK, Request, Idle, ClaimOps, ClaimRequest

\* Only the slot that is set changes.
LEMMA RequestSet ==
    ASSUME TypeOK, NEW q \in Requests, NEW r, SetRequest(q, r)
    PROVE  /\ request'[q] = r
           /\ \A p \in Requests : p # q => request'[p] = request[p]
           /\ r \in Request => request' \in [Requests -> Request]
BY DEF TypeOK, SetRequest

\* A slot that serves nothing has a type.
LEMMA IdleTyped == Idle \in Request /\ Idle.op = "idle"
BY DEF Request, Idle

\* A call of refundOrder that goes on keeps what it was asked for and has read.
LEMMA RequestGoes ==
    ASSUME TypeOK, NEW q \in Requests, NEW op \in ClaimOps, request[q].op \in ClaimOps, Goto(q, op)
    PROVE  /\ request'[q].op = op /\ request'[q].o = request[q].o
           /\ request'[q].intent = request[q].intent /\ request'[q].stands = request[q].stands
           /\ \A p \in Requests : p # q => request'[p] = request[p]
           /\ request' \in [Requests -> Request]
<1>1. request[q] \in ClaimRequest
  BY RequestTyped
<1>2. [request[q] EXCEPT !.op = op] \in ClaimRequest
  BY <1>1 DEF ClaimRequest
<1>3. ClaimRequest \subseteq Request
  BY DEF ClaimRequest, Request, ClaimOps
<1>4. request'[q] = [request[q] EXCEPT !.op = op]
  BY RequestSet DEF Goto
<1>5. \A p \in Requests : p # q => request'[p] = request[p]
  BY RequestSet DEF Goto
<1>6. request' \in [Requests -> Request]
  BY <1>2, <1>3, RequestSet DEF Goto
<1> QED
  BY <1>1, <1>4, <1>5, <1>6 DEF ClaimRequest

\* A claim that is written over keeps everything else.
LEMMA RequestsOverwritten ==
    ASSUME TypeOK, NEW o \in Orders
    PROVE  /\ Overwritten(o) \in [Requests -> Request]
           /\ \A p \in Requests :
                 /\ ~Claimed(p, o) => Overwritten(o)[p] = request[p]
                 /\ Claimed(p, o) =>
                       /\ Overwritten(o)[p].op = request[p].op /\ Overwritten(o)[p].o = request[p].o
                       /\ Overwritten(o)[p].intent = request[p].intent
                       /\ Overwritten(o)[p].stands = FALSE
<1>1. ASSUME NEW p \in Requests, Claimed(p, o)
      PROVE  LET x == [request[p] EXCEPT !.stands = FALSE]
             IN  /\ x \in Request /\ x.op = request[p].op /\ x.o = request[p].o
                 /\ x.intent = request[p].intent /\ x.stands = FALSE
  <2>1. request[p] \in ClaimRequest
    BY <1>1, RequestTyped DEF Claimed, ClaimOps
  <2> QED
    BY <2>1 DEF ClaimRequest, Request, ClaimOps
<1>2. \A p \in Requests : request[p] \in Request
  BY DEF TypeOK
<1> QED
  BY <1>1, <1>2 DEF Overwritten

\* A slot that has replied serves nothing.
LEMMA RequestEnds ==
    ASSUME TypeOK, NEW q \in Requests, Reply(q)
    PROVE  /\ request'[q] = Idle
           /\ \A p \in Requests : p # q => request'[p] = request[p]
           /\ request' \in [Requests -> Request]
BY RequestSet, IdleTyped DEF Reply

\* Only the row that is written changes.
LEMMA OrderSet ==
    ASSUME TypeOK, NEW o \in Orders, NEW r, SetOrder(o, r)
    PROVE  /\ order'[o] = r
           /\ \A p \in Orders : p # o => order'[p] = order[p]
           /\ r \in Order => order' \in [Orders -> Order]
BY DEF TypeOK, SetOrder

\* The intents that there are, and how they are created and change.
IntentRow ==
    [status : {"open", "canceled", "charged", "returned"}, order : Orders, first : BOOLEAN]

\* A row that is there has the fields of one.
LEMMA IntentTyped ==
    ASSUME TypeOK, NEW i \in Intents
    PROVE  /\ intent[i] # NoRow => intent[i] \in IntentRow
           /\ intent[i] # NoRow <=> intent[i].status # "NONE"
BY DEF TypeOK, Intent, IntentRow, NoRow

\* A payment at the gateway that changes its status keeps its order.
LEMMA IntentMoves ==
    ASSUME TypeOK, NEW i \in Intents, NEW s \in {"canceled", "charged", "returned"},
           intent[i] # NoRow, intent' = [intent EXCEPT ![i].status = s]
    PROVE  /\ intent' \in [Intents -> Intent]
           /\ intent'[i] # NoRow /\ intent'[i].order = intent[i].order /\ intent'[i].status = s
           /\ \A j \in Intents : j # i => intent'[j] = intent[j]
<1>1. intent[i] \in IntentRow
  BY IntentTyped
<1>2. [intent[i] EXCEPT !.status = s] \in IntentRow
  BY <1>1 DEF IntentRow
<1>3. intent' = [intent EXCEPT ![i] = [intent[i] EXCEPT !.status = s]]
  OBVIOUS
<1>4. intent \in [Intents -> Intent]
  BY DEF TypeOK
<1>5. IntentRow \subseteq Intent
  BY DEF IntentRow, Intent
<1>6. intent'[i] = [intent[i] EXCEPT !.status = s]
  BY <1>3, <1>4
<1>7. intent'[i].order = intent[i].order /\ intent'[i].status = s /\ intent'[i] # NoRow
  BY <1>1, <1>2, <1>6 DEF IntentRow, NoRow
<1> QED
  BY <1>2, <1>3, <1>4, <1>5, <1>6, <1>7

\* The intent that is created takes the first free place.
LEMMA NextIntentIsFree ==
    ASSUME TypeOK, IntentsInARow
    PROVE  /\ NextIntent \in 1..(MaxIntents + 1)
           /\ \A j \in Intents : j < NextIntent <=> intent[j] # NoRow
BY DEF IntentsInARow, NextIntent

\* A new intent takes the next place in the row.
LEMMA IntentCreated ==
    ASSUME TypeOK, IntentsInARow, NEW o \in Orders, NEW first \in BOOLEAN, NEW table,
           table \in [Intents -> Intent],
           \A j \in Intents : table[j] = NoRow <=> intent[j] = NoRow,
           NextIntent \in Intents,
           intent' = [table EXCEPT ![NextIntent] = NewIntent(o, first)]
    PROVE  /\ intent' \in [Intents -> Intent] /\ IntentsInARow'
           /\ intent[NextIntent] = NoRow /\ intent'[NextIntent] = NewIntent(o, first)
           /\ \A j \in Intents : j # NextIntent => intent'[j] = table[j]
<1>1. NewIntent(o, first) \in Intent /\ NewIntent(o, first) # NoRow
  BY DEF NewIntent, Intent, NoRow
<1>2. /\ intent' \in [Intents -> Intent]
      /\ intent'[NextIntent] = NewIntent(o, first)
      /\ \A j \in Intents : j # NextIntent => intent'[j] = table[j]
  BY <1>1
<1>3. NextIntent \in Nat /\ \A j \in Intents : j \in Nat
  BY RetriesAssumption DEF Intents
<1>4. intent[NextIntent] = NoRow
  BY <1>3, NextIntentIsFree
<1>5. NextIntent + 1 \in 1..(MaxIntents + 1)
  BY <1>3, RetriesAssumption DEF Intents
<1>6. \A j \in Intents : j < NextIntent + 1 <=> intent'[j] # NoRow
  <2> SUFFICES ASSUME NEW j \in Intents PROVE j < NextIntent + 1 <=> intent'[j] # NoRow
    OBVIOUS
  <2>1. CASE j = NextIntent
    BY <1>1, <1>2, <1>3, <2>1
  <2>2. CASE j # NextIntent
    <3>1. j < NextIntent + 1 <=> j < NextIntent
      BY <1>3, <2>2
    <3>2. intent'[j] # NoRow <=> intent[j] # NoRow
      BY <1>2, <2>2
    <3> QED
      BY <3>1, <3>2, NextIntentIsFree
  <2> QED
    BY <2>1, <2>2
<1>7. IntentsInARow'
  BY <1>5, <1>6 DEF IntentsInARow, Intents
<1> QED
  BY <1>2, <1>4, <1>7

\* A step that leaves the gateway alone keeps its payments in a row.
LEMMA IntentsUnchanged ==
    ASSUME TypeOK, IntentsInARow, UNCHANGED intent
    PROVE  /\ intent' \in [Intents -> Intent] /\ IntentsInARow'
           /\ \A i \in Intents : intent'[i] = intent[i]
BY DEF TypeOK, IntentsInARow, Intents

\* An intent that is there stays, with its order, and what was given back was
\* given back for good.
Kept(i) ==
    intent[i] # NoRow =>
        /\ intent'[i] # NoRow /\ intent'[i].order = intent[i].order
        /\ intent[i].status = "returned" => intent'[i].status = "returned"

\* What other handlers do to an order.
Elsewhere(o) == RefundOrderItem(o) \/ \E status \in OrderStatus : UpdateOrderStatus(o, status)

\* No step takes an intent away, gives it to another order, or undoes a refund.
LEMMA IntentsKept ==
    ASSUME TypeOK, IntentsInARow, [Next]_vars
    PROVE  intent' \in [Intents -> Intent] /\ IntentsInARow' /\ \A i \in Intents : Kept(i)
<1> DEFINE Goal == intent' \in [Intents -> Intent] /\ IntentsInARow' /\ \A i \in Intents : Kept(i)
<1>1. ASSUME UNCHANGED intent PROVE Goal
  BY <1>1, IntentsUnchanged DEF Kept
<1>2. ASSUME NEW i \in Intents, NEW s \in {"canceled", "charged", "returned"},
             intent[i].status \in {"open", "charged"}, intent[i].status = "charged" => s = "returned",
             intent' = [intent EXCEPT ![i].status = s]
      PROVE  Goal
  <2>1. intent[i] # NoRow
    BY <1>2, IntentTyped
  <2>2. /\ intent' \in [Intents -> Intent]
        /\ intent'[i] # NoRow /\ intent'[i].order = intent[i].order /\ intent'[i].status = s
        /\ \A j \in Intents : j # i => intent'[j] = intent[j]
    BY <1>2, <2>1, IntentMoves
  <2>3. \A j \in Intents : Kept(j)
    BY <1>2, <2>2 DEF Kept
  <2>4. \A j \in Intents : intent'[j] # NoRow <=> intent[j] # NoRow
    BY <2>1, <2>2
  <2>5. IntentsInARow'
    BY <2>4 DEF IntentsInARow, Intents
  <2> QED
    BY <2>2, <2>3, <2>5
<1>3. ASSUME NEW q \in Requests, NEW i \in Intents, CreateIntent(q, i) PROVE Goal
  <2>1. CASE UNCHANGED intent
    BY <1>1, <2>1
  <2>2. CASE i = NextIntent /\ intent' = [intent EXCEPT ![i] = NewIntent(request[q].o, TRUE)]
    <3>1. request[q].o \in Orders
      BY <1>3, RequestTyped DEF CreateIntent
    <3>2. intent \in [Intents -> Intent]
      BY DEF TypeOK
    <3>3. /\ intent' \in [Intents -> Intent] /\ IntentsInARow'
          /\ intent[NextIntent] = NoRow
          /\ \A j \in Intents : j # NextIntent => intent'[j] = intent[j]
      BY <2>2, <3>1, <3>2, IntentCreated
    <3> QED
      BY <3>3 DEF Kept
  <2> QED
    BY <1>3, <2>1, <2>2 DEF CreateIntent
<1>4. ASSUME NEW q \in Requests, RenewIntent(q) PROVE Goal
  <2> DEFINE old == request[q].intent
             table(S) == [i \in Intents |->
                 IF i \in S THEN [intent[i] EXCEPT !.status = "canceled"] ELSE intent[i]]
  <2>1. request[q].op = "retry" /\ old \in Intents \cup {None} /\ request[q].o \in Orders
    BY <1>4, RequestTyped DEF RenewIntent
  <2>2. PICK S \in {{}, {i \in {old} \ {None} : intent[i].status = "open"}} :
            \/ intent' = table(S)
            \/ /\ NextIntent \in Intents
               /\ intent' = [table(S) EXCEPT ![NextIntent] = NewIntent(request[q].o, FALSE)]
    BY <1>4 DEF RenewIntent
  <2>3. \A i \in S : i \in Intents /\ intent[i].status = "open"
    BY <2>1, <2>2
  <2> HIDE DEF table
  <2>4. \A i \in Intents :
           /\ i \in S => /\ table(S)[i] \in IntentRow /\ table(S)[i].order = intent[i].order
                         /\ intent[i] \in IntentRow /\ intent[i].status # "returned"
           /\ i \notin S => table(S)[i] = intent[i]
    <3> SUFFICES ASSUME NEW i \in Intents
                 PROVE  /\ i \in S => /\ table(S)[i] \in IntentRow /\ table(S)[i].order = intent[i].order
                                      /\ intent[i] \in IntentRow /\ intent[i].status # "returned"
                        /\ i \notin S => table(S)[i] = intent[i]
      OBVIOUS
    <3>1. CASE i \in S
      <4>1. table(S)[i] = [intent[i] EXCEPT !.status = "canceled"]
        BY <3>1 DEF table
      <4>2. intent[i] \in IntentRow /\ intent[i].status # "returned"
        BY <2>3, <3>1, IntentTyped
      <4>3. table(S)[i] \in IntentRow /\ table(S)[i].order = intent[i].order
        BY <4>1, <4>2 DEF IntentRow
      <4> QED
        BY <3>1, <4>2, <4>3
    <3>2. CASE i \notin S
      BY <3>2 DEF table
    <3> QED
      BY <3>1, <3>2
  <2>5. /\ \A i \in IntentRow : i \in Intent /\ i # NoRow
        /\ \A i \in Intents : intent[i] \in Intent
    BY DEF IntentRow, Intent, NoRow, TypeOK
  <2>6. \A i \in Intents : table(S)[i] \in Intent
    BY <2>4, <2>5
  <2>7. table(S) \in [Intents -> Intent]
    BY <2>6 DEF table
  <2>8. \A i \in Intents : table(S)[i] = NoRow <=> intent[i] = NoRow
    BY <2>4, <2>5
  <2>9. CASE intent' = table(S)
    <3>1. IntentsInARow'
      BY <2>8, <2>9 DEF IntentsInARow, Intents
    <3>2. \A i \in Intents : Kept(i)
      BY <2>4, <2>8, <2>9 DEF Kept
    <3> QED
      BY <2>7, <2>9, <3>1, <3>2
  <2>10. CASE /\ NextIntent \in Intents
              /\ intent' = [table(S) EXCEPT ![NextIntent] = NewIntent(request[q].o, FALSE)]
    <3>1. /\ intent' \in [Intents -> Intent] /\ IntentsInARow'
          /\ intent[NextIntent] = NoRow
          /\ \A j \in Intents : j # NextIntent => intent'[j] = table(S)[j]
      BY <2>1, <2>7, <2>8, <2>10, IntentCreated
    <3>2. \A i \in Intents : Kept(i)
      BY <2>4, <2>8, <3>1 DEF Kept
    <3> QED
      BY <3>1, <3>2
  <2> QED
    BY <2>2, <2>9, <2>10
<1>5. ASSUME NEW i \in Intents, CustomerPays(i) \/ DashboardRefund(i) PROVE Goal
  BY <1>2, <1>5 DEF CustomerPays, DashboardRefund
<1>6. ASSUME NEW q \in Requests, CallGateway(q) PROVE Goal
  <2>1. request[q].intent \in Intents
    BY <1>6, RequestTyped DEF CallGateway, ClaimOps, ClaimRequest
  <2> QED
    BY <1>1, <1>2, <1>6, <2>1 DEF CallGateway
<1>7. ASSUME NEW w \in Workers, NEW r \in Stuck, RetryRefund(w, r) PROVE Goal
  <2>1. r.intent \in Intents
    BY DEF Stuck
  <2> QED
    BY <1>1, <1>2, <1>7, <2>1 DEF RetryRefund, gatewayVars
<1>8. ASSUME NEW q \in Requests,
             \/ KeepIntent(q) \/ Settle(q) \/ ClaimOrder(q) \/ RecordRefund(q) \/ CompleteRefund(q)
             \/ RollBackClaim(q) \/ FailRefund(q) \/ Abort(q)
             \/ \E o \in Orders : \/ ReadToCreate(q, o) \/ ReadToRetry(q, o)
                                  \/ ReadToSettle(q, o) \/ ReadToRefund(q, o)
      PROVE  Goal
  BY <1>1, <1>8 DEF KeepIntent, Settle, ClaimOrder, RecordRefund, CompleteRefund, RollBackClaim,
       FailRefund, Abort, ReadToCreate, ReadToRetry, ReadToSettle, ReadToRefund, gatewayVars
<1>9. ASSUME \/ \E i \in Intents : ConfirmPayment(i) \/ PaymentFailed(i)
             \/ \E w \in Workers : SelectStuck(w) \/ WriteOutcome(w) \/ MarkExhausted(w) \/ Fail(w)
             \/ \E o \in Orders : GrowsLate(o) \/ Elsewhere(o)
             \/ UNCHANGED vars
      PROVE  Goal
  BY <1>1, <1>9 DEF ConfirmPayment, PaymentFailed, SelectStuck, WriteOutcome, MarkExhausted, Fail,
       GrowsLate, Elsewhere, UpdateOrderStatus, RefundOrderItem, gatewayVars, vars
<1> HIDE DEF Goal
<1>10. Goal
  BY <1>3, <1>4, <1>5, <1>6, <1>7, <1>8, <1>9 DEF Next, Serve, Work, Elsewhere
<1> QED
  BY <1>10 DEF Goal

\* RefundRequest rows.
RefundRow == [status : {"PROCESSING", "COMPLETED", "FAILED"}, count : 0..MaxCount, late : BOOLEAN]

\* A row that is there has the fields of one.
LEMMA RefundTyped ==
    ASSUME TypeOK, NEW o \in Orders
    PROVE  /\ refund[o] # NoRow => refund[o] \in RefundRow
           /\ refund[o] # NoRow <=> refund[o].status # "NONE"
BY DEF TypeOK, Refund, RefundRow, NoRow

\* What writing a row, or fields of one that is there, does.
LEMMA RefundWritten ==
    ASSUME TypeOK, NEW o \in Orders, NEW r \in RefundRow, refund' = [refund EXCEPT ![o] = r]
    PROVE  /\ refund' \in [Orders -> Refund] /\ refund'[o] = r /\ r # NoRow
           /\ \A p \in Orders : p # o => refund'[p] = refund[p]
BY DEF TypeOK, Refund, RefundRow, NoRow

\* Two ways to say that fields of a row are written.
LEMMA RefundFields ==
    ASSUME TypeOK, NEW o \in Orders, refund[o] # NoRow,
           NEW s \in {"COMPLETED", "FAILED"}, NEW c \in 0..MaxCount, NEW l \in BOOLEAN
    PROVE  /\ [refund EXCEPT ![o].status = s, ![o].late = l]
                = [refund EXCEPT ![o] = [status |-> s, count |-> refund[o].count, late |-> l]]
           /\ [refund EXCEPT ![o].late = l]
                = [refund EXCEPT ![o] = [status |-> refund[o].status, count |-> refund[o].count, late |-> l]]
           /\ [refund EXCEPT ![o].count = c, ![o].late = l]
                = [refund EXCEPT ![o] = [status |-> refund[o].status, count |-> c, late |-> l]]
           /\ [[refund EXCEPT ![o].count = c, ![o].late = l] EXCEPT ![o].status = s]
                = [refund EXCEPT ![o] = [status |-> s, count |-> c, late |-> l]]
<1>1. refund[o] \in RefundRow /\ refund \in [Orders -> Refund]
  BY RefundTyped DEF TypeOK
<1>2. /\ [[refund[o] EXCEPT !.status = s] EXCEPT !.late = l]
            = [status |-> s, count |-> refund[o].count, late |-> l]
      /\ [refund[o] EXCEPT !.late = l]
            = [status |-> refund[o].status, count |-> refund[o].count, late |-> l]
      /\ [[refund[o] EXCEPT !.count = c] EXCEPT !.late = l]
            = [status |-> refund[o].status, count |-> c, late |-> l]
      /\ [[[refund[o] EXCEPT !.count = c] EXCEPT !.late = l] EXCEPT !.status = s]
            = [status |-> s, count |-> c, late |-> l]
  <2>1. PICK r \in RefundRow : r = refund[o]
    BY <1>1
  <2>2. ASSUME NEW x \in RefundRow
        PROVE  /\ [x EXCEPT !.status = s] = [status |-> s, count |-> x.count, late |-> x.late]
               /\ [x EXCEPT !.late = l] = [status |-> x.status, count |-> x.count, late |-> l]
               /\ [x EXCEPT !.count = c] = [status |-> x.status, count |-> c, late |-> x.late]
    BY DEF RefundRow
  <2>3. /\ [status |-> s, count |-> r.count, late |-> r.late] \in RefundRow
        /\ [status |-> r.status, count |-> c, late |-> r.late] \in RefundRow
        /\ [status |-> r.status, count |-> c, late |-> l] \in RefundRow
    BY DEF RefundRow
  <2>4. [[r EXCEPT !.status = s] EXCEPT !.late = l] = [status |-> s, count |-> r.count, late |-> l]
    BY <2>2, <2>3
  <2>5. [[r EXCEPT !.count = c] EXCEPT !.late = l] = [status |-> r.status, count |-> c, late |-> l]
    BY <2>2, <2>3
  <2>6. [[[r EXCEPT !.count = c] EXCEPT !.late = l] EXCEPT !.status = s]
            = [status |-> s, count |-> c, late |-> l]
    BY <2>2, <2>3, <2>5
  <2> QED
    BY <2>1, <2>2, <2>4, <2>5, <2>6
<1>3. /\ [refund EXCEPT ![o].status = s, ![o].late = l]
            = [refund EXCEPT ![o] = [[refund[o] EXCEPT !.status = s] EXCEPT !.late = l]]
      /\ [refund EXCEPT ![o].late = l] = [refund EXCEPT ![o] = [refund[o] EXCEPT !.late = l]]
      /\ [refund EXCEPT ![o].count = c, ![o].late = l]
            = [refund EXCEPT ![o] = [[refund[o] EXCEPT !.count = c] EXCEPT !.late = l]]
      /\ [[refund EXCEPT ![o].count = c, ![o].late = l] EXCEPT ![o].status = s]
            = [refund EXCEPT ![o] =
                 [[[refund[o] EXCEPT !.count = c] EXCEPT !.late = l] EXCEPT !.status = s]]
  BY <1>1
<1> QED
  BY <1>2, <1>3

\* The rows that each write of a request or of the job leaves.
LEMMA RefundRecorded ==
    ASSUME TypeOK, NEW q \in Requests, RecordRefund(q)
    PROVE  LET o == request[q].o
           IN  /\ o \in Orders /\ refund' \in [Orders -> Refund]
               /\ refund'[o] # NoRow /\ refund'[o].status = "PROCESSING"
               /\ \A p \in Orders : p # o => refund'[p] = refund[p]
<1> DEFINE o == request[q].o
           count == IF refund[o] = NoRow THEN 0 ELSE refund[o].count + 1
           r == [status |-> "PROCESSING", count |-> count, late |-> FALSE]
<1>1. o \in Orders
  BY RequestTyped DEF RecordRefund, ClaimOps, ClaimRequest
<1>2. count <= MaxCount /\ refund' = [refund EXCEPT ![o] = r]
  BY DEF RecordRefund
<1>3. count \in Nat
  <2>1. CASE refund[o] = NoRow
    BY <2>1
  <2>2. CASE refund[o] # NoRow
    <3>1. refund[o].count \in 0..MaxCount
      BY <1>1, <2>2, RefundTyped DEF RefundRow
    <3> QED
      BY <2>2, <3>1, RetriesAssumption
  <2> QED
    BY <2>1, <2>2
<1> HIDE DEF count
<1>4. r \in RefundRow
  BY <1>2, <1>3, RetriesAssumption DEF RefundRow
<1>5. r.status = "PROCESSING"
  OBVIOUS
<1> HIDE DEF r, o
<1>6. /\ o \in Orders /\ refund' \in [Orders -> Refund] /\ refund'[o] # NoRow
      /\ refund'[o].status = "PROCESSING" /\ \A p \in Orders : p # o => refund'[p] = refund[p]
  BY <1>1, <1>2, <1>4, <1>5, RefundWritten
<1> QED
  BY <1>6 DEF o

\* A refund that is concluded keeps its count.
LEMMA RefundClosed ==
    ASSUME TypeOK, NEW o \in Orders, refund[o] # NoRow, NEW s \in {"COMPLETED", "FAILED"},
           refund' = [refund EXCEPT ![o].status = s, ![o].late = FALSE]
    PROVE  /\ refund' \in [Orders -> Refund] /\ refund'[o] # NoRow /\ refund'[o].status = s
           /\ \A p \in Orders : p # o => refund'[p] = refund[p]
<1> DEFINE r == [status |-> s, count |-> refund[o].count, late |-> FALSE]
<1>1. refund[o].count \in 0..MaxCount
  BY RefundTyped DEF RefundRow
<1>2. refund' = [refund EXCEPT ![o] = r]
  BY <1>1, RefundFields
<1>3. r \in RefundRow /\ r.status = s
  BY <1>1 DEF RefundRow
<1> HIDE DEF r
<1>4. /\ refund' \in [Orders -> Refund] /\ refund'[o] = r /\ r # NoRow
      /\ \A p \in Orders : p # o => refund'[p] = refund[p]
  BY <1>2, <1>3, RefundWritten, Zenon
<1> QED
  BY <1>3, <1>4, Zenon

\* A refund that grows late keeps its status.
LEMMA RefundAges ==
    ASSUME TypeOK, NEW o \in Orders, GrowsLate(o)
    PROVE  /\ refund' \in [Orders -> Refund] /\ refund[o] # NoRow
           /\ refund'[o] # NoRow /\ refund'[o].status = refund[o].status
           /\ \A p \in Orders : p # o => refund'[p] = refund[p]
<1> DEFINE r == [status |-> refund[o].status, count |-> refund[o].count, late |-> TRUE]
<1>1. refund[o] # NoRow
  BY DEF GrowsLate, NoRow
<1>2. refund[o] \in RefundRow
  BY <1>1, RefundTyped
<1>3. refund[o].count \in 0..MaxCount /\ refund' = [refund EXCEPT ![o].late = TRUE]
  BY <1>2 DEF RefundRow, GrowsLate
<1>4. refund' = [refund EXCEPT ![o] = r]
  BY <1>1, <1>3, RefundFields
<1>5. r \in RefundRow /\ r.status = refund[o].status
  BY <1>2 DEF RefundRow
<1> HIDE DEF r
<1> QED
  BY <1>1, <1>4, <1>5, RefundWritten

\* The runs of the job.
WorkingRun == [op : {"made", "refused"}, todo : SUBSET Stuck, at : Stuck]
BatchRun == [op : {"batch"}, todo : SUBSET Stuck]

\* A run of the retry job has the fields of its step.
LEMMA WorkerTyped ==
    ASSUME TypeOK, NEW w \in Workers
    PROVE  /\ worker[w].op = "batch" => worker[w] \in BatchRun
           /\ worker[w].op \in {"made", "refused"} => worker[w] \in WorkingRun
           /\ worker[w].op \in {"idle", "batch", "made", "refused"}
           /\ worker[w].op = "idle" <=> worker[w] = Idle
BY DEF TypeOK, Worker, Idle, BatchRun, WorkingRun

LEMMA WorkerSet ==
    ASSUME TypeOK, NEW w \in Workers, NEW r, SetWorker(w, r)
    PROVE  /\ worker'[w] = r
           /\ \A v \in Workers : v # w => worker'[v] = worker[v]
           /\ r \in Worker => worker' \in [Workers -> Worker]
BY DEF TypeOK, SetWorker

LEMMA WorkersTyped == Idle \in Worker /\ BatchRun \subseteq Worker /\ WorkingRun \subseteq Worker
BY DEF Worker, Idle, BatchRun, WorkingRun

\* A run that writes an outcome writes the row it is at.
LEMMA OutcomeWritten ==
    ASSUME TypeOK, PickedRows, NEW w \in Workers, WriteOutcome(w)
    PROVE  LET o == worker[w].at.o
           IN  /\ o \in Orders /\ refund' \in [Orders -> Refund]
               /\ refund[o] # NoRow /\ refund'[o] # NoRow
               /\ \/ refund'[o].status = refund[o].status
                  \/ worker[w].op = "made" /\ refund'[o].status = "COMPLETED"
               /\ \A p \in Orders : p # o => refund'[p] = refund[p]
               /\ SetWorker(w, [op |-> "batch", todo |-> worker[w].todo])
<1> DEFINE at == worker[w].at
           o == at.o
           c == at.count + 1
<1>1. worker[w] \in WorkingRun
  BY WorkerTyped DEF WriteOutcome
<1>2. at \in Stuck /\ at \in Rows(w)
  BY <1>1 DEF WorkingRun, Rows, Idle
<1>3. o \in Orders /\ refund[o] # NoRow /\ at.count \in 0..MaxCount /\ at.count < MaxRetries
  BY <1>2 DEF PickedRows, Picked, Stuck
<1>4. c \in 0..MaxCount
  BY <1>3, RetriesAssumption
<1>5. refund[o] \in RefundRow
  BY <1>3, RefundTyped
<1>6. \/ /\ worker[w].op = "made"
         /\ refund' = [[refund EXCEPT ![o].count = c, ![o].late = FALSE] EXCEPT ![o].status = "COMPLETED"]
      \/ refund' = [refund EXCEPT ![o].count = c, ![o].late = FALSE]
  BY DEF WriteOutcome
<1> HIDE DEF o, c
<1>7. \/ /\ worker[w].op = "made"
         /\ refund' = [refund EXCEPT ![o] = [status |-> "COMPLETED", count |-> c, late |-> FALSE]]
      \/ refund' = [refund EXCEPT ![o] = [status |-> refund[o].status, count |-> c, late |-> FALSE]]
  <2>1. /\ [refund EXCEPT ![o].count = c, ![o].late = FALSE]
             = [refund EXCEPT ![o] = [status |-> refund[o].status, count |-> c, late |-> FALSE]]
        /\ [[refund EXCEPT ![o].count = c, ![o].late = FALSE] EXCEPT ![o].status = "COMPLETED"]
             = [refund EXCEPT ![o] = [status |-> "COMPLETED", count |-> c, late |-> FALSE]]
    BY <1>3, <1>4, RefundFields
  <2> QED
    BY <1>6, <2>1, Zenon
<1>8. /\ [status |-> "COMPLETED", count |-> c, late |-> FALSE] \in RefundRow
      /\ [status |-> refund[o].status, count |-> c, late |-> FALSE] \in RefundRow
  BY <1>4, <1>5 DEF RefundRow
<1>9. /\ refund' \in [Orders -> Refund] /\ refund'[o] # NoRow
      /\ \/ refund'[o].status = refund[o].status
         \/ worker[w].op = "made" /\ refund'[o].status = "COMPLETED"
      /\ \A p \in Orders : p # o => refund'[p] = refund[p]
  <2>1. CASE /\ worker[w].op = "made"
             /\ refund' = [refund EXCEPT ![o] = [status |-> "COMPLETED", count |-> c, late |-> FALSE]]
    BY <1>3, <1>8, <2>1, RefundWritten
  <2>2. CASE refund' = [refund EXCEPT ![o] = [status |-> refund[o].status, count |-> c, late |-> FALSE]]
    BY <1>3, <1>8, <2>2, RefundWritten
  <2> QED
    BY <1>7, <2>1, <2>2
<1>10. SetWorker(w, [op |-> "batch", todo |-> worker[w].todo])
  BY DEF WriteOutcome
<1> QED
  BY <1>3, <1>9, <1>10 DEF o

\* The end of a batch only fails refunds that were being processed.
LEMMA ExhaustedMarked ==
    ASSUME TypeOK, NEW w \in Workers, MarkExhausted(w)
    PROVE  /\ refund' \in [Orders -> Refund]
           /\ \A o \in Orders :
                 \/ refund'[o] = refund[o]
                 \/ refund[o] # NoRow /\ refund'[o] # NoRow
                       /\ refund[o].status = "PROCESSING" /\ refund'[o].status = "FAILED"
<1> DEFINE failed(o) == [[refund[o] EXCEPT !.status = "FAILED"] EXCEPT !.late = FALSE]
<1>1. refund' = [o \in Orders |->
           IF refund[o].status = "PROCESSING" /\ refund[o].count >= MaxRetries
           THEN failed(o) ELSE refund[o]]
  BY DEF MarkExhausted
<1>2. ASSUME NEW o \in Orders, refund[o].status = "PROCESSING"
      PROVE  refund[o] # NoRow /\ failed(o) \in RefundRow /\ failed(o).status = "FAILED"
  <2>1. PICK r \in RefundRow : r = refund[o]
    BY <1>2, RefundTyped DEF NoRow
  <2>2. [r EXCEPT !.status = "FAILED"] \in RefundRow
    BY DEF RefundRow
  <2>3. ASSUME NEW x \in RefundRow
        PROVE  [x EXCEPT !.late = FALSE] \in RefundRow /\ [x EXCEPT !.late = FALSE].status = x.status
    BY DEF RefundRow
  <2>4. [r EXCEPT !.status = "FAILED"].status = "FAILED"
    BY DEF RefundRow
  <2>5. failed(o) = [[r EXCEPT !.status = "FAILED"] EXCEPT !.late = FALSE]
    BY <2>1
  <2>6. failed(o) \in RefundRow /\ failed(o).status = "FAILED"
    BY <2>2, <2>3, <2>4, <2>5
  <2> QED
    BY <1>2, <2>6 DEF NoRow
<1> HIDE DEF failed
<1>3. RefundRow \subseteq Refund /\ NoRow \notin RefundRow /\ \A o \in Orders : refund[o] \in Refund
  BY DEF Refund, RefundRow, NoRow, TypeOK
<1>4. \A o \in Orders :
         \/ refund'[o] = refund[o]
         \/ refund[o] # NoRow /\ refund'[o] \in RefundRow
               /\ refund[o].status = "PROCESSING" /\ refund'[o].status = "FAILED"
  BY <1>1, <1>2
<1>5. refund' \in [Orders -> Refund]
  <2>1. \A o \in Orders : refund'[o] \in Refund
    BY <1>3, <1>4
  <2> QED
    BY <1>1, <2>1
<1> QED
  BY <1>3, <1>4, <1>5

\* A row that is there stays.
LEMMA RefundsKept ==
    ASSUME TypeOK, PickedRows, RequestsFit, [Next]_vars
    PROVE  /\ refund' \in [Orders -> Refund]
           /\ \A o \in Orders : refund[o] # NoRow => refund'[o] # NoRow
<1> DEFINE Goal == /\ refund' \in [Orders -> Refund]
                   /\ \A o \in Orders : refund[o] # NoRow => refund'[o] # NoRow
<1>1. ASSUME UNCHANGED refund PROVE Goal
  BY <1>1 DEF TypeOK
<1>2. ASSUME NEW q \in Requests, RecordRefund(q) PROVE Goal
  BY <1>2, RefundRecorded
<1>3. ASSUME NEW q \in Requests, CompleteRefund(q) \/ FailRefund(q) PROVE Goal
  <2>1. request[q].op \in {"complete", "fail"} /\ request[q].o \in Orders
    BY <1>3, RequestTyped DEF CompleteRefund, FailRefund, ClaimOps, ClaimRequest
  <2>2. refund[request[q].o] # NoRow
    BY <2>1 DEF RequestsFit, Fits
  <2>3. \/ UNCHANGED refund
        \/ \E s \in {"COMPLETED", "FAILED"} :
              refund' = [refund EXCEPT ![request[q].o].status = s, ![request[q].o].late = FALSE]
    BY <1>3 DEF CompleteRefund, FailRefund
  <2> QED
    BY <1>1, <2>1, <2>2, <2>3, RefundClosed
<1>4. ASSUME NEW w \in Workers, WriteOutcome(w) PROVE Goal
  BY <1>4, OutcomeWritten
<1>5. ASSUME NEW w \in Workers, MarkExhausted(w) PROVE Goal
  BY <1>5, ExhaustedMarked
<1>6. ASSUME NEW o \in Orders, GrowsLate(o) PROVE Goal
  BY <1>6, RefundAges
<1>7. ASSUME NEW q \in Requests,
             \/ \E i \in Intents : CreateIntent(q, i)
             \/ RenewIntent(q) \/ KeepIntent(q) \/ Settle(q) \/ ClaimOrder(q) \/ CallGateway(q)
             \/ RollBackClaim(q) \/ Abort(q)
             \/ \E o \in Orders : \/ ReadToCreate(q, o) \/ ReadToRetry(q, o)
                                  \/ ReadToSettle(q, o) \/ ReadToRefund(q, o)
      PROVE  Goal
  BY <1>1, <1>7 DEF CreateIntent, RenewIntent, KeepIntent, Settle, ClaimOrder, CallGateway,
       RollBackClaim, Abort, ReadToCreate, ReadToRetry, ReadToSettle, ReadToRefund
<1>8. ASSUME \/ \E i \in Intents : \/ CustomerPays(i) \/ DashboardRefund(i)
                                   \/ ConfirmPayment(i) \/ PaymentFailed(i)
             \/ \E w \in Workers : SelectStuck(w) \/ Fail(w)
             \/ \E w \in Workers, r \in Stuck : RetryRefund(w, r)
             \/ \E o \in Orders : Elsewhere(o)
             \/ UNCHANGED vars
      PROVE  Goal
  BY <1>1, <1>8 DEF CustomerPays, DashboardRefund, ConfirmPayment, PaymentFailed, SelectStuck,
       Fail, RetryRefund, Elsewhere, UpdateOrderStatus, RefundOrderItem, vars
<1> HIDE DEF Goal
<1>9. Goal
  BY <1>2, <1>3, <1>4, <1>5, <1>6, <1>7, <1>8 DEF Next, Serve, Work, Elsewhere
<1> QED
  BY <1>9 DEF Goal

\* Orders.
Writes(o, payment, status, i) ==
    /\ order' \in [Orders -> Order]
    /\ order'[o].payment = payment /\ order'[o].status = status /\ order'[o].intent = i
    /\ \A p \in Orders : p # o => order'[p] = order[p]

\* Fields of an order.
LEMMA OrderTyped ==
    ASSUME TypeOK, NEW o \in Orders
    PROVE  /\ order[o] \in Order
           /\ order[o].payment \in PaymentStatus /\ order[o].status \in OrderStatus
           /\ order[o].intent \in Intents \cup {None}
BY DEF TypeOK, Order

\* An order written field by field.
LEMMA RowWritten ==
    ASSUME TypeOK, NEW o \in Orders, NEW payment \in PaymentStatus, NEW status \in OrderStatus
    PROVE  /\ SetOrder(o, [order[o] EXCEPT !.payment = payment, !.status = status])
                => Writes(o, payment, status, order[o].intent)
           /\ SetOrder(o, [order[o] EXCEPT !.payment = payment])
                => Writes(o, payment, order[o].status, order[o].intent)
           /\ SetOrder(o, [order[o] EXCEPT !.status = status])
                => Writes(o, order[o].payment, status, order[o].intent)
           /\ \A i \in Intents :
                 SetOrder(o, [order[o] EXCEPT !.intent = i])
                    => Writes(o, order[o].payment, order[o].status, i)
<1>1. PICK r \in Order : r = order[o]
  BY OrderTyped
<1>2. ASSUME NEW x \in Order
      PROVE  /\ LET y == [x EXCEPT !.payment = payment]
                IN  y \in Order /\ y.payment = payment /\ y.status = x.status /\ y.intent = x.intent
             /\ LET y == [x EXCEPT !.status = status]
                IN  y \in Order /\ y.payment = x.payment /\ y.status = status /\ y.intent = x.intent
             /\ \A i \in Intents :
                   LET y == [x EXCEPT !.intent = i]
                   IN  y \in Order /\ y.payment = x.payment /\ y.status = x.status /\ y.intent = i
  BY DEF Order
<1>3. LET y == [[r EXCEPT !.payment = payment] EXCEPT !.status = status]
      IN  y \in Order /\ y.payment = payment /\ y.status = status /\ y.intent = r.intent
  <2>1. PICK x \in Order :
            /\ x = [r EXCEPT !.payment = payment] /\ x.payment = payment /\ x.intent = r.intent
    BY <1>2
  <2> QED
    BY <1>2, <2>1
<1>4. ASSUME NEW y, y \in Order, SetOrder(o, y)
      PROVE  Writes(o, y.payment, y.status, y.intent)
  BY <1>4, OrderSet DEF Writes
<1>5. ASSUME SetOrder(o, [order[o] EXCEPT !.payment = payment, !.status = status])
      PROVE  Writes(o, payment, status, order[o].intent)
  BY <1>1, <1>3, <1>4, <1>5
<1>6. ASSUME SetOrder(o, [order[o] EXCEPT !.payment = payment])
      PROVE  Writes(o, payment, order[o].status, order[o].intent)
  BY <1>1, <1>2, <1>4, <1>6
<1>7. ASSUME SetOrder(o, [order[o] EXCEPT !.status = status])
      PROVE  Writes(o, order[o].payment, status, order[o].intent)
  BY <1>1, <1>2, <1>4, <1>7
<1>8. ASSUME NEW i \in Intents, SetOrder(o, [order[o] EXCEPT !.intent = i])
      PROVE  Writes(o, order[o].payment, order[o].status, i)
  BY <1>1, <1>2, <1>4, <1>8
<1> QED
  BY <1>5, <1>6, <1>7, <1>8, Zenon

\* What each handler writes into its order's row.
LEMMA EventWrites ==
    ASSUME TypeOK, NEW i \in Intents
    PROVE  LET o == intent[i].order
           IN  /\ ConfirmPayment(i) => o \in Orders /\ Writes(o, "PAID", "CONFIRMED", order[o].intent)
               /\ PaymentFailed(i) =>
                     o \in Orders /\ Writes(o, "UNPAID", order[o].status, order[o].intent)
<1>1. ASSUME intent[i] # NoRow PROVE intent[i].order \in Orders
  BY <1>1, IntentTyped DEF IntentRow
<1>2. /\ ConfirmPayment(i) => intent[i] # NoRow
      /\ PaymentFailed(i) => intent[i] # NoRow
  BY IntentTyped DEF ConfirmPayment, PaymentFailed
<1>3. "PAID" \in PaymentStatus /\ "UNPAID" \in PaymentStatus /\ "CONFIRMED" \in OrderStatus
  BY DEF PaymentStatus, OrderStatus
<1> QED
  BY <1>1, <1>2, <1>3, RowWritten DEF ConfirmPayment, PaymentFailed

\* What the steps of a request write to the order.
LEMMA RequestWrites ==
    ASSUME TypeOK, NEW q \in Requests
    PROVE  LET o == request[q].o
           IN  /\ KeepIntent(q) =>
                     /\ o \in Orders /\ request[q].intent \in Intents
                     /\ Writes(o, order[o].payment, order[o].status, request[q].intent)
               /\ Settle(q) =>
                     /\ o \in Orders
                     /\ UNCHANGED order \/ Writes(o, "REFUNDED", "REFUNDED", order[o].intent)
               /\ ClaimOrder(q) =>
                     /\ o \in Orders
                     /\ \/ UNCHANGED order /\ Reply(q)
                        \/ /\ order[o].status \in Refundable /\ order[o].payment = "PAID"
                           /\ Goto(q, "record")
                           /\ Writes(o, order[o].payment, "CANCELLING", order[o].intent)
               /\ RollBackClaim(q) =>
                     /\ o \in Orders
                     /\ \/ UNCHANGED order /\ Goto(q, "fail")
                        \/ /\ order[o].status = "CANCELLING"
                           /\ Writes(o, order[o].payment, request[q].prior, order[o].intent)
                           /\ request' = [Overwritten(o) EXCEPT ![q] = [request[q] EXCEPT !.op = "fail"]]
<1>1. /\ "REFUNDED" \in PaymentStatus /\ "REFUNDED" \in OrderStatus /\ "CANCELLING" \in OrderStatus
      /\ Refundable \subseteq OrderStatus
  BY DEF PaymentStatus, OrderStatus, Refundable
<1>2. /\ request[q].op \in {"keep", "settle"} \cup ClaimOps => request[q].o \in Orders
      /\ request[q].op = "keep" => request[q].intent \in Intents
      /\ request[q].op \in ClaimOps => request[q].prior \in Refundable
                                         /\ request[q].intent \in Intents
  BY RequestTyped DEF ClaimRequest
<1> DEFINE o == request[q].o
<1>3. ASSUME KeepIntent(q)
      PROVE  /\ o \in Orders /\ request[q].intent \in Intents
             /\ Writes(o, order[o].payment, order[o].status, request[q].intent)
  <2>1. o \in Orders /\ request[q].intent \in Intents
    BY <1>2, <1>3 DEF KeepIntent
  <2>2. SetOrder(o, [order[o] EXCEPT !.intent = request[q].intent])
    BY <1>3 DEF KeepIntent
  <2>3. order[o].payment \in PaymentStatus /\ order[o].status \in OrderStatus
    BY <2>1, OrderTyped
  <2> HIDE DEF o
  <2> QED
    BY <2>1, <2>2, <2>3, RowWritten
<1>4. ASSUME Settle(q)
      PROVE  /\ o \in Orders
             /\ UNCHANGED order \/ Writes(o, "REFUNDED", "REFUNDED", order[o].intent)
  <2>1. o \in Orders
    BY <1>2, <1>4 DEF Settle
  <2>2. \/ UNCHANGED order
        \/ SetOrder(o, [order[o] EXCEPT !.payment = "REFUNDED", !.status = "REFUNDED"])
    BY <1>4 DEF Settle
  <2> HIDE DEF o
  <2>4. CASE SetOrder(o, [order[o] EXCEPT !.payment = "REFUNDED", !.status = "REFUNDED"])
    <3>1. SetOrder(o, [order[o] EXCEPT !.payment = "REFUNDED", !.status = "REFUNDED"])
             => Writes(o, "REFUNDED", "REFUNDED", order[o].intent)
      BY <1>1, <2>1, RowWritten
    <3> QED
      BY <2>1, <2>4, <3>1
  <2> QED
    BY <2>1, <2>2, <2>4
<1>5. ASSUME ClaimOrder(q)
      PROVE  /\ o \in Orders
             /\ \/ UNCHANGED order /\ Reply(q)
                \/ /\ order[o].status \in Refundable /\ order[o].payment = "PAID"
                   /\ Goto(q, "record")
                   /\ Writes(o, order[o].payment, "CANCELLING", order[o].intent)
  <2>1. o \in Orders /\ request[q].prior \in Refundable
    BY <1>2, <1>5 DEF ClaimOrder, ClaimOps
  <2>2. \/ UNCHANGED order /\ Reply(q)
        \/ /\ order[o].status = request[q].prior /\ order[o].payment = "PAID"
           /\ Goto(q, "record")
           /\ SetOrder(o, [order[o] EXCEPT !.status = "CANCELLING"])
    BY <1>5 DEF ClaimOrder
  <2> HIDE DEF o
  <2>3. SetOrder(o, [order[o] EXCEPT !.status = "CANCELLING"])
           => Writes(o, order[o].payment, "CANCELLING", order[o].intent)
    BY <1>1, <2>1, OrderTyped, RowWritten
  <2> QED
    BY <2>1, <2>2, <2>3
<1>6. ASSUME RollBackClaim(q)
      PROVE  /\ o \in Orders
             /\ \/ UNCHANGED order /\ Goto(q, "fail")
                \/ /\ order[o].status = "CANCELLING"
                   /\ Writes(o, order[o].payment, request[q].prior, order[o].intent)
                   /\ request' = [Overwritten(o) EXCEPT ![q] = [request[q] EXCEPT !.op = "fail"]]
  <2>1. o \in Orders /\ request[q].prior \in OrderStatus
    BY <1>1, <1>2, <1>6 DEF RollBackClaim, ClaimOps
  <2>2. \/ UNCHANGED order /\ Goto(q, "fail")
        \/ /\ order[o].status = "CANCELLING"
           /\ SetOrder(o, [order[o] EXCEPT !.status = request[q].prior])
           /\ request' = [Overwritten(o) EXCEPT ![q] = [request[q] EXCEPT !.op = "fail"]]
    BY <1>6 DEF RollBackClaim
  <2> HIDE DEF o
  <2>3. SetOrder(o, [order[o] EXCEPT !.status = request[q].prior])
           => Writes(o, order[o].payment, request[q].prior, order[o].intent)
    BY <2>1, OrderTyped, RowWritten
  <2> QED
    BY <2>1, <2>2, <2>3
<1> QED
  BY <1>3, <1>4, <1>5, <1>6

\* What other handlers write to the order.
LEMMA ElsewhereWrites ==
    ASSUME TypeOK, NEW o \in Orders
    PROVE  /\ \A status \in OrderStatus :
                 UpdateOrderStatus(o, status) => Writes(o, order[o].payment, status, order[o].intent)
           /\ RefundOrderItem(o) => \E payment \in {order[o].payment, "PARTIALLY_REFUNDED", "REFUNDED"} :
                 Writes(o, payment, order[o].status, order[o].intent)
<1>1. \A status \in OrderStatus :
         UpdateOrderStatus(o, status) => Writes(o, order[o].payment, status, order[o].intent)
  BY OrderTyped, RowWritten DEF UpdateOrderStatus
<1>2. ASSUME RefundOrderItem(o)
      PROVE  \E payment \in {order[o].payment, "PARTIALLY_REFUNDED", "REFUNDED"} :
                Writes(o, payment, order[o].status, order[o].intent)
  <2>1. PICK payment \in {order[o].payment, "PARTIALLY_REFUNDED", "REFUNDED"} :
            SetOrder(o, [order[o] EXCEPT !.payment = payment])
    BY <1>2 DEF RefundOrderItem
  <2>2. payment \in PaymentStatus /\ order[o].status \in OrderStatus
    BY OrderTyped DEF PaymentStatus
  <2> QED
    BY <2>1, <2>2, RowWritten
<1> QED
  BY <1>1, <1>2

\* The intent of an order that has one is replaced, never removed.
LEMMA OrdersKept ==
    ASSUME TypeOK, [Next]_vars
    PROVE  /\ order' \in [Orders -> Order]
           /\ \A o \in Orders : order[o].intent # None => order'[o].intent # None
<1> DEFINE Goal == /\ order' \in [Orders -> Order]
                   /\ \A o \in Orders : order[o].intent # None => order'[o].intent # None
<1>1. ASSUME UNCHANGED order PROVE Goal
  BY <1>1 DEF TypeOK
<1>2. ASSUME NEW o \in Orders, NEW payment, NEW status, Writes(o, payment, status, order[o].intent)
      PROVE  Goal
  BY <1>2 DEF Writes
<1>3. ASSUME NEW i \in Intents, ConfirmPayment(i) \/ PaymentFailed(i) PROVE Goal
  BY <1>2, <1>3, EventWrites
<1>4. ASSUME NEW q \in Requests, Settle(q) \/ ClaimOrder(q) \/ RollBackClaim(q) PROVE Goal
  BY <1>1, <1>2, <1>4, RequestWrites
<1>5. ASSUME NEW q \in Requests, KeepIntent(q) PROVE Goal
  <2>1. request[q].intent # None
    BY <1>5, RequestWrites, RetriesAssumption DEF Intents, None
  <2> QED
    BY <1>5, <2>1, RequestWrites DEF Writes
<1>6. ASSUME NEW q \in Requests,
             \/ \E i \in Intents : CreateIntent(q, i)
             \/ RenewIntent(q) \/ RecordRefund(q) \/ CallGateway(q) \/ CompleteRefund(q)
             \/ FailRefund(q) \/ Abort(q)
             \/ \E o \in Orders : \/ ReadToCreate(q, o) \/ ReadToRetry(q, o)
                                  \/ ReadToSettle(q, o) \/ ReadToRefund(q, o)
      PROVE  Goal
  BY <1>1, <1>6 DEF CreateIntent, RenewIntent, RecordRefund, CallGateway, CompleteRefund,
       FailRefund, Abort, ReadToCreate, ReadToRetry, ReadToSettle, ReadToRefund
<1>7. ASSUME \/ \E i \in Intents : CustomerPays(i) \/ DashboardRefund(i)
             \/ \E w \in Workers : SelectStuck(w) \/ WriteOutcome(w) \/ MarkExhausted(w) \/ Fail(w)
             \/ \E w \in Workers, r \in Stuck : RetryRefund(w, r)
             \/ \E o \in Orders : GrowsLate(o)
             \/ UNCHANGED vars
      PROVE  Goal
  BY <1>1, <1>7 DEF CustomerPays, DashboardRefund, SelectStuck, WriteOutcome, MarkExhausted, Fail,
       RetryRefund, GrowsLate, vars
<1>8. ASSUME NEW o \in Orders, Elsewhere(o) PROVE Goal
  BY <1>2, <1>8, ElsewhereWrites DEF Elsewhere
<1> HIDE DEF Goal
<1>9. Goal
  BY <1>3, <1>4, <1>5, <1>6, <1>7, <1>8 DEF Next, Serve, Work, Elsewhere
<1> QED
  BY <1>9 DEF Goal

\* A row that was picked stays one, and a run has before it rows it had or rows
\* that are stuck now.
LEMMA PickedStays ==
    ASSUME \A i \in Intents : Kept(i), \A o \in Orders : refund[o] # NoRow => refund'[o] # NoRow,
           NEW r, Picked(r)
    PROVE  Picked(r)'
<1>1. IntentOf(r.intent, r.o)'
  BY DEF Picked, IntentOf, Kept, Intents
<1> QED
  BY <1>1 DEF Picked, Stuck, Intents

\* What a run of the job has picked stays fit to be retried, whatever others do.
LEMMA RunsKept ==
    ASSUME TypeOK, PickedRows, RefundsFollowIntents, IntentsBelong, [Next]_vars,
           \A i \in Intents : Kept(i), \A o \in Orders : refund[o] # NoRow => refund'[o] # NoRow
    PROVE  worker' \in [Workers -> Worker] /\ PickedRows'
<1> DEFINE Goal == worker' \in [Workers -> Worker] /\ PickedRows'
<1>1. ASSUME UNCHANGED worker PROVE Goal
  <2>1. \A w \in Workers : Rows(w)' = Rows(w)
    BY <1>1 DEF Rows
  <2> QED
    BY <1>1, <2>1, PickedStays DEF PickedRows, TypeOK
<1>2. ASSUME NEW w \in Workers, NEW r \in Worker, SetWorker(w, r),
             \A x \in Rows(w)' : Picked(x)
      PROVE  Goal
  <2>1. worker' \in [Workers -> Worker] /\ \A v \in Workers : v # w => worker'[v] = worker[v]
    BY <1>2, WorkerSet
  <2>2. \A v \in Workers : v # w => Rows(v)' = Rows(v)
    BY <2>1 DEF Rows
  <2>3. \A v \in Workers : \A x \in Rows(v)' : Picked(x)
    BY <1>2, <2>2 DEF PickedRows
  <2> QED
    BY <2>1, <2>3, PickedStays DEF PickedRows
<1>3. ASSUME NEW w \in Workers, SetWorker(w, Idle) PROVE Goal
  <2>1. worker'[w] = Idle
    BY <1>3, WorkerSet
  <2>2. Rows(w)' = {}
    BY <2>1 DEF Rows
  <2> QED
    BY <1>2, <1>3, <2>2, WorkersTyped
<1>4. ASSUME NEW w \in Workers, SelectStuck(w) PROVE Goal
  <2> DEFINE stuck == {o \in Orders : IsStuck(o)}
             row(o) == [o |-> o, count |-> refund[o].count, intent |-> order[o].intent]
             todo == {row(o) : o \in stuck}
  <2>1. SetWorker(w, [op |-> "batch", todo |-> todo])
    BY <1>4 DEF SelectStuck
  <2>2. ASSUME NEW o \in stuck PROVE Picked(row(o))
    <3>1. refund[o] # NoRow /\ refund[o].count < MaxRetries
      BY DEF IsStuck, NoRow
    <3>2. refund[o].count \in 0..MaxCount
      BY <3>1, RefundTyped DEF RefundRow
    <3>3. IntentOf(order[o].intent, o)
      BY <3>1 DEF RefundsFollowIntents, IntentsBelong
    <3> QED
      BY <3>1, <3>2, <3>3 DEF Picked, Stuck, IntentOf
  <2> HIDE DEF row
  <2>3. \A x \in todo : Picked(x)
    BY <2>2
  <2>4. todo \in SUBSET Stuck
    BY <2>3 DEF Picked
  <2> HIDE DEF todo
  <2>5. [op |-> "batch", todo |-> todo] \in Worker /\ worker'[w] = [op |-> "batch", todo |-> todo]
    BY <2>1, <2>4, WorkerSet DEF Worker
  <2>6. Rows(w)' = todo
    BY <2>5 DEF Rows, Idle
  <2> QED
    BY <1>2, <2>1, <2>3, <2>5, <2>6
<1>5. ASSUME NEW w \in Workers, worker[w] \in WorkingRun,
             SetWorker(w, [op |-> "batch", todo |-> worker[w].todo])
      PROVE  Goal
  <2>1. worker[w].todo \in SUBSET Stuck /\ worker[w].todo \subseteq Rows(w)
    BY <1>5 DEF WorkingRun, Rows, Idle
  <2>2. /\ [op |-> "batch", todo |-> worker[w].todo] \in Worker
        /\ worker'[w] = [op |-> "batch", todo |-> worker[w].todo]
    BY <1>5, <2>1, WorkerSet DEF Worker
  <2>3. Rows(w)' = worker[w].todo
    BY <2>2 DEF Rows, Idle
  <2> QED
    BY <1>2, <1>5, <2>1, <2>2, <2>3 DEF PickedRows
<1>6. ASSUME NEW w \in Workers, NEW r \in Stuck, RetryRefund(w, r) PROVE Goal
  <2> DEFINE todo == worker[w].todo \ {r}
  <2>1. worker[w] \in BatchRun /\ r \in worker[w].todo
    BY <1>6, WorkerTyped DEF RetryRefund
  <2>2. worker[w].todo \in SUBSET Stuck /\ worker[w].todo = Rows(w)
    BY <2>1 DEF BatchRun, Rows, Idle
  <2>3. PICK op \in {"made", "refused"} : SetWorker(w, [op |-> op, todo |-> todo, at |-> r])
    BY <1>6 DEF RetryRefund
  <2>4. todo \in SUBSET Stuck /\ todo \cup {r} \subseteq Rows(w)
    BY <2>1, <2>2
  <2> HIDE DEF todo
  <2>5. /\ [op |-> op, todo |-> todo, at |-> r] \in Worker
        /\ worker'[w] = [op |-> op, todo |-> todo, at |-> r]
    BY <2>3, <2>4, WorkerSet DEF Worker
  <2>6. Rows(w)' = todo \cup {r}
    BY <2>5 DEF Rows, Idle
  <2> QED
    BY <1>2, <2>3, <2>4, <2>5, <2>6 DEF PickedRows
<1>7. ASSUME NEW w \in Workers, WriteOutcome(w) PROVE Goal
  BY <1>5, <1>7, WorkerTyped, OutcomeWritten DEF WriteOutcome
<1>8. ASSUME NEW w \in Workers, Fail(w) PROVE Goal
  BY <1>3, <1>5, <1>8, WorkerTyped, IdleTyped DEF Fail
<1>9. ASSUME NEW w \in Workers, MarkExhausted(w) PROVE Goal
  BY <1>3, <1>9 DEF MarkExhausted
<1>10. ASSUME NEW q \in Requests,
              \/ Serve(q)
              \/ \E o \in Orders : \/ ReadToCreate(q, o) \/ ReadToRetry(q, o)
                                   \/ ReadToSettle(q, o) \/ ReadToRefund(q, o)
       PROVE  Goal
  BY <1>1, <1>10 DEF Serve, CreateIntent, RenewIntent, KeepIntent, Settle, ClaimOrder, RecordRefund,
       CallGateway, CompleteRefund, RollBackClaim, FailRefund, Abort, ReadToCreate, ReadToRetry,
       ReadToSettle, ReadToRefund
<1>11. ASSUME \/ \E i \in Intents : \/ CustomerPays(i) \/ DashboardRefund(i)
                                    \/ ConfirmPayment(i) \/ PaymentFailed(i)
              \/ \E o \in Orders : GrowsLate(o) \/ Elsewhere(o)
              \/ UNCHANGED vars
       PROVE  Goal
  BY <1>1, <1>11 DEF CustomerPays, DashboardRefund, ConfirmPayment, PaymentFailed, GrowsLate,
       Elsewhere, UpdateOrderStatus, RefundOrderItem, vars
<1> HIDE DEF Goal
<1>12. Goal
  BY <1>4, <1>6, <1>7, <1>8, <1>9, <1>10, <1>11 DEF Next, Work, Elsewhere
<1> QED
  BY <1>12 DEF Goal

\* What a request carries stays true.
LEMMA FitsStays ==
    ASSUME TypeOK, NEW r \in Request, Fits(r),
           \A i \in Intents : Kept(i), \A o \in Orders : refund[o] # NoRow => refund'[o] # NoRow,
           \A o \in Orders : order[o].intent # None => order'[o].intent # None
    PROVE  Fits(r)'
<1>1. /\ r.op \in {"keep"} \cup ClaimOps => r.o \in Orders
      /\ r.op \in {"settle", "complete"} => r.o \in Orders
  BY DEF Request, ClaimOps, Idle
<1>2. r.op \in {"keep"} \cup ClaimOps => IntentOf(r.intent, r.o)'
  BY DEF Fits, ClaimOps, IntentOf, Kept, Intents
<1>3. r.op \in {"settle", "complete"} => Returned(r.o)'
  <2>1. ASSUME NEW i \in Intents, intent[i].status = "returned"
        PROVE  intent'[i].status = "returned" /\ intent'[i].order = intent[i].order
    BY <2>1, IntentTyped DEF Kept
  <2> QED
    BY <2>1 DEF Fits, Returned, Intents
<1> QED
  BY <1>1, <1>2, <1>3 DEF Fits, ClaimOps, None, NoRow

\* Money that was given back stays given back.
LEMMA ReturnedStays ==
    ASSUME TypeOK, \A i \in Intents : Kept(i), NEW o, Returned(o)
    PROVE  Returned(o)'
<1>1. ASSUME NEW i \in Intents, intent[i].status = "returned"
      PROVE  intent'[i].status = "returned" /\ intent'[i].order = intent[i].order
  BY <1>1, IntentTyped DEF Kept
<1> QED
  BY <1>1 DEF Returned, Intents

\* What a request has read stays true of the tables, whatever others do.
LEMMA RequestsKept ==
    ASSUME PaymentsInv, [Next]_vars,
           intent' \in [Intents -> Intent], \A i \in Intents : Kept(i),
           \A o \in Orders : refund[o] # NoRow => refund'[o] # NoRow,
           \A o \in Orders : order[o].intent # None => order'[o].intent # None
    PROVE  request' \in [Requests -> Request] /\ RequestsFit'
<1> DEFINE Goal == request' \in [Requests -> Request] /\ RequestsFit'
<1>0. TypeOK /\ RequestsFit /\ IntentsBelong /\ RefundsFollowIntents /\ IntentsInARow
      /\ \A q \in Requests : request[q] \in Request
  BY DEF PaymentsInv, TypeOK
<1>1. ASSUME NEW p \in Requests, request'[p] = request[p] PROVE Fits(request[p])'
  <2>1. PICK r \in Request : r = request[p]
    BY <1>0
  <2>2. Fits(r)'
    BY <1>0, <2>1, FitsStays DEF RequestsFit
  <2> QED
    BY <1>1, <2>1, <2>2 DEF Fits
<1>2. ASSUME UNCHANGED request PROVE Goal
  BY <1>1, <1>2 DEF RequestsFit, TypeOK, PaymentsInv
<1>3. ASSUME NEW q \in Requests, NEW r \in Request, SetRequest(q, r), Fits(r)' PROVE Goal
  <2>1. /\ request'[q] = r /\ \A p \in Requests : p # q => request'[p] = request[p]
        /\ request' \in [Requests -> Request]
    BY <1>0, <1>3, RequestSet
  <2>2. Fits(request[q])'
    BY <1>3, <2>1 DEF Fits
  <2> QED
    BY <1>1, <2>1, <2>2 DEF RequestsFit
<1>4. ASSUME NEW q \in Requests, Reply(q) PROVE Goal
  <2>1. Fits(Idle)'
    BY DEF Fits, Idle
  <2> QED
    BY <1>3, <1>4, <2>1, IdleTyped DEF Reply
<1>5. ASSUME NEW q \in Requests, NEW op \in ClaimOps, request[q].op \in ClaimOps, Goto(q, op),
             NEW o \in Orders, o = request[q].o,
             op \in {"call", "complete", "rollback", "fail"} => refund'[o] # NoRow,
             op = "complete" => Returned(o)'
      PROVE  Goal
  <2>1. PICK r \in ClaimRequest : r = request[q]
    BY <1>0, <1>5, RequestTyped
  <2>2. PICK x \in ClaimRequest :
            x = [r EXCEPT !.op = op] /\ x.op = op /\ x.o = o /\ x.intent = r.intent
    <3>1. [r EXCEPT !.op = op] \in ClaimRequest
      BY DEF ClaimRequest
    <3>2. [r EXCEPT !.op = op].op = op /\ [r EXCEPT !.op = op].o = r.o
          /\ [r EXCEPT !.op = op].intent = r.intent
      BY DEF ClaimRequest
    <3> QED
      BY <1>5, <2>1, <3>1, <3>2
  <2>3. SetRequest(q, x) /\ x \in Request
    BY <1>5, <2>1, <2>2 DEF Goto, ClaimRequest, Request, ClaimOps
  <2>4. r \in Request
    BY <1>0, <2>1
  <2>5. Fits(r)'
    BY <1>0, <2>1, <2>4, FitsStays DEF RequestsFit
  <2>6. IntentOf(x.intent, x.o)' /\ order'[x.o].intent # None
    BY <1>5, <2>1, <2>2, <2>5 DEF Fits, ClaimRequest, ClaimOps
  <2>7. /\ x.op \in {"call", "complete", "rollback", "fail"} => refund'[x.o] # NoRow
        /\ x.op = "complete" => Returned(x.o)'
    BY <1>5, <2>1, <2>2
  <2>8. x.op # "settle"
    BY DEF ClaimRequest, ClaimOps
  <2>9. Fits(x)'
    BY <2>6, <2>7, <2>8 DEF Fits
  <2> QED
    BY <1>3, <2>3, <2>9
<1>6. ASSUME NEW q \in Requests, NEW o \in Orders, NEW i \in Intents, IntentOf(i, o)',
             SetRequest(q, [op |-> "keep", o |-> o, intent |-> i])
      PROVE  Goal
  <2> DEFINE r == [op |-> "keep", o |-> o, intent |-> i]
  <2>1. r \in Request /\ r.op = "keep" /\ r.o = o /\ r.intent = i
    BY DEF Request
  <2> HIDE DEF r
  <2>2. Fits(r)'
    BY <1>6, <2>1 DEF Fits
  <2> QED
    BY <1>3, <1>6, <2>1, <2>2 DEF r
<1>7. ASSUME NEW q \in Requests, NEW i \in Intents, CreateIntent(q, i) PROVE Goal
  <2>1. request[q].o \in Orders /\ SetRequest(q, [op |-> "keep", o |-> request[q].o, intent |-> i])
    BY <1>0, <1>7, RequestTyped DEF CreateIntent
  <2> PICK o \in Orders : o = request[q].o
    BY <2>1
  <2>2. CASE i \in FirstIntents(o) /\ UNCHANGED intent
    BY <1>6, <2>1, <2>2 DEF FirstIntents, IntentOf, Intents
  <2>3. CASE i = NextIntent /\ intent' = [intent EXCEPT ![i] = NewIntent(o, TRUE)]
    <3>1. intent'[i] = NewIntent(o, TRUE)
      BY <1>0, <2>3 DEF TypeOK
    <3>2. IntentOf(i, o)'
      BY <3>1 DEF IntentOf, NewIntent, NoRow, Intents
    <3> QED
      BY <1>6, <2>1, <3>2
  <2> QED
    BY <1>7, <2>2, <2>3 DEF CreateIntent
<1>8. ASSUME NEW q \in Requests, RenewIntent(q) PROVE Goal
  <2> PICK o \in Orders : o = request[q].o
    BY <1>0, <1>8, RequestTyped DEF RenewIntent
  <2>1. \/ Reply(q)
        \/ \E i \in Intents : /\ intent'[i] = NewIntent(o, FALSE)
                              /\ SetRequest(q, [op |-> "keep", o |-> o, intent |-> i])
    BY <1>8 DEF RenewIntent
  <2>2. ASSUME NEW i \in Intents, intent'[i] = NewIntent(o, FALSE),
               SetRequest(q, [op |-> "keep", o |-> o, intent |-> i])
        PROVE  Goal
    <3>1. IntentOf(i, o)'
      BY <2>2 DEF IntentOf, NewIntent, NoRow, Intents
    <3> QED
      BY <1>6, <2>2, <3>1
  <2> QED
    BY <1>4, <2>1, <2>2
<1>9. ASSUME NEW q \in Requests, ClaimOrder(q) PROVE Goal
  <2>1. request[q].o \in Orders
    BY <1>0, <1>9, RequestTyped DEF ClaimOrder, ClaimOps, ClaimRequest
  <2> QED
    BY <1>4, <1>5, <1>9, <2>1 DEF ClaimOrder, ClaimOps
<1>10. ASSUME NEW q \in Requests, RecordRefund(q) PROVE Goal
  BY <1>0, <1>5, <1>10, RefundRecorded DEF RecordRefund, ClaimOps
<1>11. ASSUME NEW q \in Requests, CallGateway(q) PROVE Goal
  <2>1. /\ request[q].op = "call" /\ refund[request[q].o] # NoRow
        /\ IntentOf(request[q].intent, request[q].o) /\ request[q].o \in Orders
    BY <1>0, <1>11, RequestTyped DEF CallGateway, RequestsFit, Fits, ClaimOps, ClaimRequest
  <2> PICK o \in Orders : o = request[q].o
    BY <2>1
  <2>2. CASE Goto(q, "rollback")
    BY <1>5, <2>1, <2>2 DEF ClaimOps
  <2>3. CASE /\ intent' = [intent EXCEPT ![request[q].intent].status = "returned"]
             /\ Goto(q, "complete")
    <3>1. PICK i \in Intents : i = request[q].intent /\ IntentOf(i, o)
      BY <2>1 DEF IntentOf
    <3>2. intent'[i].order = o /\ intent'[i].status = "returned"
      BY <1>0, <2>3, <3>1, IntentMoves DEF IntentOf
    <3>3. Returned(o)'
      BY <3>2 DEF Returned, Intents
    <3> QED
      BY <1>5, <2>1, <2>3, <3>3 DEF ClaimOps
  <2> QED
    BY <1>11, <2>2, <2>3 DEF CallGateway
<1>12. ASSUME NEW q \in Requests, CompleteRefund(q) \/ (RollBackClaim(q) /\ Goto(q, "fail"))
       PROVE  Goal
  <2>1. /\ request[q].op \in {"complete", "rollback"} /\ refund[request[q].o] # NoRow
        /\ request[q].o \in Orders
    BY <1>0, <1>12, RequestTyped DEF CompleteRefund, RollBackClaim, RequestsFit, Fits, ClaimOps, ClaimRequest
  <2>2. refund'[request[q].o] # NoRow
    BY <2>1
  <2>3. Reply(q) \/ Goto(q, "rollback") \/ Goto(q, "fail")
    BY <1>12 DEF CompleteRefund
  <2> QED
    BY <1>4, <1>5, <2>1, <2>2, <2>3 DEF ClaimOps
<1>13. ASSUME NEW o \in Orders, NEW p \in Requests, NEW x, x = Overwritten(o)[p] PROVE Fits(x)'
  <2>1. PICK r \in Request : r = request[p]
    BY <1>0
  <2>2. Fits(r)'
    BY <1>0, <2>1, FitsStays DEF RequestsFit
  <2>3. CASE x = r
    BY <2>2, <2>3 DEF Fits
  <2>4. CASE x.op = r.op /\ x.o = r.o /\ x.intent = r.intent
    BY <2>2, <2>4 DEF Fits
  <2> QED
    BY <1>0, <1>13, <2>1, <2>3, <2>4, RequestsOverwritten
<1>14. ASSUME NEW q \in Requests, KeepIntent(q) \/ Settle(q) \/ FailRefund(q) \/ Abort(q) PROVE Goal
  BY <1>4, <1>14 DEF KeepIntent, Settle, FailRefund, Abort
<1>15. ASSUME NEW q \in Requests, NEW o \in Orders, ReadToCreate(q, o) \/ ReadToRetry(q, o) PROVE Goal
  <2> DEFINE r == [op |-> "create", o |-> o]
             x == [op |-> "retry", o |-> o, intent |-> order[o].intent]
  <2>1. r \in Request /\ x \in Request
    BY <1>0, OrderTyped DEF Request
  <2>2. r.op = "create" /\ x.op = "retry"
    OBVIOUS
  <2>3. SetRequest(q, r) \/ SetRequest(q, x)
    BY <1>15 DEF ReadToCreate, ReadToRetry, Accept
  <2> HIDE DEF r, x
  <2>4. PICK y \in Request : SetRequest(q, y) /\ y.op \in {"create", "retry"}
    BY <2>1, <2>2, <2>3
  <2>5. Fits(y)'
    BY <2>4 DEF Fits
  <2> QED
    BY <1>3, <2>4, <2>5
<1>16. ASSUME NEW q \in Requests, NEW o \in Orders, ReadToSettle(q, o) PROVE Goal
  <2> DEFINE r == [op |-> "settle", o |-> o]
  <2>1. Returned(o)'
    <3>1. IntentOf(order[o].intent, o) /\ intent[order[o].intent].status = "returned"
      BY <1>0, <1>16 DEF ReadToSettle, IntentsBelong
    <3>2. Returned(o)
      BY <3>1 DEF IntentOf, Returned
    <3> QED
      BY <1>0, <3>2, ReturnedStays
  <2>2. r \in Request /\ r.op = "settle" /\ r.o = o
    BY DEF Request
  <2>3. SetRequest(q, r)
    BY <1>16 DEF ReadToSettle, Accept
  <2> HIDE DEF r
  <2>4. Fits(r)'
    BY <2>1, <2>2 DEF Fits
  <2> QED
    BY <1>3, <2>2, <2>3, <2>4
<1>17. ASSUME NEW q \in Requests, NEW o \in Orders, ReadToRefund(q, o) PROVE Goal
  <2>1. order[o].intent # None /\ order[o].status \in Refundable
    BY <1>0, <1>17, OrderTyped DEF ReadToRefund, Refundable
  <2>2. IntentOf(order[o].intent, o)
    BY <1>0, <2>1 DEF IntentsBelong
  <2>3. PICK r \in Request : /\ r.op = "claim" /\ r.o = o /\ r.intent = order[o].intent
                             /\ SetRequest(q, r)
    <3> DEFINE x == [op |-> "claim", o |-> o, prior |-> order[o].status,
                     intent |-> order[o].intent, stands |-> TRUE]
    <3>1. x \in Request
      BY <2>1, <2>2 DEF Request, IntentOf
    <3>2. SetRequest(q, x)
      BY <1>17 DEF ReadToRefund, Accept
    <3> QED
      BY <3>1, <3>2
  <2>4. Fits(r)
    BY <2>1, <2>2, <2>3 DEF Fits
  <2>5. Fits(r)'
    BY <1>0, <2>3, <2>4, FitsStays
  <2> QED
    BY <1>3, <2>3, <2>5
<1>18. ASSUME \/ \E i \in Intents : \/ CustomerPays(i) \/ DashboardRefund(i)
                                    \/ ConfirmPayment(i) \/ PaymentFailed(i)
              \/ \E w \in Workers : SelectStuck(w) \/ WriteOutcome(w) \/ MarkExhausted(w) \/ Fail(w)
              \/ \E w \in Workers, r \in Stuck : RetryRefund(w, r)
              \/ \E o \in Orders : GrowsLate(o) \/ RefundOrderItem(o)
              \/ UNCHANGED vars
       PROVE  Goal
  BY <1>2, <1>18 DEF CustomerPays, DashboardRefund, ConfirmPayment, PaymentFailed, SelectStuck,
       WriteOutcome, MarkExhausted, Fail, RetryRefund, GrowsLate, RefundOrderItem, vars
<1>19. ASSUME NEW o \in Orders, request' = Overwritten(o) PROVE Goal
  <2>1. \A p \in Requests : Fits(request[p])'
    <3> SUFFICES ASSUME NEW p \in Requests PROVE Fits(request[p])'
      OBVIOUS
    <3> PICK x : x = Overwritten(o)[p]
      OBVIOUS
    <3>1. Fits(x)'
      BY <1>13
    <3>2. request'[p] = x
      BY <1>19
    <3> QED
      BY <3>1, <3>2 DEF Fits
  <2> QED
    BY <1>0, <1>19, <2>1, RequestsOverwritten DEF RequestsFit
<1>20. ASSUME NEW q \in Requests, RollBackClaim(q) PROVE Goal
  <2>1. request[q].op = "rollback" /\ request[q].o \in Orders
    BY <1>0, <1>20, RequestTyped DEF RollBackClaim, ClaimOps, ClaimRequest
  <2> PICK o \in Orders : o = request[q].o
    BY <2>1
  <2>2. CASE request' = [Overwritten(o) EXCEPT ![q] = [request[q] EXCEPT !.op = "fail"]]
    <3> PICK r \in ClaimRequest : r = request[q]
      BY <1>0, <2>1, RequestTyped DEF ClaimOps
    <3> DEFINE x == [r EXCEPT !.op = "fail"]
    <3>1. x \in ClaimRequest /\ x.op = "fail" /\ x.o = r.o /\ x.intent = r.intent
      BY DEF ClaimRequest, ClaimOps
    <3>2. x \in Request
      BY <3>1 DEF ClaimRequest, Request, ClaimOps
    <3>3. Fits(r)'
      <4>1. r \in Request /\ Fits(r)
        BY <1>0 DEF RequestsFit
      <4> QED
        BY <1>0, <4>1, FitsStays
    <3> HIDE DEF x
    <3>4. Fits(x)'
      BY <2>1, <3>1, <3>3 DEF Fits
    <3>5. request' = [Overwritten(o) EXCEPT ![q] = x]
      BY <2>2 DEF x
    <3>6. request' \in [Requests -> Request]
      BY <1>0, <3>2, <3>5, RequestsOverwritten
    <3>7. \A p \in Requests : Fits(request[p])'
      <4> SUFFICES ASSUME NEW p \in Requests PROVE Fits(request[p])'
        OBVIOUS
      <4>1. CASE p = q
        <5>1. request'[p] = x
          BY <1>0, <3>5, <4>1, RequestsOverwritten
        <5> QED
          BY <3>4, <5>1 DEF Fits
      <4>2. CASE p # q
        <5> PICK y : y = Overwritten(o)[p]
          OBVIOUS
        <5>1. Fits(y)'
          BY <1>13
        <5>2. request'[p] = y
          BY <1>0, <3>5, <4>2, RequestsOverwritten
        <5> QED
          BY <5>1, <5>2 DEF Fits
      <4> QED
        BY <4>1, <4>2
    <3> QED
      BY <3>6, <3>7 DEF RequestsFit
  <2> QED
    BY <1>0, <1>12, <1>20, <2>2, RequestWrites
<1>21. ASSUME NEW o \in Orders, NEW status \in OrderStatus, UpdateOrderStatus(o, status) PROVE Goal
  BY <1>19, <1>21 DEF UpdateOrderStatus
<1> HIDE DEF Goal
<1>22. Goal
  BY <1>7, <1>8, <1>9, <1>10, <1>11, <1>12, <1>14, <1>15, <1>16, <1>17, <1>18, <1>20, <1>21
    DEF Next, Serve, Work
<1> QED
  BY <1>22 DEF Goal

\* How the claims that stand move: they stay, one ends, all on an order end, or one
\* begins.
ClaimedOps == {"record", "call", "complete", "rollback"}
SameClaims == \A p \in Requests, x \in Orders : Standing(p, x)' <=> Standing(p, x)
ClaimEnds(q, o) ==
    \A p \in Requests, x \in Orders : Standing(p, x)' <=> (Standing(p, x) /\ ~(p = q /\ x = o))
ClaimsEndAt(o) ==
    \A p \in Requests, x \in Orders : Standing(p, x)' <=> (Standing(p, x) /\ x # o)
ClaimBegins(q, o) ==
    \A p \in Requests, x \in Orders : Standing(p, x)' <=> (Standing(p, x) \/ (p = q /\ x = o))

\* Claims that a change of one slot makes or ends.
LEMMA ClaimsMove ==
    ASSUME TypeOK, NEW q \in Requests
    PROVE  /\ UNCHANGED request => SameClaims
           /\ \A r : SetRequest(q, r) /\ r.op \notin ClaimedOps /\ request[q].op \notin ClaimedOps
                        => SameClaims
           /\ \A op \in ClaimedOps :
                 Goto(q, op) /\ request[q].op \in ClaimedOps => SameClaims
           /\ \A r : SetRequest(q, r) /\ r.op \notin ClaimedOps /\ request[q].op \in ClaimedOps
                        => ClaimEnds(q, request[q].o)
           /\ Goto(q, "record") /\ request[q].op = "claim"
                 => ClaimBegins(q, request[q].o) \/ SameClaims
<1>1. UNCHANGED request => SameClaims
  BY DEF SameClaims, Standing, Claimed
<1>2. ASSUME NEW r, SetRequest(q, r), r.op \notin ClaimedOps
      PROVE  /\ request[q].op \notin ClaimedOps => SameClaims
             /\ request[q].op \in ClaimedOps => ClaimEnds(q, request[q].o)
  BY <1>2, RequestSet DEF SameClaims, ClaimEnds, Standing, Claimed, ClaimedOps
<1>3. ASSUME NEW op \in ClaimedOps, Goto(q, op), request[q].op \in ClaimOps
      PROVE  /\ request'[q].op = op /\ request'[q].o = request[q].o
             /\ request'[q].stands = request[q].stands
             /\ \A p \in Requests : p # q => request'[p] = request[p]
  BY <1>3, RequestGoes DEF ClaimedOps, ClaimOps
<1>4. ASSUME NEW op \in ClaimedOps, Goto(q, op), request[q].op \in ClaimedOps
      PROVE  SameClaims
  BY <1>3, <1>4 DEF SameClaims, Standing, Claimed, ClaimedOps, ClaimOps
<1>5. ASSUME Goto(q, "record"), request[q].op = "claim"
      PROVE  ClaimBegins(q, request[q].o) \/ SameClaims
  <2>1. /\ request'[q].op = "record" /\ request'[q].o = request[q].o
        /\ request'[q].stands = request[q].stands
        /\ \A p \in Requests : p # q => request'[p] = request[p]
    BY <1>3, <1>5 DEF ClaimedOps, ClaimOps
  <2>2. request[q].stands \in BOOLEAN
    BY <1>5, RequestTyped DEF ClaimOps, ClaimRequest
  <2>3. CASE request[q].stands = TRUE
    BY <1>5, <2>1, <2>3 DEF ClaimBegins, Standing, Claimed
  <2>4. CASE request[q].stands = FALSE
    BY <1>5, <2>1, <2>4 DEF SameClaims, Standing, Claimed
  <2> QED
    BY <2>2, <2>3, <2>4
<1> QED
  BY <1>1, <1>2, <1>4, <1>5

\* No claim on an order stands that was written over.
LEMMA ClaimsOverwritten ==
    ASSUME TypeOK, NEW o \in Orders
    PROVE  /\ request' = Overwritten(o) => ClaimsEndAt(o)
           /\ \A q \in Requests : \A r :
                 /\ request' = [Overwritten(o) EXCEPT ![q] = r]
                 /\ request[q].op \in ClaimedOps /\ request[q].o = o /\ r.op \notin ClaimedOps
                 => ClaimsEndAt(o)
<1>1. ASSUME NEW p \in Requests, request'[p] = Overwritten(o)[p]
      PROVE  \A x \in Orders : Standing(p, x)' <=> (Standing(p, x) /\ x # o)
  <2>1. CASE Claimed(p, o)
    <3>1. request'[p].o = o /\ request'[p].stands = FALSE /\ request[p].o = o
      BY <1>1, <2>1, RequestsOverwritten DEF Claimed
    <3> QED
      BY <3>1 DEF Standing, Claimed
  <2>2. CASE ~Claimed(p, o)
    <3>1. request'[p] = request[p]
      BY <1>1, <2>2, RequestsOverwritten
    <3> QED
      BY <2>2, <3>1 DEF Standing, Claimed
  <2> QED
    BY <2>1, <2>2
<1>2. ASSUME NEW q \in Requests, NEW r, request' = [Overwritten(o) EXCEPT ![q] = r],
             request[q].op \in ClaimedOps, request[q].o = o, r.op \notin ClaimedOps
      PROVE  ClaimsEndAt(o)
  <2>1. request'[q] = r /\ \A p \in Requests : p # q => request'[p] = Overwritten(o)[p]
    BY <1>2, RequestsOverwritten
  <2>2. \A x \in Orders : Standing(q, x)' <=> (Standing(q, x) /\ x # o)
    BY <1>2, <2>1 DEF Standing, Claimed, ClaimedOps
  <2> QED
    BY <1>1, <2>1, <2>2 DEF ClaimsEndAt
<1>3. request' = Overwritten(o) => ClaimsEndAt(o)
  BY <1>1 DEF ClaimsEndAt
<1> QED
  BY <1>2, <1>3

\* Claims that the steps of a request make or end.
LEMMA RequestClaims ==
    ASSUME TypeOK, NEW q \in Requests
    PROVE  /\ \A i \in Intents : CreateIntent(q, i) => SameClaims
           /\ \A o \in Orders :
                 (ReadToCreate(q, o) \/ ReadToRetry(q, o) \/ ReadToSettle(q, o) \/ ReadToRefund(q, o))
                    => SameClaims
           /\ (RenewIntent(q) \/ KeepIntent(q) \/ Settle(q) \/ RecordRefund(q) \/ CallGateway(q)
                 \/ FailRefund(q)) => SameClaims
           /\ ClaimOrder(q) => \/ Reply(q) /\ UNCHANGED order /\ SameClaims
                               \/ Goto(q, "record") /\ (ClaimBegins(q, request[q].o) \/ SameClaims)
           /\ CompleteRefund(q) => \/ Goto(q, "rollback") /\ SameClaims
                                   \/ Reply(q) /\ ClaimEnds(q, request[q].o)
           /\ RollBackClaim(q) => \/ UNCHANGED order /\ ClaimEnds(q, request[q].o)
                                  \/ ClaimsEndAt(request[q].o)
           /\ Abort(q) => SameClaims \/ (request[q].o \in Orders /\ ClaimEnds(q, request[q].o))
<1>1. ASSUME Reply(q)
      PROVE  /\ request[q].op \notin ClaimedOps => SameClaims
             /\ request[q].op \in ClaimedOps => ClaimEnds(q, request[q].o)
  BY <1>1, ClaimsMove, IdleTyped DEF Reply, ClaimedOps
<1>2. ASSUME NEW r, SetRequest(q, r), r.op \notin ClaimedOps, request[q].op \notin ClaimedOps
      PROVE  SameClaims
  BY <1>2, ClaimsMove
<1>3. ASSUME NEW i \in Intents, CreateIntent(q, i) PROVE SameClaims
  <2> DEFINE r == [op |-> "keep", o |-> request[q].o, intent |-> i]
  <2>1. SetRequest(q, r) /\ request[q].op \notin ClaimedOps
    BY <1>3 DEF CreateIntent, ClaimedOps
  <2>2. r.op \notin ClaimedOps
    BY DEF ClaimedOps
  <2> QED
    BY <1>2, <2>1, <2>2
<1>4. ASSUME RenewIntent(q) PROVE SameClaims
  <2>1. request[q].op \notin ClaimedOps
    BY <1>4 DEF RenewIntent, ClaimedOps
  <2>2. Reply(q) \/ \E i \in Intents : SetRequest(q, [op |-> "keep", o |-> request[q].o, intent |-> i])
    BY <1>4 DEF RenewIntent
  <2>3. ASSUME NEW i \in Intents, SetRequest(q, [op |-> "keep", o |-> request[q].o, intent |-> i])
        PROVE  SameClaims
    <3>1. [op |-> "keep", o |-> request[q].o, intent |-> i].op \notin ClaimedOps
      BY DEF ClaimedOps
    <3> QED
      BY <1>2, <2>1, <2>3, <3>1
  <2> QED
    BY <1>1, <2>1, <2>2, <2>3
<1>5. ASSUME KeepIntent(q) \/ Settle(q) \/ FailRefund(q) PROVE SameClaims
  BY <1>1, <1>5 DEF KeepIntent, Settle, FailRefund, ClaimedOps
<1>6. ASSUME RecordRefund(q) \/ CallGateway(q) PROVE SameClaims
  BY <1>6, ClaimsMove DEF RecordRefund, CallGateway, ClaimedOps
<1>7. ASSUME NEW o \in Orders,
             ReadToCreate(q, o) \/ ReadToRetry(q, o) \/ ReadToSettle(q, o) \/ ReadToRefund(q, o)
      PROVE  SameClaims
  <2>1. request[q].op \notin ClaimedOps
    BY <1>7, IdleTyped DEF ReadToCreate, ReadToRetry, ReadToSettle, ReadToRefund, Accept, ClaimedOps
  <2>2. \E r : SetRequest(q, r) /\ r.op \in {"create", "retry", "settle", "claim"}
    <3>1. CASE ReadToCreate(q, o)
      BY <3>1 DEF ReadToCreate, Accept
    <3>2. CASE ReadToRetry(q, o)
      BY <3>2 DEF ReadToRetry, Accept
    <3>3. CASE ReadToSettle(q, o)
      BY <3>3 DEF ReadToSettle, Accept
    <3>4. CASE ReadToRefund(q, o)
      BY <3>4 DEF ReadToRefund, Accept
    <3> QED
      BY <1>7, <3>1, <3>2, <3>3, <3>4
  <2> QED
    BY <1>2, <2>1, <2>2 DEF ClaimedOps
<1>8. ASSUME ClaimOrder(q)
      PROVE  \/ Reply(q) /\ UNCHANGED order /\ SameClaims
             \/ Goto(q, "record") /\ (ClaimBegins(q, request[q].o) \/ SameClaims)
  BY <1>1, <1>8, ClaimsMove DEF ClaimOrder, ClaimedOps
<1>9. ASSUME CompleteRefund(q)
      PROVE  \/ Goto(q, "rollback") /\ SameClaims
             \/ Reply(q) /\ ClaimEnds(q, request[q].o)
  BY <1>1, <1>9, ClaimsMove DEF CompleteRefund, ClaimedOps
<1>10. ASSUME RollBackClaim(q)
       PROVE  \/ UNCHANGED order /\ ClaimEnds(q, request[q].o)
              \/ ClaimsEndAt(request[q].o)
  <2> DEFINE r == [request[q] EXCEPT !.op = "fail"]
  <2>1. request[q].op = "rollback" /\ request[q].o \in Orders
    BY <1>10, RequestTyped DEF RollBackClaim, ClaimOps, ClaimRequest
  <2>2. request[q] \in ClaimRequest
    BY <2>1, RequestTyped DEF ClaimOps
  <2>3. r.op = "fail"
    BY <2>2 DEF ClaimRequest
  <2>4. \/ UNCHANGED order /\ SetRequest(q, r)
        \/ request' = [Overwritten(request[q].o) EXCEPT ![q] = r]
    BY <1>10, RequestWrites DEF Goto
  <2> HIDE DEF r
  <2>5. CASE UNCHANGED order /\ SetRequest(q, r)
    BY <2>1, <2>3, <2>5, ClaimsMove DEF ClaimedOps
  <2>6. CASE request' = [Overwritten(request[q].o) EXCEPT ![q] = r]
    <3> PICK o \in Orders : o = request[q].o
      BY <2>1
    <3>1. ClaimsEndAt(o)
      BY <2>1, <2>3, <2>6, ClaimsOverwritten DEF ClaimedOps
    <3> QED
      BY <3>1 DEF ClaimsEndAt
  <2> QED
    BY <2>4, <2>5, <2>6
<1>11. ASSUME Abort(q) PROVE SameClaims \/ (request[q].o \in Orders /\ ClaimEnds(q, request[q].o))
  <2>1. request[q].op \in ClaimedOps => request[q].o \in Orders
    BY RequestTyped DEF ClaimedOps, ClaimOps, ClaimRequest
  <2> QED
    BY <1>1, <1>11, <2>1 DEF Abort
<1> QED
  BY <1>3, <1>4, <1>5, <1>6, <1>7, <1>8, <1>9, <1>10, <1>11

\* What is not a request moves no claim.
LEMMA OthersKeepClaims ==
    ASSUME TypeOK,
           \/ \E i \in Intents : \/ CustomerPays(i) \/ DashboardRefund(i)
                                 \/ ConfirmPayment(i) \/ PaymentFailed(i)
           \/ \E w \in Workers : Work(w) \/ Fail(w)
           \/ \E o \in Orders : GrowsLate(o) \/ RefundOrderItem(o)
           \/ UNCHANGED vars
    PROVE  UNCHANGED request /\ SameClaims
<1>1. UNCHANGED request
  BY DEF CustomerPays, DashboardRefund, ConfirmPayment, PaymentFailed, Work, SelectStuck,
       RetryRefund, WriteOutcome, MarkExhausted, Fail, GrowsLate, RefundOrderItem, vars
<1>2. SameClaims
  BY <1>1 DEF SameClaims, Standing, Claimed
<1> QED
  BY <1>1, <1>2

\* A claim is made of a paid order that nobody has claimed; and while it stands,
\* only its end and a refund that was settled change the status of the order.
LEMMA ClaimsKept ==
    ASSUME TypeOK, ClaimsHold, [Next]_vars
    PROVE  ClaimsHold' /\ reconciled' \subseteq Orders /\ reconciled \subseteq reconciled'
<1> DEFINE Goal == ClaimsHold' /\ reconciled' \subseteq Orders /\ reconciled \subseteq reconciled'
           Held(o) == order'[o].status \in {"CANCELLING", "REFUNDED"}
           PaidRight(o) == order'[o].payment = "PAID" => o \in reconciled'
<1>0. reconciled \subseteq Orders
  BY DEF TypeOK
<1>1. ASSUME reconciled \subseteq reconciled', reconciled' \subseteq Orders,
             \A p \in Requests, x \in Orders : Standing(p, x)' => Standing(p, x),
             \A x \in Orders : PaidRight(x),
             \A x \in Orders : (\E p \in Requests : Standing(p, x)') => Held(x)
      PROVE  Goal
  BY <1>1 DEF ClaimsHold
<1>2. ASSUME UNCHANGED <<order, reconciled>>,
             \A p \in Requests, x \in Orders : Standing(p, x)' => Standing(p, x)
      PROVE  Goal
  BY <1>0, <1>1, <1>2 DEF ClaimsHold
<1>3. ASSUME NEW i \in Intents, ConfirmPayment(i) PROVE Goal
  <2> DEFINE o == intent[i].order
  <2>1. /\ o \in Orders /\ o \notin reconciled /\ reconciled' = reconciled \cup {o}
        /\ \A p \in Orders : p # o => order'[p] = order[p]
    BY <1>3, EventWrites DEF ConfirmPayment, Writes
  <2>2. SameClaims
    BY <1>3, OthersKeepClaims
  <2> HIDE DEF o
  <2>3. \A p \in Requests, x \in Orders : Standing(p, x)' => Standing(p, x) /\ x # o
    BY <2>1, <2>2 DEF SameClaims, ClaimsHold
  <2> QED
    BY <1>0, <1>1, <2>1, <2>3 DEF ClaimsHold
<1>4. ASSUME NEW i \in Intents, PaymentFailed(i) PROVE Goal
  <2> DEFINE o == intent[i].order
  <2>1. /\ o \in Orders /\ UNCHANGED reconciled
        /\ order'[o].payment = "UNPAID" /\ order'[o].status = order[o].status
        /\ \A p \in Orders : p # o => order'[p] = order[p]
    BY <1>4, EventWrites DEF PaymentFailed, Writes
  <2>2. SameClaims
    BY <1>4, OthersKeepClaims
  <2> HIDE DEF o
  <2>3. \A x \in Orders : order'[x].status = order[x].status /\ PaidRight(x)
    BY <2>1 DEF ClaimsHold
  <2> QED
    BY <1>0, <1>1, <2>1, <2>2, <2>3 DEF ClaimsHold, SameClaims
<1>5. ASSUME NEW q \in Requests, KeepIntent(q) PROVE Goal
  <2>1. /\ \A x \in Orders : order'[x].status = order[x].status /\ order'[x].payment = order[x].payment
        /\ UNCHANGED reconciled /\ SameClaims
    <3>1. UNCHANGED reconciled /\ SameClaims
      BY <1>5, RequestClaims DEF KeepIntent
    <3> DEFINE o == request[q].o
    <3>2. /\ o \in Orders /\ order'[o].payment = order[o].payment /\ order'[o].status = order[o].status
          /\ \A p \in Orders : p # o => order'[p] = order[p]
      BY <1>5, RequestWrites DEF Writes
    <3> HIDE DEF o
    <3> QED
      BY <3>1, <3>2
  <2> QED
    BY <1>0, <1>1, <2>1 DEF ClaimsHold, SameClaims
<1>6. ASSUME NEW q \in Requests, Settle(q) PROVE Goal
  <2> DEFINE o == request[q].o
  <2>1. UNCHANGED reconciled /\ SameClaims
    BY <1>6, RequestClaims DEF Settle
  <2>2. CASE UNCHANGED order
    BY <1>2, <2>1, <2>2 DEF SameClaims
  <2>3. CASE Writes(o, "REFUNDED", "REFUNDED", order[o].intent)
    <3>1. /\ order'[o].payment = "REFUNDED" /\ order'[o].status = "REFUNDED"
          /\ \A p \in Orders : p # o => order'[p] = order[p]
      BY <2>3 DEF Writes
    <3> HIDE DEF o
    <3>2. \A x \in Orders : PaidRight(x)
      BY <2>1, <3>1 DEF ClaimsHold
    <3>3. \A x \in Orders : (\E p \in Requests : Standing(p, x)') => Held(x)
      BY <2>1, <3>1 DEF ClaimsHold, SameClaims
    <3> QED
      BY <1>0, <1>1, <2>1, <3>2, <3>3 DEF SameClaims
  <2> QED
    BY <1>6, <2>2, <2>3, RequestWrites
<1>7. ASSUME NEW q \in Requests, ClaimOrder(q) PROVE Goal
  <2> DEFINE o == request[q].o
  <2>1. UNCHANGED reconciled /\ o \in Orders
    BY <1>7, RequestWrites DEF ClaimOrder
  <2>2. CASE UNCHANGED order /\ SameClaims
    BY <1>2, <2>1, <2>2 DEF SameClaims
  <2>4. CASE /\ order[o].status \in Refundable
             /\ Writes(o, order[o].payment, "CANCELLING", order[o].intent)
             /\ SameClaims
    <3>1. /\ order'[o].payment = order[o].payment /\ order'[o].status = "CANCELLING"
          /\ \A p \in Orders : p # o => order'[p] = order[p]
      BY <2>4 DEF Writes
    <3> HIDE DEF o
    <3>2. \A x \in Orders : PaidRight(x)
      BY <2>1, <3>1 DEF ClaimsHold
    <3>3. \A x \in Orders : (\E p \in Requests : Standing(p, x)') => Held(x)
      BY <2>1, <2>4, <3>1 DEF ClaimsHold, SameClaims
    <3> QED
      BY <1>0, <1>1, <2>1, <2>4, <3>2, <3>3 DEF SameClaims
  <2>3. CASE /\ order[o].status \in Refundable /\ order[o].payment = "PAID"
             /\ Writes(o, order[o].payment, "CANCELLING", order[o].intent)
             /\ ClaimBegins(q, o)
    <3>1. /\ order'[o].payment = "PAID" /\ order'[o].status = "CANCELLING"
          /\ \A p \in Orders : p # o => order'[p] = order[p]
      BY <2>3 DEF Writes
    <3>2. ~ \E p \in Requests : Standing(p, o)
      BY <2>1, <2>3 DEF ClaimsHold, Refundable
    <3>3. \A p \in Requests, x \in Orders : Standing(p, x)' <=> (Standing(p, x) \/ (p = q /\ x = o))
      BY <2>3 DEF ClaimBegins
    <3>4. o \in reconciled
      BY <2>1, <2>3 DEF ClaimsHold
    <3> HIDE DEF o
    <3>5. \A x \in Orders : PaidRight(x)
      BY <2>1, <3>1, <3>4 DEF ClaimsHold
    <3>6. \A p \in Requests, x \in Orders : Standing(p, x)' => x \in reconciled' /\ Held(x)
      BY <2>1, <3>1, <3>3, <3>4 DEF ClaimsHold
    <3>7. \A p, r \in Requests, x \in Orders : Standing(p, x)' /\ Standing(r, x)' => p = r
      BY <3>2, <3>3 DEF ClaimsHold
    <3> QED
      BY <1>0, <2>1, <3>5, <3>6, <3>7 DEF ClaimsHold
  <2> QED
    <3>1. Reply(q) => request'[q] = Idle
      BY RequestEnds
    <3>2. Goto(q, "record") => request'[q] # Idle
      <4>1. Goto(q, "record") => request'[q].op = "record"
        BY <1>7, RequestGoes DEF ClaimOrder, ClaimOps
      <4> QED
        BY <4>1, IdleTyped
    <3> QED
      BY <1>7, <2>2, <2>3, <2>4, <3>1, <3>2, RequestWrites, RequestClaims
<1>8. ASSUME NEW o \in Orders, ClaimsEndAt(o), UNCHANGED reconciled, NEW status, NEW i,
             Writes(o, order[o].payment, status, i)
      PROVE  Goal
  <2>1. order'[o].payment = order[o].payment /\ \A p \in Orders : p # o => order'[p] = order[p]
    BY <1>8 DEF Writes
  <2>2. \A p \in Requests, x \in Orders : Standing(p, x)' => Standing(p, x) /\ x # o
    BY <1>8 DEF ClaimsEndAt
  <2>3. \A x \in Orders : PaidRight(x)
    BY <1>8, <2>1 DEF ClaimsHold
  <2>4. \A x \in Orders : (\E p \in Requests : Standing(p, x)') => Held(x)
    BY <2>1, <2>2 DEF ClaimsHold
  <2> QED
    BY <1>0, <1>1, <1>8, <2>2, <2>3, <2>4
<1>9. ASSUME NEW q \in Requests, RollBackClaim(q) PROVE Goal
  <2>1. UNCHANGED reconciled /\ request[q].o \in Orders
    BY <1>9, RequestWrites DEF RollBackClaim
  <2> PICK o \in Orders : o = request[q].o
    BY <2>1
  <2>2. CASE UNCHANGED order
    <3>1. ClaimEnds(q, o) \/ ClaimsEndAt(o)
      BY <1>9, RequestClaims DEF ClaimsEndAt
    <3> QED
      BY <1>2, <2>1, <2>2, <3>1 DEF ClaimEnds, ClaimsEndAt
  <2>3. CASE /\ order[o].status = "CANCELLING"
             /\ Writes(o, order[o].payment, request[q].prior, order[o].intent)
             /\ ~ UNCHANGED order
    <3>1. ClaimsEndAt(request[q].o)
      BY <1>9, <2>3, RequestClaims
    <3>2. ClaimsEndAt(o)
      BY <3>1 DEF ClaimsEndAt
    <3> QED
      BY <1>8, <2>1, <2>3, <3>2
  <2> QED
    BY <1>9, <2>2, <2>3, RequestWrites
<1>10. ASSUME NEW o \in Orders, NEW status \in OrderStatus, UpdateOrderStatus(o, status) PROVE Goal
  <2>1. ClaimsEndAt(o) /\ UNCHANGED reconciled
    BY <1>10, ClaimsOverwritten DEF UpdateOrderStatus
  <2>2. Writes(o, order[o].payment, status, order[o].intent)
    BY <1>10, ElsewhereWrites
  <2> QED
    BY <1>8, <2>1, <2>2
<1>11. ASSUME NEW o \in Orders, RefundOrderItem(o) PROVE Goal
  <2>1. SameClaims /\ UNCHANGED reconciled
    BY <1>11, OthersKeepClaims DEF RefundOrderItem
  <2>2. /\ order'[o].payment \in {order[o].payment, "PARTIALLY_REFUNDED", "REFUNDED"}
        /\ order'[o].status = order[o].status
        /\ \A p \in Orders : p # o => order'[p] = order[p]
    BY <1>11, ElsewhereWrites DEF Writes
  <2>3. \A x \in Orders : order'[x].status = order[x].status /\ PaidRight(x)
    BY <2>1, <2>2 DEF ClaimsHold
  <2> QED
    BY <1>0, <1>1, <2>1, <2>3 DEF ClaimsHold, SameClaims
<1>12. ASSUME NEW q \in Requests, CompleteRefund(q) \/ Abort(q) PROVE Goal
  <2>1. SameClaims \/ ClaimEnds(q, request[q].o)
    BY <1>12, RequestClaims
  <2>2. UNCHANGED <<order, reconciled>>
    BY <1>12 DEF CompleteRefund, Abort
  <2> QED
    BY <1>2, <2>1, <2>2 DEF SameClaims, ClaimEnds
<1>13. ASSUME NEW q \in Requests,
              \/ \E i \in Intents : CreateIntent(q, i)
              \/ RenewIntent(q) \/ RecordRefund(q) \/ CallGateway(q) \/ FailRefund(q)
              \/ \E o \in Orders : \/ ReadToCreate(q, o) \/ ReadToRetry(q, o)
                                   \/ ReadToSettle(q, o) \/ ReadToRefund(q, o)
       PROVE  Goal
  <2>1. SameClaims
    BY <1>13, RequestClaims
  <2>2. UNCHANGED <<order, reconciled>>
    BY <1>13 DEF CreateIntent, RenewIntent, RecordRefund, CallGateway, FailRefund, ReadToCreate,
         ReadToRetry, ReadToSettle, ReadToRefund
  <2> QED
    BY <1>2, <2>1, <2>2 DEF SameClaims
<1>14. ASSUME \/ \E i \in Intents : CustomerPays(i) \/ DashboardRefund(i)
              \/ \E w \in Workers : Work(w) \/ Fail(w)
              \/ \E o \in Orders : GrowsLate(o)
              \/ UNCHANGED vars
       PROVE  Goal
  <2>1. SameClaims
    BY <1>14, OthersKeepClaims
  <2>2. UNCHANGED <<order, reconciled>>
    BY <1>14 DEF CustomerPays, DashboardRefund, Work, SelectStuck, RetryRefund, WriteOutcome,
         MarkExhausted, Fail, GrowsLate, vars
  <2> QED
    BY <1>2, <2>1, <2>2 DEF SameClaims
<1> HIDE DEF Goal
<1>15. Goal
  BY <1>3, <1>4, <1>5, <1>6, <1>7, <1>12, <1>13, <1>14, <1>9, <1>10, <1>11 DEF Next, Serve
<1> QED
  BY <1>15 DEF Goal

\* What a step may do to the money and to the books of one order.
SameReturns == \A x \in Orders : Returned(x)' <=> Returned(x)
ReturnsAt(o) == Returned(o)' /\ \A x \in Orders : x # o => (Returned(x)' <=> Returned(x))
SameCompleted == \A x \in Orders : Completed(x)' <=> Completed(x)
CompletesAt(o) == \A x \in Orders : x # o => (Completed(x)' <=> Completed(x))
SameRefunded == \A x \in Orders : Refunded(x)' <=> Refunded(x)
RefundsAt(o) == \A x \in Orders : x # o => (Refunded(x)' <=> Refunded(x))
SameMoney == SameReturns /\ UNCHANGED credited
SameBooks == SameCompleted /\ SameRefunded

\* Only a payment that is returned adds to what was given back.
LEMMA StatusMoves ==
    ASSUME TypeOK, NEW i \in Intents, NEW s \in {"canceled", "charged", "returned"},
           intent[i].status \in {"open", "charged"}, intent' = [intent EXCEPT ![i].status = s]
    PROVE  /\ intent[i].order \in Orders
           /\ s # "returned" => SameReturns
           /\ s = "returned" => \A o \in Orders : o = intent[i].order => ReturnsAt(o)
<1>1. intent[i] # NoRow
  BY IntentTyped
<1>2. intent[i].order \in Orders
  BY <1>1, IntentTyped DEF IntentRow
<1>3. /\ intent'[i].order = intent[i].order /\ intent'[i].status = s
      /\ \A j \in Intents : j # i => intent'[j] = intent[j]
  BY <1>1, IntentMoves
<1>4. Intents' = Intents
  BY DEF Intents
<1>5. ASSUME s # "returned" PROVE SameReturns
  <2>1. \A j \in Intents : \/ intent'[j] = intent[j]
                           \/ intent'[j].status # "returned" /\ intent[j].status # "returned"
    BY <1>3, <1>5
  <2> QED
    BY <1>4, <2>1 DEF SameReturns, Returned
<1>6. ASSUME s = "returned", NEW o \in Orders, o = intent[i].order PROVE ReturnsAt(o)
  <2>1. Returned(o)'
    BY <1>3, <1>4, <1>6 DEF Returned
  <2>2. ASSUME NEW x \in Orders, x # o PROVE Returned(x)' <=> Returned(x)
    <3>1. \A j \in Intents : \/ intent'[j] = intent[j]
                             \/ intent'[j].order # x /\ intent[j].order # x
      BY <1>3, <1>6, <2>2
    <3> QED
      BY <1>4, <3>1 DEF Returned
  <2> QED
    BY <2>1, <2>2 DEF ReturnsAt
<1> QED
  BY <1>2, <1>5, <1>6

\* Creating an intent, or cancelling an open one, gives nothing back.
LEMMA NewIntentsReturnNothing ==
    ASSUME TypeOK, IntentsInARow, NEW q \in Requests,
           RenewIntent(q) \/ \E i \in Intents : CreateIntent(q, i)
    PROVE  SameReturns
<1>1. ASSUME \A j \in Intents : \/ intent'[j] = intent[j]
                                \/ intent'[j].status # "returned" /\ intent[j].status # "returned"
      PROVE  SameReturns
  BY <1>1 DEF SameReturns, Returned, Intents
<1>2. NoRow.status # "returned" /\ \A o, first : NewIntent(o, first).status # "returned"
  BY DEF NoRow, NewIntent
<1>3. ASSUME NEW i \in Intents, CreateIntent(q, i) PROVE SameReturns
  <2>1. request[q].o \in Orders
    BY <1>3, RequestTyped DEF CreateIntent
  <2>2. CASE UNCHANGED intent
    BY <1>1, <2>2
  <2>3. CASE i = NextIntent /\ intent' = [intent EXCEPT ![i] = NewIntent(request[q].o, TRUE)]
    <3>1. /\ intent[i] = NoRow /\ intent'[i] = NewIntent(request[q].o, TRUE)
          /\ \A j \in Intents : j # i => intent'[j] = intent[j]
      BY <2>1, <2>3, IntentCreated DEF TypeOK
    <3> QED
      BY <1>1, <1>2, <3>1
  <2> QED
    BY <1>3, <2>2, <2>3 DEF CreateIntent
<1>4. ASSUME RenewIntent(q) PROVE SameReturns
  <2> DEFINE old == request[q].intent
             table(S) == [i \in Intents |->
                 IF i \in S THEN [intent[i] EXCEPT !.status = "canceled"] ELSE intent[i]]
  <2>1. old \in Intents \cup {None} /\ request[q].o \in Orders
    BY <1>4, RequestTyped DEF RenewIntent
  <2>2. PICK S \in {{}, {i \in {old} \ {None} : intent[i].status = "open"}} :
            \/ intent' = table(S)
            \/ \E i \in {NextIntent} \cap Intents :
                  intent' = [table(S) EXCEPT ![i] = NewIntent(request[q].o, FALSE)]
    BY <1>4 DEF RenewIntent
  <2>3. ASSUME NEW j \in S PROVE j \in Intents /\ intent[j] \in IntentRow /\ intent[j].status # "returned"
    <3>1. j \in Intents /\ intent[j].status = "open"
      BY <2>1, <2>2, <2>3
    <3> QED
      BY <3>1, IntentTyped
  <2>4. \A j \in Intents : /\ j \notin S => table(S)[j] = intent[j]
                           /\ j \in S => table(S)[j].status = "canceled" /\ intent[j].status # "returned"
    BY <2>3 DEF IntentRow
  <2> HIDE DEF table
  <2>5. CASE intent' = table(S)
    BY <1>1, <2>4, <2>5
  <2>6. ASSUME NEW i \in {NextIntent} \cap Intents,
               intent' = [table(S) EXCEPT ![i] = NewIntent(request[q].o, FALSE)]
        PROVE  SameReturns
    <3>1. intent[i] = NoRow
      BY <2>6, NextIntentIsFree, RetriesAssumption DEF Intents
    <3>2. table(S) = [j \in Intents |-> table(S)[j]]
      BY DEF table
    <3>3. /\ intent'[i] = NewIntent(request[q].o, FALSE)
          /\ \A j \in Intents : j # i => intent'[j] = table(S)[j]
      BY <2>6, <3>2
    <3>4. intent'[i].status # "returned" /\ intent[i].status # "returned"
      <4>1. NewIntent(request[q].o, FALSE).status # "returned" /\ NoRow.status # "returned"
        BY DEF NewIntent, NoRow
      <4>2. intent'[i] = NewIntent(request[q].o, FALSE) /\ intent[i] = NoRow
        BY <2>6, <3>1, <3>3
      <4> QED
        BY <4>1, <4>2, Zenon
    <3>5. \A j \in Intents : \/ intent'[j] = intent[j]
                             \/ intent'[j].status # "returned" /\ intent[j].status # "returned"
      BY <2>4, <3>3, <3>4
    <3> QED
      BY <1>1, <3>5, Zenon
  <2> QED
    BY <2>2, <2>5, <2>6
<1> QED
  BY <1>3, <1>4

\* The books follow the order's row and its RefundRequest.
LEMMA BooksMove ==
    /\ UNCHANGED refund => SameCompleted
    /\ UNCHANGED order => SameRefunded
    /\ \A o \in Orders : \A payment, status, i : Writes(o, payment, status, i) =>
          /\ RefundsAt(o) /\ (Refunded(o)' <=> payment = "REFUNDED")
          /\ payment = order[o].payment => SameRefunded
    /\ \A o \in Orders : (\A p \in Orders : p # o => refund'[p] = refund[p]) => CompletesAt(o)
BY DEF SameCompleted, SameRefunded, RefundsAt, CompletesAt, Completed, Refunded, Writes

\* Every step makes, ends or leaves the claims, pays money back, or writes one of the
\* books, as the promise allows.
StepMatches ==
    \/ SameClaims /\ SameMoney /\ SameBooks
    \/ \E o \in Orders :
          \/ SameClaims /\ ReturnsAt(o) /\ UNCHANGED credited /\ SameBooks
          \/ SameClaims /\ SameReturns /\ credited' = credited \cup {o} /\ SameCompleted /\ RefundsAt(o)
          \/ SameClaims /\ SameMoney /\ CompletesAt(o) /\ (Completed(o)' => Returned(o)) /\ SameRefunded
          \/ SameClaims /\ SameMoney /\ SameCompleted /\ RefundsAt(o) /\ (Refunded(o)' => Returned(o))
          \/ \E q \in Requests :
                \/ /\ ClaimBegins(q, o) /\ (\A p \in Requests : ~Standing(p, o))
                   /\ SameMoney /\ SameBooks
                \/ /\ ClaimEnds(q, o) /\ {p \in Requests : Standing(p, o)} = {q}
                   /\ SameMoney /\ SameRefunded
                   /\ SameCompleted \/ (CompletesAt(o) /\ Completed(o)' /\ Returned(o))

\* Where a claim ends, or all claims on an order do, either none stood or just one did.
LEMMA EndsMatch ==
    ASSUME ClaimsHold, NEW o \in Orders,
           ClaimsEndAt(o) \/ \E q \in Requests : ClaimEnds(q, o)
    PROVE  \/ SameClaims
           \/ \E q \in Requests : ClaimEnds(q, o) /\ {p \in Requests : Standing(p, o)} = {q}
<1>1. ASSUME NEW q \in Requests, Standing(q, o)
      PROVE  /\ \A p \in Requests : Standing(p, o) => p = q
             /\ {p \in Requests : Standing(p, o)} = {q}
  BY <1>1 DEF ClaimsHold
<1>2. CASE ClaimsEndAt(o)
  <2>1. CASE \E q \in Requests : Standing(q, o)
    <3> PICK q \in Requests : Standing(q, o)
      BY <2>1
    <3>1. ClaimEnds(q, o)
      BY <1>1, <1>2 DEF ClaimsEndAt, ClaimEnds
    <3> QED
      BY <1>1, <3>1
  <2>2. CASE ~ \E q \in Requests : Standing(q, o)
    BY <1>2, <2>2 DEF ClaimsEndAt, SameClaims
  <2> QED
    BY <2>1, <2>2
<1>3. ASSUME NEW q \in Requests, ClaimEnds(q, o)
      PROVE  SameClaims \/ {p \in Requests : Standing(p, o)} = {q}
  BY <1>1, <1>3 DEF ClaimEnds, SameClaims
<1> QED
  BY <1>2, <1>3

\* Each action of the payments, in one of those ways.
LEMMA StepsMatch == PaymentsInv /\ [Next]_vars => StepMatches
<1> SUFFICES ASSUME PaymentsInv, [Next]_vars PROVE StepMatches
  OBVIOUS
<1>0. TypeOK /\ IntentsInARow /\ RequestsFit /\ PickedRows /\ ClaimsHold /\ BooksFollowGateway
  BY DEF PaymentsInv
<1>1. UNCHANGED <<intent, credited>> => SameMoney
  BY DEF SameMoney, SameReturns, Returned, Intents
<1>2. UNCHANGED <<order, refund>> => SameBooks
  BY BooksMove DEF SameBooks
<1>3. ASSUME NEW i \in Intents, CustomerPays(i) PROVE StepMatches
  <2>1. SameMoney /\ SameBooks
    BY <1>0, <1>2, <1>3, StatusMoves DEF CustomerPays, SameMoney
  <2> QED
    BY <1>0, <1>3, <2>1, OthersKeepClaims DEF StepMatches
<1>4. ASSUME NEW i \in Intents, intent[i].status = "charged",
             intent' = [intent EXCEPT ![i].status = "returned"],
             UNCHANGED <<credited, order, refund>>, SameClaims
      PROVE  StepMatches
  <2> PICK o \in Orders : o = intent[i].order
    BY <1>0, <1>4, StatusMoves
  <2>1. ReturnsAt(o)
    BY <1>0, <1>4, StatusMoves
  <2> QED
    BY <1>2, <1>4, <2>1 DEF StepMatches
<1>5. ASSUME NEW i \in Intents, DashboardRefund(i) PROVE StepMatches
  BY <1>0, <1>4, <1>5, OthersKeepClaims DEF DashboardRefund
<1>6. ASSUME SameClaims, UNCHANGED <<intent, credited>>, SameBooks PROVE StepMatches
  BY <1>1, <1>6 DEF StepMatches
<1>7. ASSUME NEW o \in Orders, SameClaims, UNCHANGED <<intent, credited, order>>,
             \A p \in Orders : p # o => refund'[p] = refund[p], Completed(o)' => Returned(o)
      PROVE  StepMatches
  BY <1>1, <1>7, BooksMove DEF StepMatches
<1>8. ASSUME NEW o \in Orders, SameClaims, UNCHANGED <<intent, credited, refund>>,
             RefundsAt(o), Refunded(o)' => Returned(o)
      PROVE  StepMatches
  BY <1>1, <1>8, BooksMove DEF StepMatches
<1>9. ASSUME NEW o \in Orders, UNCHANGED <<intent, credited, refund>>, SameRefunded,
             ClaimsEndAt(o) \/ \E q \in Requests : ClaimEnds(q, o)
      PROVE  StepMatches
  BY <1>0, <1>1, <1>9, BooksMove, EndsMatch DEF StepMatches, SameBooks
<1>10. ASSUME NEW i \in Intents, ConfirmPayment(i) \/ PaymentFailed(i) PROVE StepMatches
  <2>0. PICK o \in Orders, payment \in {"PAID", "UNPAID"} :
            \E status : Writes(o, payment, status, order[o].intent)
    BY <1>0, <1>10, EventWrites
  <2>1. PICK status : Writes(o, payment, status, order[o].intent)
    BY <2>0
  <2>2. UNCHANGED <<intent, credited, refund>> /\ SameClaims
    BY <1>0, <1>10, OthersKeepClaims DEF ConfirmPayment, PaymentFailed, gatewayVars
  <2>3. RefundsAt(o) /\ ~Refunded(o)'
    BY <2>1, BooksMove
  <2> QED
    BY <1>8, <2>2, <2>3
<1>11. ASSUME NEW q \in Requests, RenewIntent(q) \/ \E i \in Intents : CreateIntent(q, i)
      PROVE  StepMatches
  <2>1. SameReturns /\ SameClaims
    BY <1>0, <1>11, NewIntentsReturnNothing, RequestClaims
  <2>2. UNCHANGED <<credited, order, refund>>
    BY <1>11 DEF RenewIntent, CreateIntent
  <2> QED
    BY <1>2, <2>1, <2>2 DEF StepMatches, SameMoney
<1>12. ASSUME NEW q \in Requests, KeepIntent(q) PROVE StepMatches
  <2>1. /\ request[q].o \in Orders /\ UNCHANGED <<intent, credited, refund>> /\ SameClaims
        /\ Writes(request[q].o, order[request[q].o].payment, order[request[q].o].status, request[q].intent)
    BY <1>0, <1>12, RequestWrites, RequestClaims DEF KeepIntent, gatewayVars
  <2> PICK o \in Orders : o = request[q].o
    BY <2>1
  <2>2. SameBooks
    BY <2>1, BooksMove DEF SameBooks
  <2> QED
    BY <1>6, <2>1, <2>2
<1>13. ASSUME NEW q \in Requests, Settle(q) PROVE StepMatches
  <2>1. request[q].o \in Orders /\ UNCHANGED <<intent, credited, refund>> /\ SameClaims
    BY <1>0, <1>13, RequestWrites, RequestClaims DEF Settle, gatewayVars
  <2> PICK o \in Orders : o = request[q].o
    BY <2>1
  <2>2. CASE UNCHANGED order
    BY <1>2, <1>6, <2>1, <2>2
  <2>3. CASE Writes(o, "REFUNDED", "REFUNDED", order[o].intent)
    <3>1. RefundsAt(o)
      BY <2>3, BooksMove
    <3>2. Returned(o)
      BY <1>0, <1>13 DEF Settle, RequestsFit, Fits
    <3> QED
      BY <1>8, <2>1, <3>1, <3>2
  <2> QED
    BY <1>0, <1>13, <2>2, <2>3, RequestWrites
<1>14. ASSUME NEW q \in Requests, ClaimOrder(q) PROVE StepMatches
  <2>1. request[q].o \in Orders /\ UNCHANGED <<intent, credited, refund>>
    BY <1>0, <1>14, RequestWrites DEF ClaimOrder, gatewayVars
  <2> PICK o \in Orders : o = request[q].o
    BY <2>1
  <2>2. CASE UNCHANGED order /\ SameClaims
    BY <1>2, <1>6, <2>1, <2>2
  <2>3. CASE /\ order[o].status \in Refundable /\ order[o].payment = "PAID"
             /\ Writes(o, order[o].payment, "CANCELLING", order[o].intent)
    <3>1. SameBooks
      BY <2>1, <2>3, BooksMove DEF SameBooks
    <3>2. \A p \in Requests : ~Standing(p, o)
      BY <1>0, <2>3 DEF ClaimsHold, Refundable
    <3>3. ClaimBegins(q, o) \/ SameClaims
      BY <1>0, <1>14, RequestClaims
    <3> QED
      BY <1>1, <1>6, <2>1, <3>1, <3>2, <3>3 DEF StepMatches
  <2>4. UNCHANGED order /\ Reply(q) => SameClaims
    <3>1. Reply(q) => ~Goto(q, "record")
      <4>1. Goto(q, "record") => request'[q].op = "record"
        BY <1>0, <1>14, RequestGoes DEF ClaimOrder, ClaimOps
      <4>2. Reply(q) => request'[q] = Idle
        BY <1>0, RequestEnds
      <4> QED
        BY <4>1, <4>2, IdleTyped
    <3> QED
      BY <1>0, <1>14, <3>1, RequestClaims
  <2> QED
    BY <1>0, <1>14, <2>2, <2>3, <2>4, RequestWrites
<1>15. ASSUME NEW q \in Requests, RecordRefund(q) PROVE StepMatches
  <2>1. request[q].o \in Orders /\ UNCHANGED <<intent, credited, order>> /\ SameClaims
    BY <1>0, <1>15, RefundRecorded, RequestClaims DEF RecordRefund, gatewayVars
  <2> PICK o \in Orders : o = request[q].o
    BY <2>1
  <2>2. refund'[o].status = "PROCESSING" /\ \A p \in Orders : p # o => refund'[p] = refund[p]
    BY <1>0, <1>15, RefundRecorded
  <2>3. ~Completed(o)'
    BY <2>2 DEF Completed
  <2> QED
    BY <1>7, <2>1, <2>2, <2>3
<1>16. ASSUME NEW q \in Requests, CallGateway(q) PROVE StepMatches
  <2>1. UNCHANGED <<credited, order, refund>> /\ SameClaims
    BY <1>0, <1>16, RequestClaims DEF CallGateway
  <2>2. request[q].intent \in Intents
    BY <1>0, <1>16, RequestTyped DEF CallGateway, ClaimOps, ClaimRequest
  <2> QED
    BY <1>2, <1>4, <1>6, <1>16, <2>1, <2>2 DEF CallGateway
<1>17. ASSUME NEW q \in Requests, CompleteRefund(q) PROVE StepMatches
  <2>1. /\ request[q].o \in Orders /\ UNCHANGED <<intent, credited, order>>
        /\ refund[request[q].o] # NoRow /\ Returned(request[q].o)
    BY <1>0, <1>17, RequestTyped DEF CompleteRefund, RequestsFit, Fits, ClaimOps, ClaimRequest, gatewayVars
  <2> PICK o \in Orders : o = request[q].o
    BY <2>1
  <2>2. \/ UNCHANGED refund
        \/ refund' = [refund EXCEPT ![o].status = "COMPLETED", ![o].late = FALSE]
    BY <1>17 DEF CompleteRefund
  <2>3. /\ \A p \in Orders : p # o => refund'[p] = refund[p]
        /\ SameCompleted \/ (CompletesAt(o) /\ Completed(o)')
    <3>1. CASE UNCHANGED refund
      BY <3>1, BooksMove
    <3>2. CASE refund' = [refund EXCEPT ![o].status = "COMPLETED", ![o].late = FALSE]
      <4>1. refund'[o].status = "COMPLETED" /\ \A p \in Orders : p # o => refund'[p] = refund[p]
        BY <1>0, <2>1, <3>2, RefundClosed
      <4> QED
        BY <4>1, BooksMove DEF Completed
    <3> QED
      BY <2>2, <3>1, <3>2
  <2>4. CASE SameClaims
    BY <1>7, <2>1, <2>3, <2>4
  <2>5. CASE ClaimEnds(q, o)
    <3>1. \/ SameClaims
          \/ \E p \in Requests : ClaimEnds(p, o) /\ {r \in Requests : Standing(r, o)} = {p}
      BY <1>0, <2>5, EndsMatch
    <3>2. SameMoney /\ SameRefunded
      BY <1>1, <2>1, BooksMove
    <3> QED
      BY <2>1, <2>3, <2>4, <3>1, <3>2 DEF StepMatches
  <2> QED
    BY <1>0, <1>17, <2>4, <2>5, RequestClaims
<1>18. ASSUME NEW q \in Requests, RollBackClaim(q) PROVE StepMatches
  <2>1. request[q].o \in Orders /\ UNCHANGED <<intent, credited, refund>>
    BY <1>0, <1>18, RequestWrites DEF RollBackClaim, gatewayVars
  <2> PICK o \in Orders : o = request[q].o
    BY <2>1
  <2>2. ClaimsEndAt(o) \/ ClaimEnds(q, o)
    BY <1>0, <1>18, RequestClaims DEF ClaimsEndAt
  <2>3. SameRefunded
    <3>1. UNCHANGED order \/ Writes(o, order[o].payment, request[q].prior, order[o].intent)
      BY <1>0, <1>18, RequestWrites
    <3> QED
      BY <3>1, BooksMove
  <2> QED
    BY <1>9, <2>1, <2>2, <2>3
<1>19. ASSUME NEW q \in Requests, FailRefund(q) PROVE StepMatches
  <2>1. /\ request[q].o \in Orders /\ UNCHANGED <<intent, credited, order>> /\ SameClaims
        /\ refund[request[q].o] # NoRow
    BY <1>0, <1>19, RequestTyped, RequestClaims
      DEF FailRefund, RequestsFit, Fits, ClaimOps, ClaimRequest, gatewayVars
  <2> PICK o \in Orders : o = request[q].o
    BY <2>1
  <2>2. refund' = [refund EXCEPT ![o].status = "FAILED", ![o].late = FALSE]
    BY <1>19 DEF FailRefund
  <2>3. refund'[o].status = "FAILED" /\ \A p \in Orders : p # o => refund'[p] = refund[p]
    BY <1>0, <2>1, <2>2, RefundClosed
  <2>4. ~Completed(o)'
    BY <2>3 DEF Completed
  <2> QED
    BY <1>7, <2>1, <2>3, <2>4
<1>20. ASSUME NEW q \in Requests, Abort(q) PROVE StepMatches
  <2>1. UNCHANGED <<intent, credited, order, refund>>
    BY <1>20 DEF Abort, gatewayVars
  <2>2. SameRefunded
    BY <2>1, BooksMove
  <2>3. SameClaims \/ (request[q].o \in Orders /\ ClaimEnds(q, request[q].o))
    BY <1>0, <1>20, RequestClaims
  <2> QED
    BY <1>2, <1>6, <1>9, <2>1, <2>2, <2>3
<1>21. ASSUME NEW q \in Requests, NEW o \in Orders,
              ReadToCreate(q, o) \/ ReadToRetry(q, o) \/ ReadToSettle(q, o) \/ ReadToRefund(q, o)
       PROVE  StepMatches
  <2>1. UNCHANGED <<intent, credited, order, refund>>
    BY <1>21 DEF ReadToCreate, ReadToRetry, ReadToSettle, ReadToRefund, gatewayVars
  <2> QED
    BY <1>0, <1>2, <1>6, <1>21, <2>1, RequestClaims
<1>22. ASSUME NEW o \in Orders, Elsewhere(o) PROVE StepMatches
  <2>1. ASSUME NEW status \in OrderStatus, UpdateOrderStatus(o, status) PROVE StepMatches
    <3>1. UNCHANGED <<intent, credited, refund>> /\ ClaimsEndAt(o)
      BY <1>0, <2>1, ClaimsOverwritten DEF UpdateOrderStatus, gatewayVars
    <3>2. SameRefunded
      BY <1>0, <2>1, ElsewhereWrites, BooksMove
    <3> QED
      BY <1>9, <3>1, <3>2
  <2>2. ASSUME RefundOrderItem(o) PROVE StepMatches
    <3>1. /\ UNCHANGED <<intent, refund>> /\ credited' = credited \cup {o}
          /\ SameClaims /\ SameReturns
      BY <1>0, <2>2, OthersKeepClaims DEF RefundOrderItem, gatewayVars, SameReturns, Returned, Intents
    <3>2. RefundsAt(o) /\ SameCompleted
      BY <1>0, <2>2, <3>1, ElsewhereWrites, BooksMove
    <3> QED
      BY <3>1, <3>2 DEF StepMatches
  <2> QED
    BY <1>22, <2>1, <2>2 DEF Elsewhere
<1>23. ASSUME NEW w \in Workers, NEW r \in Stuck, RetryRefund(w, r) PROVE StepMatches
  <2>1. UNCHANGED <<credited, order, refund>> /\ SameClaims /\ r.intent \in Intents
    BY <1>0, <1>23, OthersKeepClaims DEF RetryRefund, Work, Stuck
  <2>2. \/ UNCHANGED intent
        \/ /\ intent[r.intent].status = "charged"
           /\ intent' = [intent EXCEPT ![r.intent].status = "returned"]
    BY <1>23 DEF RetryRefund, gatewayVars
  <2> QED
    BY <1>2, <1>4, <1>6, <2>1, <2>2
<1>24. ASSUME NEW w \in Workers, WriteOutcome(w) PROVE StepMatches
  <2>1. UNCHANGED <<intent, credited, order>> /\ SameClaims
    BY <1>0, <1>24, OthersKeepClaims DEF WriteOutcome, Work, gatewayVars
  <2>2. PICK o \in Orders :
            /\ o = worker[w].at.o
            /\ \/ refund'[o].status = refund[o].status
               \/ worker[w].op = "made" /\ refund'[o].status = "COMPLETED"
            /\ \A p \in Orders : p # o => refund'[p] = refund[p]
    BY <1>0, <1>24, OutcomeWritten
  <2>3. Completed(o)' => Returned(o)
    BY <1>0, <2>2 DEF Completed, BooksFollowGateway
  <2> QED
    BY <1>7, <2>1, <2>2, <2>3
<1>25. ASSUME NEW w \in Workers, MarkExhausted(w) PROVE StepMatches
  <2>1. UNCHANGED <<intent, credited, order>> /\ SameClaims
    BY <1>0, <1>25, OthersKeepClaims DEF MarkExhausted, Work, gatewayVars
  <2>2. \A o \in Orders : refund'[o].status = "COMPLETED" <=> refund[o].status = "COMPLETED"
    BY <1>0, <1>25, ExhaustedMarked
  <2>3. SameBooks
    BY <2>1, <2>2, BooksMove DEF SameBooks, SameCompleted, Completed
  <2> QED
    BY <1>6, <2>1, <2>3
<1>26. ASSUME NEW o \in Orders, GrowsLate(o) PROVE StepMatches
  <2>1. UNCHANGED <<intent, credited, order>> /\ SameClaims
    BY <1>0, <1>26, OthersKeepClaims DEF GrowsLate, gatewayVars
  <2>2. refund'[o].status = refund[o].status /\ \A p \in Orders : p # o => refund'[p] = refund[p]
    BY <1>0, <1>26, RefundAges
  <2>3. Completed(o)' => Returned(o)
    BY <1>0, <2>2 DEF Completed, BooksFollowGateway
  <2> QED
    BY <1>7, <2>1, <2>2, <2>3
<1>27. ASSUME (\E w \in Workers : SelectStuck(w) \/ Fail(w)) \/ UNCHANGED vars PROVE StepMatches
  <2>1. UNCHANGED <<intent, credited, order, refund>> /\ SameClaims
    BY <1>0, <1>27, OthersKeepClaims DEF SelectStuck, Fail, Work, vars, gatewayVars
  <2> QED
    BY <1>2, <1>6, <2>1
<1> QED
  BY <1>3, <1>5, <1>10, <1>11, <1>12, <1>13, <1>14, <1>15, <1>16, <1>17, <1>18, <1>19, <1>20, <1>21,
     <1>22, <1>23, <1>24, <1>25, <1>26, <1>27 DEF Next, Serve, Work, Elsewhere

\* The intent of an order, a request or a job stays one of that order.
LEMMA BelongKept ==
    ASSUME PaymentsInv, [Next]_vars, \A i \in Intents : Kept(i)
    PROVE  IntentsBelong'
<1>0. TypeOK /\ IntentsBelong /\ RequestsFit
  BY DEF PaymentsInv
<1>1. ASSUME NEW o \in Orders, NEW i, IntentOf(i, o) PROVE IntentOf(i, o)'
  BY <1>1 DEF IntentOf, Kept, Intents
<1>2. ASSUME \A o \in Orders : order'[o].intent = order[o].intent PROVE IntentsBelong'
  <2> SUFFICES ASSUME NEW o \in Orders, order'[o].intent # None
               PROVE  IntentOf(order[o].intent, o)'
    BY DEF IntentsBelong, None
  <2> PICK i : i = order[o].intent
    OBVIOUS
  <2>1. IntentOf(i, o)'
    BY <1>0, <1>1, <1>2 DEF IntentsBelong
  <2> QED
    BY <1>2, <2>1 DEF IntentOf
<1>3. ASSUME NEW o \in Orders, NEW payment, NEW status, Writes(o, payment, status, order[o].intent)
      PROVE  IntentsBelong'
  BY <1>2, <1>3 DEF Writes
<1>4. ASSUME NEW i \in Intents, ConfirmPayment(i) \/ PaymentFailed(i) PROVE IntentsBelong'
  BY <1>0, <1>3, <1>4, EventWrites
<1>5. ASSUME NEW q \in Requests, Settle(q) \/ ClaimOrder(q) \/ RollBackClaim(q) PROVE IntentsBelong'
  BY <1>0, <1>2, <1>3, <1>5, RequestWrites
<1>6. ASSUME NEW q \in Requests, KeepIntent(q) PROVE IntentsBelong'
  <2>1. PICK o \in Orders, i \in Intents : o = request[q].o /\ i = request[q].intent
    BY <1>0, <1>6, RequestWrites
  <2>2. order'[o].intent = i /\ \A p \in Orders : p # o => order'[p] = order[p]
    BY <1>0, <1>6, <2>1, RequestWrites DEF Writes
  <2>3. IntentOf(i, o)'
    BY <1>0, <1>1, <1>6, <2>1 DEF KeepIntent, RequestsFit, Fits
  <2> SUFFICES ASSUME NEW x \in Orders, order'[x].intent # None
               PROVE  IntentOf(order[x].intent, x)'
    BY DEF IntentsBelong, None
  <2>4. CASE x = o
    BY <2>2, <2>3, <2>4 DEF IntentOf
  <2>5. CASE x # o
    <3> PICK j : j = order[x].intent
      OBVIOUS
    <3>1. IntentOf(j, x)'
      BY <1>0, <1>1, <2>2, <2>5 DEF IntentsBelong
    <3> QED
      BY <2>2, <2>5, <3>1 DEF IntentOf
  <2> QED
    BY <2>4, <2>5
<1>7. ASSUME NEW o \in Orders, Elsewhere(o) PROVE IntentsBelong'
  BY <1>0, <1>3, <1>7, ElsewhereWrites DEF Elsewhere
<1>8. ASSUME NEW q \in Requests,
             \/ \E i \in Intents : CreateIntent(q, i)
             \/ RenewIntent(q) \/ RecordRefund(q) \/ CallGateway(q) \/ CompleteRefund(q)
             \/ FailRefund(q) \/ Abort(q)
             \/ \E o \in Orders : \/ ReadToCreate(q, o) \/ ReadToRetry(q, o)
                                  \/ ReadToSettle(q, o) \/ ReadToRefund(q, o)
      PROVE  IntentsBelong'
  BY <1>2, <1>8 DEF CreateIntent, RenewIntent, RecordRefund, CallGateway, CompleteRefund,
       FailRefund, Abort, ReadToCreate, ReadToRetry, ReadToSettle, ReadToRefund
<1>9. ASSUME \/ \E i \in Intents : CustomerPays(i) \/ DashboardRefund(i)
             \/ \E w \in Workers : Work(w) \/ Fail(w)
             \/ \E o \in Orders : GrowsLate(o)
             \/ UNCHANGED vars
      PROVE  IntentsBelong'
  BY <1>2, <1>9 DEF CustomerPays, DashboardRefund, Work, SelectStuck, RetryRefund, WriteOutcome,
       MarkExhausted, Fail, GrowsLate, vars
<1> QED
  BY <1>4, <1>5, <1>6, <1>8, <1>9, <1>7 DEF Next, Serve, Elsewhere

\* A row is created only by a request that has claimed its order.
LEMMA FollowKept ==
    ASSUME PaymentsInv, [Next]_vars,
           \A o \in Orders : order[o].intent # None => order'[o].intent # None
    PROVE  RefundsFollowIntents'
<1>0. TypeOK /\ RefundsFollowIntents /\ RequestsFit /\ PickedRows
  BY DEF PaymentsInv
<1>1. ASSUME \A o \in Orders : refund'[o] # NoRow => refund[o] # NoRow PROVE RefundsFollowIntents'
  BY <1>0, <1>1 DEF RefundsFollowIntents, None, NoRow
<1>2. ASSUME NEW q \in Requests, RecordRefund(q) PROVE RefundsFollowIntents'
  <2>1. PICK o \in Orders : o = request[q].o
    BY <1>0, <1>2, RefundRecorded
  <2>2. \A p \in Orders : p # o => refund'[p] = refund[p]
    BY <1>0, <1>2, <2>1, RefundRecorded
  <2>3. order[o].intent # None
    BY <1>0, <1>2, <2>1 DEF RecordRefund, RequestsFit, Fits
  <2> QED
    BY <1>0, <2>2, <2>3 DEF RefundsFollowIntents, None, NoRow
<1>3. ASSUME NEW q \in Requests, CompleteRefund(q) \/ FailRefund(q) PROVE RefundsFollowIntents'
  <2>1. request[q].op \in {"complete", "fail"} /\ request[q].o \in Orders
    BY <1>0, <1>3, RequestTyped DEF CompleteRefund, FailRefund, ClaimOps, ClaimRequest
  <2>2. refund[request[q].o] # NoRow
    BY <1>0, <2>1 DEF RequestsFit, Fits
  <2>3. \/ UNCHANGED refund
        \/ \E s \in {"COMPLETED", "FAILED"} :
              refund' = [refund EXCEPT ![request[q].o].status = s, ![request[q].o].late = FALSE]
    BY <1>3 DEF CompleteRefund, FailRefund
  <2>4. \A o \in Orders : o # request[q].o => refund'[o] = refund[o]
    BY <1>0, <2>1, <2>2, <2>3, RefundClosed
  <2> QED
    BY <1>1, <2>2, <2>4
<1>4. ASSUME NEW w \in Workers, WriteOutcome(w) PROVE RefundsFollowIntents'
  BY <1>0, <1>1, <1>4, OutcomeWritten
<1>5. ASSUME NEW w \in Workers, MarkExhausted(w) PROVE RefundsFollowIntents'
  BY <1>0, <1>1, <1>5, ExhaustedMarked
<1>6. ASSUME NEW o \in Orders, GrowsLate(o) PROVE RefundsFollowIntents'
  BY <1>0, <1>1, <1>6, RefundAges
<1>7. ASSUME NEW q \in Requests,
             \/ \E i \in Intents : CreateIntent(q, i)
             \/ RenewIntent(q) \/ KeepIntent(q) \/ Settle(q) \/ ClaimOrder(q) \/ CallGateway(q)
             \/ RollBackClaim(q) \/ Abort(q)
             \/ \E o \in Orders : \/ ReadToCreate(q, o) \/ ReadToRetry(q, o)
                                  \/ ReadToSettle(q, o) \/ ReadToRefund(q, o)
      PROVE  RefundsFollowIntents'
  BY <1>1, <1>7 DEF CreateIntent, RenewIntent, KeepIntent, Settle, ClaimOrder, CallGateway,
       RollBackClaim, Abort, ReadToCreate, ReadToRetry, ReadToSettle, ReadToRefund
<1>8. ASSUME \/ \E i \in Intents : \/ CustomerPays(i) \/ DashboardRefund(i)
                                   \/ ConfirmPayment(i) \/ PaymentFailed(i)
             \/ \E w \in Workers : SelectStuck(w) \/ Fail(w)
             \/ \E w \in Workers, r \in Stuck : RetryRefund(w, r)
             \/ \E o \in Orders : Elsewhere(o)
             \/ UNCHANGED vars
      PROVE  RefundsFollowIntents'
  BY <1>1, <1>8 DEF CustomerPays, DashboardRefund, ConfirmPayment, PaymentFailed, SelectStuck,
       Fail, RetryRefund, Elsewhere, UpdateOrderStatus, RefundOrderItem, vars
<1> QED
  BY <1>2, <1>3, <1>4, <1>5, <1>6, <1>7, <1>8 DEF Next, Serve, Work, Elsewhere

\* An answer of the gateway, and a run that has heard one, stand for money that
\* went back.
LEMMA AnswersKept ==
    ASSUME PaymentsInv, [Next]_vars, \A i \in Intents : Kept(i)
    PROVE  /\ answered' \subseteq Orders \X (1..MaxCount)
           /\ \A k \in answered' : Returned(k[1])'
           /\ \A w \in Workers : worker'[w].op = "made" => Returned(worker[w].at.o)'
<1> DEFINE Goal == /\ answered' \subseteq Orders \X (1..MaxCount)
                   /\ \A k \in answered' : Returned(k[1])'
                   /\ \A w \in Workers : worker'[w].op = "made" => Returned(worker[w].at.o)'
<1>0. TypeOK /\ PickedRows /\ BooksFollowGateway /\ answered \subseteq Orders \X (1..MaxCount)
  BY DEF PaymentsInv, TypeOK
<1>1. \A o : Returned(o) => Returned(o)'
  BY <1>0, ReturnedStays
<1>2. \A k \in answered : Returned(k[1])'
  BY <1>0, <1>1 DEF BooksFollowGateway
<1>3. ASSUME NEW w \in Workers, worker'[w] = worker[w], worker'[w].op = "made"
      PROVE  Returned(worker[w].at.o)'
  <2> PICK o : o = worker[w].at.o
    OBVIOUS
  <2>1. Returned(o)'
    BY <1>0, <1>1, <1>3 DEF BooksFollowGateway
  <2> QED
    BY <1>3, <2>1 DEF Returned
<1>4. ASSUME UNCHANGED <<answered, worker>> PROVE Goal
  BY <1>0, <1>2, <1>3, <1>4
<1>5. ASSUME UNCHANGED answered, NEW w \in Workers, NEW r, SetWorker(w, r), r.op # "made"
      PROVE  Goal
  <2>1. worker'[w] = r /\ \A v \in Workers : v # w => worker'[v] = worker[v]
    BY <1>0, <1>5, WorkerSet
  <2> QED
    BY <1>0, <1>2, <1>3, <1>5, <2>1
<1>6. ASSUME NEW w \in Workers, NEW r \in Stuck, RetryRefund(w, r) PROVE Goal
  <2> DEFINE next(op) == [op |-> op, todo |-> worker[w].todo \ {r}, at |-> r]
             key == <<r.o, r.count + 1>>
  <2>1. /\ worker[w] \in BatchRun /\ r \in worker[w].todo
    BY <1>0, <1>6, WorkerTyped DEF RetryRefund
  <2>2. Picked(r)
    BY <1>0, <2>1 DEF PickedRows, Rows, BatchRun, Idle
  <2>3. r.o \in Orders /\ r.intent \in Intents /\ IntentOf(r.intent, r.o) /\ r.count + 1 \in 1..MaxCount
    BY <2>2, RetriesAssumption DEF Picked, Stuck
  <2>4. key \in Orders \X (1..MaxCount) /\ key[1] = r.o
    BY <2>3
  <2>5. \A op : next(op).op = op /\ next(op).at = r
    OBVIOUS
  <2>6. \/ key \in answered /\ UNCHANGED gatewayVars /\ SetWorker(w, next("made"))
        \/ /\ intent[r.intent].status = "charged"
           /\ intent' = [intent EXCEPT ![r.intent].status = "returned"]
           /\ answered' = answered \cup {key}
           /\ \E op \in {"made", "refused"} : SetWorker(w, next(op))
        \/ UNCHANGED gatewayVars /\ SetWorker(w, next("refused"))
    BY <1>6 DEF RetryRefund
  <2> HIDE DEF next, key
  <2>7. ASSUME NEW op, SetWorker(w, next(op)), Returned(r.o)'
        PROVE  \A v \in Workers : worker'[v].op = "made" => Returned(worker[v].at.o)'
    <3>1. worker'[w] = next(op) /\ \A v \in Workers : v # w => worker'[v] = worker[v]
      BY <1>0, <2>7, WorkerSet
    <3>2. Returned(worker[w].at.o)'
      BY <2>5, <2>7, <3>1 DEF Returned
    <3> QED
      BY <1>3, <3>1, <3>2
  <2>8. CASE key \in answered /\ UNCHANGED gatewayVars /\ SetWorker(w, next("made"))
    <3>1. Returned(r.o)'
      BY <1>2, <2>4, <2>8
    <3> QED
      BY <1>0, <1>2, <2>7, <2>8, <3>1 DEF gatewayVars
  <2>9. CASE /\ intent[r.intent].status = "charged"
             /\ intent' = [intent EXCEPT ![r.intent].status = "returned"]
             /\ answered' = answered \cup {key}
             /\ \E op \in {"made", "refused"} : SetWorker(w, next(op))
    <3>1. Returned(r.o)'
      BY <1>0, <2>3, <2>9, IntentMoves DEF IntentOf, Returned, Intents
    <3> QED
      BY <1>0, <1>2, <2>4, <2>7, <2>9, <3>1
  <2>10. CASE UNCHANGED gatewayVars /\ SetWorker(w, next("refused"))
    BY <1>5, <2>5, <2>10 DEF gatewayVars
  <2> QED
    BY <2>6, <2>8, <2>9, <2>10
<1>7. ASSUME NEW w \in Workers, SelectStuck(w) \/ WriteOutcome(w) PROVE Goal
  <2>1. UNCHANGED answered /\ \E todo : SetWorker(w, [op |-> "batch", todo |-> todo])
    BY <1>7 DEF SelectStuck, WriteOutcome, gatewayVars
  <2>2. \A todo : [op |-> "batch", todo |-> todo].op # "made"
    OBVIOUS
  <2> QED
    BY <1>5, <2>1, <2>2
<1>8. ASSUME NEW w \in Workers, MarkExhausted(w) \/ Fail(w) PROVE Goal
  <2>1. /\ UNCHANGED answered
        /\ SetWorker(w, Idle) \/ SetWorker(w, [op |-> "batch", todo |-> worker[w].todo])
    BY <1>8 DEF MarkExhausted, Fail, gatewayVars
  <2>2. Idle.op # "made" /\ [op |-> "batch", todo |-> worker[w].todo].op # "made"
    BY IdleTyped
  <2> QED
    BY <1>5, <2>1, <2>2
<1>9. ASSUME NEW q \in Requests,
             \/ Serve(q)
             \/ \E o \in Orders : \/ ReadToCreate(q, o) \/ ReadToRetry(q, o)
                                  \/ ReadToSettle(q, o) \/ ReadToRefund(q, o)
      PROVE  Goal
  BY <1>4, <1>9 DEF Serve, CreateIntent, RenewIntent, KeepIntent, Settle, ClaimOrder, RecordRefund,
       CallGateway, CompleteRefund, RollBackClaim, FailRefund, Abort, ReadToCreate, ReadToRetry,
       ReadToSettle, ReadToRefund, gatewayVars
<1>10. ASSUME \/ \E i \in Intents : \/ CustomerPays(i) \/ DashboardRefund(i)
                                    \/ ConfirmPayment(i) \/ PaymentFailed(i)
              \/ \E o \in Orders : GrowsLate(o) \/ Elsewhere(o)
              \/ UNCHANGED vars
       PROVE  Goal
  BY <1>4, <1>10 DEF CustomerPays, DashboardRefund, ConfirmPayment, PaymentFailed, GrowsLate,
       Elsewhere, UpdateOrderStatus, RefundOrderItem, gatewayVars, vars
<1> HIDE DEF Goal
<1>11. Goal
  BY <1>6, <1>7, <1>8, <1>9, <1>10 DEF Next, Work, Elsewhere
<1> QED
  BY <1>11 DEF Goal

\* Faults of the gateway stay within their bound.
LEMMA FaultsCounted ==
    ASSUME TypeOK, [Next]_vars
    PROVE  faults' \in 0..MaxFaults
<1>1. faults \in 0..MaxFaults
  BY DEF TypeOK
<1>2. ASSUME NEW w \in Workers, Fail(w) PROVE faults' \in 0..MaxFaults
  BY <1>1, <1>2, RetriesAssumption DEF Fail
<1>3. ASSUME NEW q \in Requests,
             \/ Serve(q)
             \/ \E o \in Orders : \/ ReadToCreate(q, o) \/ ReadToRetry(q, o)
                                  \/ ReadToSettle(q, o) \/ ReadToRefund(q, o)
      PROVE  UNCHANGED faults
  BY <1>3 DEF Serve, CreateIntent, RenewIntent, KeepIntent, Settle, ClaimOrder, RecordRefund,
       CallGateway, CompleteRefund, RollBackClaim, FailRefund, Abort, ReadToCreate, ReadToRetry,
       ReadToSettle, ReadToRefund
<1>4. ASSUME \/ \E i \in Intents : \/ CustomerPays(i) \/ DashboardRefund(i)
                                   \/ ConfirmPayment(i) \/ PaymentFailed(i)
             \/ \E w \in Workers : Work(w)
             \/ \E o \in Orders : GrowsLate(o) \/ Elsewhere(o)
             \/ UNCHANGED vars
      PROVE  UNCHANGED faults
  BY <1>4 DEF CustomerPays, DashboardRefund, ConfirmPayment, PaymentFailed, Work, SelectStuck,
       RetryRefund, WriteOutcome, MarkExhausted, GrowsLate, Elsewhere, UpdateOrderStatus,
       RefundOrderItem, vars
<1> QED
  BY <1>1, <1>2, <1>3, <1>4 DEF Next, Elsewhere

\* Orders are credited one by one.
LEMMA CreditsKept ==
    ASSUME TypeOK, [Next]_vars
    PROVE  credited' \subseteq Orders /\ credited \subseteq credited'
<1>1. credited \subseteq Orders
  BY DEF TypeOK
<1>2. ASSUME NEW o \in Orders, Elsewhere(o) PROVE credited' \in {credited, credited \cup {o}}
  BY <1>2 DEF Elsewhere, UpdateOrderStatus, RefundOrderItem
<1>3. ASSUME NEW q \in Requests,
             \/ Serve(q)
             \/ \E o \in Orders : \/ ReadToCreate(q, o) \/ ReadToRetry(q, o)
                                  \/ ReadToSettle(q, o) \/ ReadToRefund(q, o)
      PROVE  UNCHANGED credited
  BY <1>3 DEF Serve, CreateIntent, RenewIntent, KeepIntent, Settle, ClaimOrder, RecordRefund,
       CallGateway, CompleteRefund, RollBackClaim, FailRefund, Abort, ReadToCreate, ReadToRetry,
       ReadToSettle, ReadToRefund
<1>4. ASSUME \/ \E i \in Intents : \/ CustomerPays(i) \/ DashboardRefund(i)
                                   \/ ConfirmPayment(i) \/ PaymentFailed(i)
             \/ \E w \in Workers : Work(w) \/ Fail(w)
             \/ \E o \in Orders : GrowsLate(o)
             \/ UNCHANGED vars
      PROVE  UNCHANGED credited
  BY <1>4 DEF CustomerPays, DashboardRefund, ConfirmPayment, PaymentFailed, Work, SelectStuck,
       RetryRefund, WriteOutcome, MarkExhausted, Fail, GrowsLate, vars
<1> QED
  BY <1>1, <1>2, <1>3, <1>4 DEF Next, Elsewhere

-----------------------------------------------------------------------------
\* The invariant and what follows from it.

\* The invariant holds of an empty gateway and unpaid orders.
LEMMA PaymentsInvStarts == Init => PaymentsInv
<1> SUFFICES ASSUME Init PROVE PaymentsInv
  OBVIOUS
<1>1. /\ \A o \in Orders : order[o].status = "PENDING" /\ order[o].payment = "UNPAID"
                            /\ order[o].intent = None
      /\ \A o \in Orders : refund[o] = NoRow /\ refund[o].status = "NONE"
      /\ \A i \in Intents : intent[i] = NoRow
      /\ \A q \in Requests : request[q].op = "idle"
      /\ \A w \in Workers : worker[w] = Idle /\ worker[w].op = "idle"
      /\ answered = {} /\ reconciled = {} /\ credited = {}
  BY DEF Init, NoRow, Idle
<1>2. TypeOK
  <2>1. order \in [Orders -> Order]
    BY DEF Init, Order, OrderStatus, PaymentStatus
  <2>2. NoRow \in Refund /\ NoRow \in Intent /\ Idle \in Request /\ Idle \in Worker
    BY DEF Refund, Intent, Request, Worker
  <2>3. /\ refund \in [Orders -> Refund] /\ intent \in [Intents -> Intent]
        /\ request \in [Requests -> Request] /\ worker \in [Workers -> Worker]
    BY <2>2 DEF Init
  <2>4. faults \in 0..MaxFaults
    BY RetriesAssumption DEF Init
  <2> QED
    BY <1>1, <2>1, <2>3, <2>4 DEF TypeOK
<1>3. IntentsInARow
  <2>1. 1 \in 1..(MaxIntents + 1) /\ \A j \in Intents : ~(j < 1)
    BY RetriesAssumption DEF Intents
  <2> QED
    BY <1>1, <2>1 DEF IntentsInARow
<1>4. IntentsBelong /\ RefundsFollowIntents /\ RequestsFit
  BY <1>1 DEF IntentsBelong, RefundsFollowIntents, RequestsFit, Fits
<1>5. PickedRows
  BY <1>1 DEF PickedRows, Rows
<1>6. ClaimsHold
  BY <1>1 DEF ClaimsHold, Standing, Claimed
<1>7. BooksFollowGateway
  BY <1>1 DEF BooksFollowGateway, Completed
<1> QED
  BY <1>2, <1>3, <1>4, <1>5, <1>6, <1>7 DEF PaymentsInv

\* Every step keeps the invariant.
LEMMA PaymentsInvKept == PaymentsInv /\ [Next]_vars => PaymentsInv'
<1> SUFFICES ASSUME PaymentsInv, [Next]_vars PROVE PaymentsInv'
  OBVIOUS
<1>0. TypeOK /\ IntentsInARow /\ IntentsBelong /\ RefundsFollowIntents /\ RequestsFit /\ PickedRows
      /\ ClaimsHold /\ BooksFollowGateway
  BY DEF PaymentsInv
<1>1. intent' \in [Intents -> Intent] /\ IntentsInARow' /\ \A i \in Intents : Kept(i)
  BY <1>0, IntentsKept
<1>2. refund' \in [Orders -> Refund] /\ \A o \in Orders : refund[o] # NoRow => refund'[o] # NoRow
  BY <1>0, RefundsKept
<1>3. order' \in [Orders -> Order] /\ \A o \in Orders : order[o].intent # None => order'[o].intent # None
  BY <1>0, OrdersKept
<1>4. worker' \in [Workers -> Worker] /\ PickedRows'
  BY <1>0, <1>1, <1>2, RunsKept
<1>5. request' \in [Requests -> Request] /\ RequestsFit'
  BY <1>1, <1>2, <1>3, RequestsKept
<1>6. ClaimsHold' /\ reconciled' \subseteq Orders
  BY <1>0, ClaimsKept
<1>7. IntentsBelong' /\ RefundsFollowIntents'
  BY <1>1, <1>3, BelongKept, FollowKept
<1>8. /\ answered' \subseteq Orders \X (1..MaxCount)
      /\ \A k \in answered' : Returned(k[1])'
      /\ \A w \in Workers : worker'[w].op = "made" => Returned(worker[w].at.o)'
  BY <1>1, AnswersKept
<1>9. credited' \subseteq Orders
  BY <1>0, CreditsKept
<1>10. faults' \in 0..MaxFaults
  BY <1>0, FaultsCounted
<1>11. TypeOK'
  BY <1>1, <1>2, <1>3, <1>4, <1>5, <1>6, <1>8, <1>10, <1>9 DEF TypeOK, Order, Refund, Intent,
     Request, Worker, Stuck, Intents
<1>12. \A o \in Orders : Completed(o)' => Returned(o)'
  <2>1. \A o \in Orders : Returned(o) => Returned(o)'
    BY <1>0, <1>1, ReturnedStays
  <2>2. \A o \in Orders : Completed(o) => Returned(o)
    BY <1>0 DEF BooksFollowGateway
  <2>3. StepMatches
    BY StepsMatch
  <2> QED
    BY <2>1, <2>2, <2>3 DEF StepMatches, SameBooks, SameCompleted, CompletesAt
<1>13. BooksFollowGateway'
  BY <1>8, <1>12 DEF BooksFollowGateway
<1> QED
  BY <1>1, <1>4, <1>5, <1>6, <1>7, <1>11, <1>13 DEF PaymentsInv

\* The invariant holds for any number of orders, intents, requests and runs.
THEOREM PaymentsInvariant == Spec => []PaymentsInv
BY PaymentsInvStarts, PaymentsInvKept, PTL DEF Spec

\* Types, for any number of orders, intents, requests and runs.
THEOREM PaymentsTypeCorrect == Spec => []TypeOK
<1>1. PaymentsInv => TypeOK
  BY DEF PaymentsInv
<1> QED
  BY <1>1, PaymentsInvariant, PTL

\* payments.service.ts:281, for any number of orders and events: a success that is
\* delivered again finds the reconciliation row and does not touch the order.
THEOREM RefundedStaysRefunded == Spec => RefundedIsNotPaidAgain
<1> DEFINE Stays == \A o \in Orders : (order[o].payment = "REFUNDED" /\ o \in reconciled)
                                          => order'[o].payment # "PAID"
<1>1. TypeOK /\ [Next]_vars => [Stays]_vars
  <2> SUFFICES ASSUME TypeOK, [Next]_vars PROVE Stays
    OBVIOUS
  <2>1. ASSUME \A o \in Orders : order'[o].payment = order[o].payment PROVE Stays
    BY <2>1
  <2>2. ASSUME NEW i \in Intents, ConfirmPayment(i) PROVE Stays
    <3> DEFINE o == intent[i].order
    <3>1. o \notin reconciled /\ \A p \in Orders : p # o => order'[p] = order[p]
      BY <2>2, EventWrites DEF ConfirmPayment, Writes
    <3> HIDE DEF o
    <3> QED
      BY <3>1
  <2>3. ASSUME NEW i \in Intents, PaymentFailed(i) PROVE Stays
    <3> DEFINE o == intent[i].order
    <3>1. order'[o].payment = "UNPAID" /\ \A p \in Orders : p # o => order'[p] = order[p]
      BY <2>3, EventWrites DEF Writes
    <3> HIDE DEF o
    <3> QED
      BY <3>1
  <2>4. ASSUME NEW q \in Requests, KeepIntent(q) \/ Settle(q) \/ ClaimOrder(q) \/ RollBackClaim(q)
        PROVE  Stays
    <3> DEFINE o == request[q].o
    <3>1. /\ \A p \in Orders : p # o => order'[p] = order[p]
          /\ order'[o].payment \in {order[o].payment, "REFUNDED"}
      BY <2>4, RequestWrites DEF Writes
    <3> HIDE DEF o
    <3> QED
      BY <3>1
  <2>5. ASSUME NEW q \in Requests,
               \/ \E i \in Intents : CreateIntent(q, i)
               \/ RenewIntent(q) \/ RecordRefund(q) \/ CallGateway(q) \/ CompleteRefund(q)
               \/ FailRefund(q) \/ Abort(q)
               \/ \E o \in Orders : \/ ReadToCreate(q, o) \/ ReadToRetry(q, o)
                                    \/ ReadToSettle(q, o) \/ ReadToRefund(q, o)
        PROVE  Stays
    BY <2>1, <2>5 DEF CreateIntent, RenewIntent, RecordRefund, CallGateway, CompleteRefund,
         FailRefund, Abort, ReadToCreate, ReadToRetry, ReadToSettle, ReadToRefund
  <2>6. ASSUME \/ \E i \in Intents : CustomerPays(i) \/ DashboardRefund(i)
               \/ \E w \in Workers : Work(w) \/ Fail(w)
               \/ \E o \in Orders : GrowsLate(o)
               \/ UNCHANGED vars
        PROVE  Stays
    BY <2>1, <2>6 DEF CustomerPays, DashboardRefund, Work, SelectStuck, RetryRefund, WriteOutcome,
         MarkExhausted, Fail, GrowsLate, vars
  <2>7. ASSUME NEW o \in Orders, Elsewhere(o) PROVE Stays
    BY <2>7, ElsewhereWrites DEF Elsewhere, Writes
  <2> HIDE DEF Stays
  <2> QED
    BY <2>2, <2>3, <2>4, <2>5, <2>6, <2>7 DEF Next, Serve, Elsewhere
<1> QED
  BY <1>1, PaymentsTypeCorrect, PTL DEF Spec, RefundedIsNotPaidAgain

-----------------------------------------------------------------------------
\* The refinement.

claimantsBar == [o \in Orders |-> {q \in Requests : Standing(q, o)}]
returnedBar == [o \in Orders |-> Returned(o)]
completedBar == [o \in Orders |-> Completed(o)]
refundedBar == [o \in Orders |-> Refunded(o)]
bars == <<claimantsBar, returnedBar, credited, <<completedBar, refundedBar>>>>

\* Nothing was claimed, paid back or booked at the start.
LEMMA PromiseStarts == Init => Promise!Init
<1> SUFFICES ASSUME Init PROVE Promise!Init
  OBVIOUS
<1>1. \A q \in Requests, o \in Orders : ~Standing(q, o)
  BY DEF Init, Standing, Claimed, Idle
<1>2. claimantsBar = [o \in Orders |-> {}]
  <2>1. \A o \in Orders : {q \in Requests : Standing(q, o)} = {}
    BY <1>1
  <2> QED
    BY <2>1, Zenon DEF claimantsBar
<1>3. returnedBar = [o \in Orders |-> FALSE]
  <2>1. \A o \in Orders : Returned(o) = FALSE
    BY DEF Init, Returned, NoRow
  <2> QED
    BY <2>1, Zenon DEF returnedBar
<1>4. credited = {}
  BY DEF Init
<1>5. completedBar = [o \in Orders |-> FALSE]
  <2>1. \A o \in Orders : Completed(o) = FALSE
    BY DEF Init, Completed, NoRow
  <2> QED
    BY <2>1, Zenon DEF completedBar
<1>6. refundedBar = [o \in Orders |-> FALSE]
  <2>1. \A o \in Orders : Refunded(o) = FALSE
    BY DEF Init, Refunded
  <2> QED
    BY <2>1, Zenon DEF refundedBar
<1> QED
  BY <1>2, <1>3, <1>4, <1>5, <1>6, Zenon
    DEF Promise!Init, claimantsBar, returnedBar, completedBar, refundedBar, Completed, Refunded

\* A function on the orders is unchanged, ...
LEMMA StaysPointwise ==
    /\ SameClaims => claimantsBar' = claimantsBar
    /\ SameReturns => returnedBar' = returnedBar
    /\ SameCompleted => completedBar' = completedBar
    /\ SameRefunded => refundedBar' = refundedBar
<1>1. ASSUME SameClaims PROVE claimantsBar' = claimantsBar
  <2>1. \A o \in Orders : {q \in Requests : Standing(q, o)'} = {q \in Requests : Standing(q, o)}
    BY <1>1 DEF SameClaims
  <2> QED
    BY <2>1, Zenon DEF claimantsBar
<1>2. ASSUME SameReturns PROVE returnedBar' = returnedBar
  <2>1. \A o \in Orders : Returned(o)' = Returned(o)
    BY <1>2 DEF SameReturns, Returned
  <2> QED
    BY <2>1, Zenon DEF returnedBar
<1>3. ASSUME SameCompleted PROVE completedBar' = completedBar
  <2>1. \A o \in Orders : Completed(o)' = Completed(o)
    BY <1>3 DEF SameCompleted, Completed
  <2> QED
    BY <2>1, Zenon DEF completedBar
<1>4. ASSUME SameRefunded PROVE refundedBar' = refundedBar
  <2>1. \A o \in Orders : Refunded(o)' = Refunded(o)
    BY <1>4 DEF SameRefunded, Refunded
  <2> QED
    BY <2>1, Zenon DEF refundedBar
<1> QED
  BY <1>1, <1>2, <1>3, <1>4

\* ... or changes at one of them.
LEMMA SetsPointwise ==
    ASSUME NEW o \in Orders
    PROVE  /\ ReturnsAt(o) => returnedBar' = [returnedBar EXCEPT ![o] = TRUE]
           /\ CompletesAt(o) => completedBar' = [completedBar EXCEPT ![o] = Completed(o)']
           /\ RefundsAt(o) => refundedBar' = [refundedBar EXCEPT ![o] = Refunded(o)']
<1>1. ASSUME ReturnsAt(o) PROVE returnedBar' = [returnedBar EXCEPT ![o] = TRUE]
  <2>1. \A x \in Orders : Returned(x)' = IF x = o THEN TRUE ELSE Returned(x)
    BY <1>1 DEF ReturnsAt, Returned
  <2> DEFINE f == [x \in Orders |-> Returned(x)']
             g == [x \in Orders |-> IF x = o THEN TRUE ELSE Returned(x)]
  <2>2. f = g
    BY <2>1, Zenon
  <2>3. g = [returnedBar EXCEPT ![o] = TRUE]
    BY DEF returnedBar
  <2> QED
    BY <2>2, <2>3 DEF returnedBar
<1>2. ASSUME CompletesAt(o) PROVE completedBar' = [completedBar EXCEPT ![o] = Completed(o)']
  <2>1. \A x \in Orders : Completed(x)' = IF x = o THEN Completed(o)' ELSE Completed(x)
    BY <1>2 DEF CompletesAt, Completed
  <2> DEFINE f == [x \in Orders |-> Completed(x)']
             g == [x \in Orders |-> IF x = o THEN Completed(o)' ELSE Completed(x)]
  <2>2. f = g
    BY <2>1, Zenon
  <2>3. g = [completedBar EXCEPT ![o] = Completed(o)']
    BY DEF completedBar
  <2> QED
    BY <2>2, <2>3 DEF completedBar
<1>3. ASSUME RefundsAt(o) PROVE refundedBar' = [refundedBar EXCEPT ![o] = Refunded(o)']
  <2>1. \A x \in Orders : Refunded(x)' = IF x = o THEN Refunded(o)' ELSE Refunded(x)
    BY <1>3 DEF RefundsAt, Refunded
  <2> DEFINE f == [x \in Orders |-> Refunded(x)']
             g == [x \in Orders |-> IF x = o THEN Refunded(o)' ELSE Refunded(x)]
  <2>2. f = g
    BY <2>1, Zenon
  <2>3. g = [refundedBar EXCEPT ![o] = Refunded(o)']
    BY DEF refundedBar
  <2> QED
    BY <2>2, <2>3 DEF refundedBar
<1> QED
  BY <1>1, <1>2, <1>3

\* Each way a step may match is a step of the promise, or none.
LEMMA StepsKeepPromise == StepMatches => Promise!Next \/ UNCHANGED bars
<1> SUFFICES ASSUME StepMatches PROVE Promise!Next \/ UNCHANGED bars
  OBVIOUS
<1>1. CASE SameClaims /\ SameMoney /\ SameBooks
  BY <1>1, StaysPointwise DEF SameMoney, SameBooks, bars
<1>2. ASSUME NEW o \in Orders, SameClaims, ReturnsAt(o), UNCHANGED credited, SameBooks
      PROVE  Promise!Return(o)
  <2>1. /\ claimantsBar' = claimantsBar
        /\ completedBar' = completedBar /\ refundedBar' = refundedBar
        /\ returnedBar' = [returnedBar EXCEPT ![o] = TRUE] /\ credited' = credited
    BY <1>2, StaysPointwise, SetsPointwise DEF SameBooks
  <2> QED
    BY <2>1, Zenon DEF Promise!Return, Promise!books, claimantsBar, returnedBar,
       completedBar, refundedBar, Completed, Refunded
<1>3. ASSUME NEW o \in Orders, SameClaims, SameReturns, credited' = credited \cup {o},
             SameCompleted, RefundsAt(o)
      PROVE  Promise!Credit(o)
  <2>1. /\ claimantsBar' = claimantsBar /\ returnedBar' = returnedBar /\ completedBar' = completedBar
        /\ credited' = credited \cup {o}
    BY <1>3, StaysPointwise, SetsPointwise
  <2>2. \E r \in BOOLEAN : refundedBar' = [refundedBar EXCEPT ![o] = r]
    <3>1. Refunded(o)' \in BOOLEAN
      BY DEF Refunded
    <3> QED
      BY <1>3, <3>1, SetsPointwise
  <2> QED
    BY <2>1, <2>2, Zenon DEF Promise!Credit, claimantsBar, returnedBar,
       completedBar, refundedBar, Completed, Refunded
<1>4. ASSUME NEW o \in Orders, SameClaims, SameMoney, CompletesAt(o), Completed(o)' => Returned(o),
             SameRefunded
      PROVE  Promise!Complete(o) \/ Promise!Reopen(o)
  <2>1. /\ claimantsBar' = claimantsBar /\ returnedBar' = returnedBar
        /\ refundedBar' = refundedBar /\ returnedBar[o] = Returned(o) /\ credited' = credited
    BY <1>4, StaysPointwise DEF SameMoney, returnedBar
  <2>2. completedBar' = [completedBar EXCEPT ![o] = Completed(o)']
    BY <1>4, SetsPointwise
  <2>3. CASE Completed(o)' = TRUE
    <3>1. completedBar' = [completedBar EXCEPT ![o] = TRUE] /\ returnedBar[o]
      BY <1>4, <2>1, <2>2, <2>3
    <3>2. Promise!Complete(o)
      BY <2>1, <3>1, Zenon DEF Promise!Complete, claimantsBar, returnedBar,
         completedBar, refundedBar, Completed, Refunded
    <3> QED
      BY <3>2
  <2>4. CASE Completed(o)' = FALSE
    <3>1. completedBar' = [completedBar EXCEPT ![o] = FALSE]
      BY <2>2, <2>4
    <3>2. Promise!Reopen(o)
      BY <2>1, <3>1, Zenon DEF Promise!Reopen, claimantsBar, returnedBar,
         completedBar, refundedBar, Completed, Refunded
    <3> QED
      BY <3>2
  <2>5. Completed(o)' \in BOOLEAN
    BY DEF Completed
  <2> QED
    BY <2>3, <2>4, <2>5
<1>5. ASSUME NEW o \in Orders, SameClaims, SameMoney, SameCompleted, RefundsAt(o),
             Refunded(o)' => Returned(o)
      PROVE  Promise!Refund(o) \/ Promise!Unrefund(o)
  <2>1. /\ claimantsBar' = claimantsBar /\ returnedBar' = returnedBar
        /\ completedBar' = completedBar /\ returnedBar[o] = Returned(o) /\ credited' = credited
    BY <1>5, StaysPointwise DEF SameMoney, returnedBar
  <2>2. refundedBar' = [refundedBar EXCEPT ![o] = Refunded(o)']
    BY <1>5, SetsPointwise
  <2>3. CASE Refunded(o)' = TRUE
    <3>1. refundedBar' = [refundedBar EXCEPT ![o] = TRUE] /\ returnedBar[o]
      BY <1>5, <2>1, <2>2, <2>3
    <3>2. Promise!Refund(o)
      BY <2>1, <3>1, Zenon DEF Promise!Refund, claimantsBar, returnedBar,
         completedBar, refundedBar, Completed, Refunded
    <3> QED
      BY <3>2
  <2>4. CASE Refunded(o)' = FALSE
    <3>1. refundedBar' = [refundedBar EXCEPT ![o] = FALSE]
      BY <2>2, <2>4
    <3>2. Promise!Unrefund(o)
      BY <2>1, <3>1, Zenon DEF Promise!Unrefund, claimantsBar, returnedBar,
         completedBar, refundedBar, Completed, Refunded
    <3> QED
      BY <3>2
  <2>5. Refunded(o)' \in BOOLEAN
    BY DEF Refunded
  <2> QED
    BY <2>3, <2>4, <2>5
<1>6. ASSUME NEW o \in Orders, NEW q \in Requests, ClaimBegins(q, o),
             \A p \in Requests : ~Standing(p, o), SameMoney, SameBooks
      PROVE  Promise!Claim(o, q)
  <2>1. /\ returnedBar' = returnedBar
        /\ completedBar' = completedBar /\ refundedBar' = refundedBar /\ credited' = credited
    BY <1>6, StaysPointwise DEF SameMoney, SameBooks
  <2>2. claimantsBar[o] = {}
    BY <1>6 DEF claimantsBar
  <2>3. claimantsBar' = [claimantsBar EXCEPT ![o] = {q}]
    <3> DEFINE f == [x \in Orders |-> {p \in Requests : Standing(p, x)'}]
               g == [x \in Orders |-> IF x = o THEN {q} ELSE {p \in Requests : Standing(p, x)}]
    <3>1. \A x \in Orders : {p \in Requests : Standing(p, x)'}
                              = IF x = o THEN {q} ELSE {p \in Requests : Standing(p, x)}
      BY <1>6 DEF ClaimBegins
    <3>2. f = g
      BY <3>1, Zenon
    <3>3. g = [claimantsBar EXCEPT ![o] = {q}]
      BY DEF claimantsBar
    <3> QED
      BY <3>2, <3>3 DEF claimantsBar
  <2> QED
    BY <2>1, <2>2, <2>3, Zenon DEF Promise!Claim, Promise!books, claimantsBar, returnedBar,
       completedBar, refundedBar, Completed, Refunded
<1>7. ASSUME NEW o \in Orders, NEW q \in Requests, ClaimEnds(q, o),
             {p \in Requests : Standing(p, o)} = {q}, SameMoney, SameRefunded,
             SameCompleted \/ (CompletesAt(o) /\ Completed(o)' /\ Returned(o))
      PROVE  Promise!Quit(o, q)
  <2>1. returnedBar' = returnedBar /\ refundedBar' = refundedBar /\ credited' = credited
    BY <1>7, StaysPointwise DEF SameMoney
  <2>2. claimantsBar[o] = {q}
    BY <1>7 DEF claimantsBar
  <2>3. claimantsBar' = [claimantsBar EXCEPT ![o] = {}]
    <3> DEFINE f == [x \in Orders |-> {p \in Requests : Standing(p, x)'}]
               g == [x \in Orders |-> IF x = o THEN {} ELSE {p \in Requests : Standing(p, x)}]
    <3>1. \A x \in Orders : {p \in Requests : Standing(p, x)'}
                              = IF x = o THEN {} ELSE {p \in Requests : Standing(p, x)}
      BY <1>7 DEF ClaimEnds
    <3>2. f = g
      BY <3>1, Zenon
    <3>3. g = [claimantsBar EXCEPT ![o] = {}]
      BY DEF claimantsBar
    <3> QED
      BY <3>2, <3>3 DEF claimantsBar
  <2>4. \/ completedBar' = completedBar
        \/ returnedBar[o] /\ completedBar' = [completedBar EXCEPT ![o] = TRUE]
    <3>1. CASE SameCompleted
      BY <3>1, StaysPointwise
    <3>2. CASE CompletesAt(o) /\ Completed(o)' /\ Returned(o)
      <4>1. completedBar' = [completedBar EXCEPT ![o] = Completed(o)']
        BY <3>2, SetsPointwise
      <4>2. Completed(o)' = TRUE
        BY <3>2 DEF Completed
      <4>3. returnedBar[o]
        BY <3>2 DEF returnedBar
      <4> QED
        BY <4>1, <4>2, <4>3
    <3> QED
      BY <1>7, <3>1, <3>2
  <2> QED
    BY <2>1, <2>2, <2>3, <2>4, Zenon DEF Promise!Quit, claimantsBar, returnedBar,
       completedBar, refundedBar, Completed, Refunded
<1> QED
  BY <1>1, <1>2, <1>3, <1>4, <1>5, <1>6, <1>7 DEF StepMatches, Promise!Next

\* payments.service.ts:616 (R-004), for any number of orders, requests, runs of the
\* job, attempts and faults, and whatever other handlers write: at most one claim of an
\* order stands, from when a caller made it until the caller ends or another handler
\* writes over it; and the two books say that money went back only after it did.
THEOREM RefundsKeepPromise == Spec => ImplementsTwoPhaseRefund
<1>1. Init => Promise!Init
  BY PromiseStarts
<1>2. PaymentsInv /\ [Next]_vars => [Promise!Next]_bars
  BY StepsMatch, StepsKeepPromise
<1> QED
  BY <1>1, <1>2, PaymentsInvariant, PTL
    DEF Spec, ImplementsTwoPhaseRefund, Promise!Spec, Promise!books, bars, claimantsBar, returnedBar,
        completedBar, refundedBar, Completed, Refunded
=============================================================================
