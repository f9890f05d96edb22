-------------------------------- MODULE Rewards --------------------------------
(***************************************************************************)
(* The event bus and what hangs on the orders of one customer: loyalty     *)
(* points, the bonus for whoever referred the customer, cashback and the   *)
(* confirmation mail (EventBus, EventDispatcherProcessor, LoyaltyService,  *)
(* ReferralService and the subscribers of order.placed, order.delivered).  *)
(*                                                                         *)
(* An event is published after the order was committed, and may be lost    *)
(* there.  The queue keeps a job until its handlers, one after the other,  *)
(* are all through, or Attempts runs have failed; every run starts again   *)
(* with the first handler.  Without an answer from the queue the publisher *)
(* runs the handlers itself, although the queue may have the job too.      *)
(***************************************************************************)
EXTENDS Integers, Sequences, FiniteSets, FiniteSetsExt

CONSTANTS
    Purchases,        \* orders of the customer
    Earlier,          \* those that were placed, and their events handled, before
    Attempts,         \* attempts of a job
    PlacedHandlers,   \* the subscribers of order.placed as they registered
    MaxJobs,          \* bound: jobs and runs in the publisher's process, at a time
    MaxUpdates,       \* bound: status updates by staff
    MaxLosses         \* bound: handlers that fail, crashes

ASSUME RewardsAssumption ==
    /\ IsFiniteSet(Purchases) /\ Earlier \subseteq Purchases
    /\ Attempts \in Nat \ {0}
    /\ PlacedHandlers \in
          Seq({"kernel.loyalty", "kernel.wallet", "kernel.email", "kernel.abandoned-cart"})
    /\ PlacedHandlers # <<>>
    /\ MaxJobs \in Nat /\ MaxUpdates \in Nat /\ MaxLosses \in Nat

VARIABLES
    purchase,         \* Order.status
    outbox,           \* events whose order is committed and that are not yet published
    job,              \* runs of handlers: jobs of the queue, and of the publisher itself
    entries,          \* rows under each reference, of LoyaltyTransaction or WalletTransaction
    points,           \* User.loyaltyPoints
    mailed,           \* orders whose confirmation was given to the mail server, which may lose it
    call,             \* referral and clawback calls that nobody waits for
    updates, losses

rewardVars ==
    <<purchase, outbox, job, entries, points, mailed, call, updates, losses>>

People == {"customer", "referrer"}
Events == {"order.placed", "order.delivered"}
Handlers(event) ==
    IF event = "order.placed" THEN PlacedHandlers ELSE <<"kernel.loyalty">>
\* The unique references, and whom the points go to.
RewardRows ==
    ({"earn", "clawback", "cashback"} \X Purchases) \cup ({"referral"} \X People)
NoJob == [event |-> "none"]
Job == [event : Events, o : Purchases, at : 1..Len(PlacedHandlers), left : 1..Attempts,
        queued : BOOLEAN]
Call == [op : {"clawback", "take"}, o : Purchases] \cup [op : {"credit"}] \cup
        [op : {"bonus"}, to : People]

RewardsTypeOK ==
    /\ purchase \in [Purchases -> {"NONE", "PLACED", "DELIVERED", "REFUNDED"}]
    /\ outbox \subseteq Events \X Purchases
    /\ job \in [1..MaxJobs -> Job \cup {NoJob}]
    /\ entries \in [RewardRows -> Nat]
    /\ points \in [People -> Nat]
    /\ mailed \subseteq Purchases
    /\ call \subseteq Call
    /\ updates \in 0..MaxUpdates
    /\ losses \in 0..MaxLosses

RewardsInit ==
    /\ purchase = [o \in Purchases |-> IF o \in Earlier THEN "PLACED" ELSE "NONE"]
    /\ outbox = {}
    /\ job = [j \in 1..MaxJobs |-> NoJob]
    /\ entries = [r \in RewardRows |-> 0]
    /\ points = [p \in People |-> 0]
    /\ mailed = {}
    /\ call = {}
    /\ updates = 0
    /\ losses = 0

bookVars == <<entries, points>>
effectVars == <<bookVars, mailed>>
-----------------------------------------------------------------------------
\* Publishers.

PlaceOrder(o) ==
    /\ purchase[o] = "NONE"
    /\ purchase' = [purchase EXCEPT ![o] = "PLACED"]
    /\ outbox' = outbox \cup {<<"order.placed", o>>}
    /\ UNCHANGED <<job, effectVars, call, updates, losses>>

\* Staff may set any status, again or back.  Delivery publishes and lets the
\* referral be credited, a refund lets the points be clawed back.
UpdateOrderStatus(o, status) ==
    /\ purchase[o] # "NONE"
    /\ updates < MaxUpdates /\ updates' = updates + 1
    /\ purchase' = [purchase EXCEPT ![o] = status]
    /\ \/ /\ status = "DELIVERED"
          /\ outbox' = outbox \cup {<<"order.delivered", o>>}
          /\ call' = call \cup {[op |-> "credit"]}
       \/ /\ status = "REFUNDED"
          /\ call' = call \cup {[op |-> "clawback", o |-> o]}
          /\ UNCHANGED outbox
    /\ UNCHANGED <<job, effectVars, losses>>

NewRun(e, queued) ==
    [event |-> e[1], o |-> e[2], at |-> 1, left |-> IF queued THEN Attempts ELSE 1, queued |-> queued]

\* queue.add is acknowledged, or fails, before or after Redis took the job.
Publish(e) ==
    /\ e \in outbox
    /\ outbox' = outbox \ {e}
    /\ LET free == {k \in 1..MaxJobs : job[k] = NoJob}
           i == Min(free)
       IN  /\ free # {}
           /\ \/ \E queued \in BOOLEAN : job' = [job EXCEPT ![i] = NewRun(e, queued)]
              \/ \E j \in {Min(free \ {i}) : f \in free \ {i}} :
                    job' = [job EXCEPT ![i] = NewRun(e, TRUE), ![j] = NewRun(e, FALSE)]
    /\ UNCHANGED <<purchase, effectVars, call, updates, losses>>

Lose == losses < MaxLosses /\ losses' = losses + 1

\* The process dies between the commit and the queue.
LoseEvent(e) ==
    /\ e \in outbox
    /\ outbox' = outbox \ {e}
    /\ Lose
    /\ UNCHANGED <<purchase, job, effectVars, call, updates>>

-----------------------------------------------------------------------------
\* The books.

Bonus(to) == IF to = "referrer" THEN 2 ELSE 1

Enter(ref, who, amount) ==
    /\ entries' = [entries EXCEPT ![ref] = @ + 1]
    /\ points' = [points EXCEPT ![who] = @ + amount]

EarnPoints(o) ==
    LET ref == <<"earn", o>>
    IN  IF entries[ref] = 0 THEN Enter(ref, "customer", 1) ELSE UNCHANGED bookVars

ClawbackPoints(o) ==
    LET ref == <<"clawback", o>>
    IN  IF entries[ref] = 0 THEN Enter(ref, "customer", -Min({1, points["customer"]})) ELSE UNCHANGED bookVars

AddBonus(to) ==
    LET ref == <<"referral", to>>
    IN  IF entries[ref] = 0 THEN Enter(ref, to, Bonus(to)) ELSE UNCHANGED bookVars

\* Without a reference of its own.
CreditCashbackAgain(o) ==
    entries' = [entries EXCEPT ![<<"cashback", o>>] = @ + 1] /\ UNCHANGED points

CreditCashback(o) ==
    /\ entries[<<"cashback", o>>] = 0 => entries' = [entries EXCEPT ![<<"cashback", o>>] = 1]
    /\ entries[<<"cashback", o>>] > 0 => UNCHANGED entries
    /\ UNCHANGED points

-----------------------------------------------------------------------------
\* The dispatcher.

Effect(handler, o) ==
    CASE handler = "kernel.loyalty" -> EarnPoints(o) /\ UNCHANGED mailed
      [] handler = "kernel.wallet" -> CreditCashback(o) /\ UNCHANGED mailed
      [] handler = "kernel.email" -> mailed' = mailed \cup {o} /\ UNCHANGED bookVars
      [] handler = "kernel.abandoned-cart" -> UNCHANGED effectVars   \* clears a row

Present(j) == Handlers(job[j].event)[job[j].at]

NextHandler(j) ==
    job' = [job EXCEPT ![j] = IF job[j].at = Len(Handlers(job[j].event)) THEN NoJob
                              ELSE [job[j] EXCEPT !.at = @ + 1]]

RunHandler(j) ==
    /\ job[j] # NoJob
    /\ Effect(Present(j), job[j].o)
    /\ NextHandler(j)
    /\ UNCHANGED <<purchase, outbox, call, updates, losses>>

\* The subscribers of loyalty and the wallet log what went wrong and return.
HandlerSwallows(j) ==
    /\ job[j] # NoJob
    /\ Present(j) \in {"kernel.loyalty", "kernel.wallet"}
    /\ Lose
    /\ NextHandler(j)
    /\ UNCHANGED <<purchase, outbox, effectVars, call, updates>>

\* The whole job is run again, while attempts are left.
RetryJob(j) ==
    job' = [job EXCEPT ![j] = IF job[j].left = 1 THEN NoJob
                              ELSE [job[j] EXCEPT !.at = 1, !.left = @ - 1]]

\* The others throw when they cannot reach the database.
HandlerThrows(j) ==
    /\ job[j] # NoJob
    /\ Present(j) \in {"kernel.email", "kernel.abandoned-cart"}
    /\ Lose
    /\ RetryJob(j)
    /\ UNCHANGED <<purchase, outbox, effectVars, call, updates>>

\* A worker dies: its job stalls and is taken up again.  The publisher's own run
\* dies with it.
LoseWorker(j) ==
    /\ job[j] # NoJob
    /\ Lose
    /\ job' = [job EXCEPT ![j] = IF job[j].queued THEN [job[j] EXCEPT !.at = 1] ELSE NoJob]
    /\ UNCHANGED <<purchase, outbox, effectVars, call, updates>>

-----------------------------------------------------------------------------
\* Calls that nobody waits for.

Proceed(c, next) == call' = (call \ {c}) \cup next

\* creditOnFirstDelivery counts the delivered orders: exactly one, and both are
\* paid, each in its transaction.
CreditOnFirstDelivery(c) ==
    /\ c \in call /\ c.op = "credit"
    /\ Proceed(c, IF Cardinality({o \in Purchases : purchase[o] = "DELIVERED"}) = 1
                  THEN {[op |-> "bonus", to |-> p] : p \in People} ELSE {})
    /\ UNCHANGED <<purchase, outbox, job, effectVars, updates, losses>>

PayBonus(c) ==
    /\ c \in call /\ c.op = "bonus"
    /\ AddBonus(c.to)
    /\ Proceed(c, {})
    /\ UNCHANGED <<purchase, outbox, job, mailed, updates, losses>>

\* clawbackPoints reads what was earned ...
FindEarned(c) ==
    /\ c \in call /\ c.op = "clawback"
    /\ Proceed(c, IF entries[<<"earn", c.o>>] > 0 THEN {[op |-> "take", o |-> c.o]} ELSE {})
    /\ UNCHANGED <<purchase, outbox, job, effectVars, updates, losses>>

\* ... and takes as much, or all that is left.
TakeBack(c) ==
    /\ c \in call /\ c.op = "take"
    /\ ClawbackPoints(c.o)
    /\ Proceed(c, {})
    /\ UNCHANGED <<purchase, outbox, job, mailed, updates, losses>>

\* Their errors are dropped.
CallFails(c) ==
    /\ c \in call
    /\ Lose
    /\ Proceed(c, {})
    /\ UNCHANGED <<purchase, outbox, job, effectVars, updates>>

RewardsNext ==
    \/ \E o \in Purchases : PlaceOrder(o) \/ \E s \in {"DELIVERED", "REFUNDED"} : UpdateOrderStatus(o, s)
    \/ \E e \in outbox : Publish(e) \/ LoseEvent(e)
    \/ \E j \in 1..MaxJobs : RunHandler(j) \/ HandlerSwallows(j) \/ HandlerThrows(j) \/ LoseWorker(j)
    \/ \E c \in call : CreditOnFirstDelivery(c) \/ PayBonus(c) \/ FindEarned(c) \/ TakeBack(c) \/ CallFails(c)

RewardsSpec == RewardsInit /\ [][RewardsNext]_rewardVars

\* The queue's workers go on taking up jobs.
RewardsFairness == \A j \in 1..MaxJobs : WF_rewardVars(RunHandler(j))
-----------------------------------------------------------------------------
RowsOf(kind) == UNION {{<<o, n>> : n \in 1..entries[<<kind, o>>]} : o \in Purchases}
Given(who) ==
    Bonus(who) * entries[<<"referral", who>>]
        + (IF who = "customer" THEN Cardinality(RowsOf("earn")) - Cardinality(RowsOf("clawback"))
                               ELSE 0)

\* loyalty.service.ts:44: the points of a customer are the sum of the rows that
\* explain them, whatever was delivered twice, retried or refunded.  (Points are
\* never redeemed in this program, so that a clawback is never cut short.)
PointsAreBook == \A p \in People : points[p] = Given(p)

\* order-cashback.subscriber.ts:22 (I-12), loyalty.service.ts:40: an event that is
\* handled again, by the queue or by the publisher, credits nothing again.
CreditedOnce == \A r \in RewardRows : entries[r] <= 1

\* event-bus.processor.ts:108: a job that one of its handlers failed is run again,
\* so that the mail of every order whose event the queue has goes out.
QueuedOrdersAreMailed ==
    \A o \in Purchases :
        (\E j \in 1..MaxJobs : job[j].event = "order.placed" /\ job[j].o = o /\ job[j].queued)
            ~> o \in mailed
=============================================================================
