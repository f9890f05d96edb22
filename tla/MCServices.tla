------------------------------ MODULE MCServices ------------------------------
(***************************************************************************)
(* The jobs, queues and timers of the backend, for TLC, with the fairness  *)
(* of their schedulers: the cron lock, the sweep of reservations, the      *)
(* retries of refunds, the event queue with its handlers, the deliveries   *)
(* of outgoing webhooks, hooks behind their breakers and the switch of     *)
(* plugins.  They share no state here.  A behaviour is one of one of them, *)
(* so that their state spaces add up instead of multiplying.               *)
(***************************************************************************)
EXTENDS CronLock, Deliveries, HookRunner, PluginSwitch

CONSTANTS t1, t2, t3, p1, p2, v1, u1, q1, o1, o2, w1

VARIABLES
    component,        \* the one that runs
    \* of CartReservation:
    stock, reserved, variantStock, variantReserved,
    status, owner, items, late, orders, request, batch,
    \* of Payments:
    order, credited, reconciled, refund, intent, answered, payment, worker, faults,
    \* of Rewards:
    purchase, outbox, job, entries, points, mailed, call, updates, losses

reservationVars == <<stock, reserved, variantStock, variantReserved,
                     status, owner, items, late, orders, request, batch>>
paymentVars == <<order, credited, reconciled, refund, intent, answered, payment, worker, faults>>
rewardVars == <<purchase, outbox, job, entries, points, mailed, call, updates, losses>>

-----------------------------------------------------------------------------
\* Two overlapping runs of one process and one of another.
ThreeRuns == [t \in {t1, t2, t3} |-> IF t = t3 THEN p2 ELSE p1]
Subscribers == <<"kernel.wallet", "kernel.email", "kernel.abandoned-cart">>
OnePlugin == <<"plugin">>

\* One customer, one request and one pod, rows of one variant.
Reservations == INSTANCE CartReservation WITH
    Variants <- {v1}, Users <- {u1}, Requests <- {q1}, Pods <- {p1},
    MaxReservations <- 2, MaxQty <- 2, Cap <- 1,
    Carts <- {[v \in {v1} |-> n] : n \in 1..2},
    InitialStock <- [v \in {v1} |-> 2], StockLevels <- {3}, VariantEdits <- {3}

\* One order, one request beside the job, which dies or loses an outcome once.  What
\* other handlers write the job does not read.
Card == INSTANCE Payments WITH
    Orders <- {o1}, OtherStatuses <- {}, Edited <- {}, MaxIntents <- 1, Requests <- {q1},
    Workers <- {w1}, MaxRetries <- 2, MaxCount <- 2, MaxFaults <- 1, request <- payment

\* One order is placed and one was, its status set once more.
Events == INSTANCE Rewards WITH
    Purchases <- {o1, o2}, Earlier <- {o2}, Attempts <- 2, PlacedHandlers <- Subscribers,
    MaxJobs <- 2, MaxUpdates <- 1, MaxLosses <- 1

-----------------------------------------------------------------------------
ServicesInit ==
    /\ component \in {"lock", "reservations", "card", "rewards", "deliveries", "hooks", "switch"}
    /\ Init
    /\ Reservations!Init
    /\ Card!Init
    /\ Events!RewardsInit
    /\ DeliveriesInit
    /\ HookInit
    /\ SwitchInit

\* The component runs, and leaves the variables of the others alone.
LockStep == component = "lock" /\ Next
    /\ UNCHANGED <<reservationVars, paymentVars, rewardVars, deliveryVars, hookVars, switchVars>>
ReservationStep == component = "reservations" /\ Reservations!Next
    /\ UNCHANGED <<vars, paymentVars, rewardVars, deliveryVars, hookVars, switchVars>>
CardStep == component = "card" /\ Card!Next
    /\ UNCHANGED <<vars, reservationVars, rewardVars, deliveryVars, hookVars, switchVars>>
RewardsStep == component = "rewards" /\ Events!RewardsNext
    /\ UNCHANGED <<vars, reservationVars, paymentVars, deliveryVars, hookVars, switchVars>>
DeliveriesStep == component = "deliveries" /\ DeliveriesNext
    /\ UNCHANGED <<vars, reservationVars, paymentVars, rewardVars, hookVars, switchVars>>
HookStep == component = "hooks" /\ HookNext
    /\ UNCHANGED <<vars, reservationVars, paymentVars, rewardVars, deliveryVars, switchVars>>
SwitchStep == component = "switch" /\ SwitchNext
    /\ UNCHANGED <<vars, reservationVars, paymentVars, rewardVars, deliveryVars, hookVars>>

ServicesNext ==
    /\ UNCHANGED component
    /\ LockStep \/ ReservationStep \/ CardStep \/ RewardsStep
         \/ DeliveriesStep \/ HookStep \/ SwitchStep

\* FairSpec of CronLock, CartReservation and Payments, and the fairness of the
\* others, each for the component that runs.
LockFairness ==
    /\ \A t \in Runs : WF_vars(component = "lock" /\ Run(t))
    /\ SF_vars(component = "lock" /\ Tick)
ReservationFairness ==
    /\ WF_reservationVars(component = "reservations" /\ Reservations!Serve(q1))
    /\ \A r \in 1..2 : SF_reservationVars(component = "reservations" /\ Reservations!Select(r))
    /\ SF_reservationVars(component = "reservations" /\ Reservations!ExpiryCommit(p1))
CardFairness ==
    /\ WF_paymentVars(component = "card" /\ Card!Serve(q1))
    /\ WF_paymentVars(component = "card" /\ Card!GrowsLate(o1))
    /\ WF_paymentVars(component = "card" /\ Card!Work(w1))
JobsFairness == \A j \in 1..2 : WF_rewardVars(component = "rewards" /\ Events!RunHandler(j))
SendersFairness ==
    /\ \A s \in Senders : WF_deliveryVars(component = "deliveries" /\ SendOn(s))
    /\ \A d \in Deliverable : WF_deliveryVars(component = "deliveries" /\ FallsDue(d))
CallsFairness ==
    /\ \A c \in HookCalls :
          /\ WF_hookVars(component = "hooks" /\ (RunSync(c) \/ TryAcquire(c)))
          /\ WF_hookVars(component = "hooks"
                /\ (HandlerFails(c) \/ \E r \in BOOLEAN : HandlerAnswers(c, r)))
    /\ WF_hookVars(component = "hooks" /\ TimePasses)
SyncFairness ==
    /\ \A pod \in Fleet : WF_switchVars(component = "switch" /\ Sync(pod))
    /\ \A a \in Admins : WF_switchVars(component = "switch" /\ SendCommand(a))

ServicesSpec ==
    /\ ServicesInit
    /\ [][ServicesNext]_<<component, vars, reservationVars, paymentVars, rewardVars,
                          deliveryVars, hookVars, switchVars>>
    /\ LockFairness /\ ReservationFairness /\ CardFairness
    /\ JobsFairness /\ SendersFairness /\ CallsFairness /\ SyncFairness

-----------------------------------------------------------------------------
\* The types of the components that are not checked elsewhere.
ServicesTypeOK == TypeOK /\ DeliveriesTypeOK /\ HookTypeOK /\ SwitchTypeOK

\* cron-lock.service.ts:18: a lock whose holder died is reclaimed, so the job
\* runs again and again.
LockedJobKeepsRunning == component = "lock" => JobKeepsRunning

\* cart-reservation.service.ts:560 and :436: the sweep gets to every late
\* reservation, and a request that waits for a row it has locked is answered.
ReservationsComeToAnEnd == Reservations!LateIsSwept /\ Reservations!EveryRequestAnswered

\* What is left half done is taken up again: a refund that got stuck is completed,
\* failed or tried until its attempts are used up (refund-retry.service.ts:22); a
\* job that one of its handlers failed is run again, so that the mail of every order
\* whose event the queue has goes out (event-bus.processor.ts:108); a delivery that
\* failed and has attempts left is sent again (webhooks.service.ts:136).
WorkIsTakenUp == Card!StuckRefundsAreRetried /\ Events!QueuedOrdersAreMailed /\ FailedIsRetried
=============================================================================
