------------------------------- MODULE Deliveries ------------------------------
(***************************************************************************)
(* Outgoing webhooks (WebhooksService): an event is sent to every endpoint *)
(* that wants it, a delivery that failed is tried again by a job, up to    *)
(* MAX_ATTEMPTS times.                                                     *)
(*                                                                         *)
(* A row has no time of its next attempt before its first one has failed.  *)
(* The job runs under the cron lock (CronLock), which lasts 55 s; a batch  *)
(* is up to fifty calls of up to ten seconds each.  Runs of the job        *)
(* therefore overlap, and two of them may have the same row to try.        *)
(***************************************************************************)
EXTENDS Integers, FiniteSets

CONSTANTS
    Endpoints,
    MaxAttempts,      \* MAX_ATTEMPTS
    MaxRows,          \* bound: WebhookDelivery rows
    Dispatchers,      \* events being sent at the same time
    Jobs,             \* runs of retryFailed at the same time, the lock of all but one lost
    MaxCrashes        \* bound: crashes of a sender

ASSUME DeliveriesAssumption ==
    /\ MaxAttempts \in Nat \ {0} /\ Dispatchers \cap Jobs = {}
    /\ IsFiniteSet(Dispatchers) /\ IsFiniteSet(Jobs)
    /\ MaxCrashes \in Nat

VARIABLES
    endpoint,         \* endpoints that exist and are active
    delivery,         \* WebhookDelivery rows
    sender,           \* what each dispatcher and each run of the job is doing
    crashes

deliveryVars == <<endpoint, delivery, sender, crashes>>

Senders == Dispatchers \cup Jobs
Deliverable == 1..MaxRows
NoDelivery == [to |-> "none"]
Deleted == [to |-> "deleted"]
\* due: nextRetryAt is null, still to come, or past.
Delivery == [to : Endpoints, attempts : 0..(MaxAttempts + Cardinality(Senders)),
             success : BOOLEAN, due : {"null", "later", "now"}]
NotSending == [stage |-> "idle"]
\* todo: endpoints still to be sent to, or rows still to be tried.
Sending(todo) ==
    {NotSending} \cup [stage : {"next"}, todo : todo] \cup
    [stage : {"post", "answered", "failed", "schedule"}, row : Deliverable, todo : todo]

DeliveriesTypeOK ==
    /\ endpoint \subseteq Endpoints
    /\ delivery \in [Deliverable -> Delivery \cup {NoDelivery, Deleted}]
    /\ \A s \in Dispatchers : sender[s] \in Sending(SUBSET Endpoints)
    /\ \A s \in Jobs : sender[s] \in Sending(SUBSET Deliverable)
    /\ crashes \in 0..MaxCrashes

DeliveriesInit ==
    /\ endpoint = Endpoints
    /\ delivery = [d \in Deliverable |-> NoDelivery]
    /\ sender = [s \in Senders |-> NotSending]
    /\ crashes = 0

SetSender(s, r) == sender' = [sender EXCEPT ![s] = r]
Stage(s, stage) == SetSender(s, [sender[s] EXCEPT !.stage = stage])
NextOf(s) == SetSender(s, [stage |-> "next", todo |-> sender[s].todo])
EndSender(s) == SetSender(s, NotSending)

-----------------------------------------------------------------------------
\* dispatch reads the active endpoints ...
Dispatch(s) ==
    /\ s \in Dispatchers
    /\ sender[s] = NotSending
    /\ endpoint # {}
    /\ SetSender(s, [stage |-> "next", todo |-> endpoint])
    /\ UNCHANGED <<endpoint, delivery, crashes>>

\* A row that the job may pick up at once.
NewDeliveryDue(e) == [to |-> e, attempts |-> 0, success |-> FALSE, due |-> "now"]
NewDelivery(e) == [to |-> e, attempts |-> 0, success |-> FALSE, due |-> "null"]

\* ... and creates a row for each, which fails for one that was deleted.
CreateDelivery(s, e) ==
    /\ s \in Dispatchers
    /\ sender[s].stage = "next" /\ e \in sender[s].todo
    /\ IF e \in endpoint
       THEN \E d \in Deliverable :
              /\ delivery[d] = NoDelivery
              /\ \A c \in Deliverable : c < d => delivery[c] # NoDelivery
              /\ delivery' = [delivery EXCEPT ![d] = NewDelivery(e)]
              /\ SetSender(s, [stage |-> "post", row |-> d, todo |-> sender[s].todo \ {e}])
       ELSE EndSender(s) /\ UNCHANGED delivery
    /\ UNCHANGED <<endpoint, crashes>>

IsRow(d) == delivery[d] \notin {NoDelivery, Deleted}

\* Trying a delivery for ever.
IsDueForEver(d) == IsRow(d) /\ ~delivery[d].success /\ delivery[d].due = "now"

IsDue(d) ==
    IsRow(d) /\ ~delivery[d].success /\ delivery[d].due = "now" /\
    delivery[d].attempts < MaxAttempts

\* retryFailed reads what is due ...
SelectDue(s) ==
    /\ s \in Jobs
    /\ sender[s] = NotSending
    /\ \E d \in Deliverable : IsDue(d)
    /\ SetSender(s, [stage |-> "next", todo |-> {d \in Deliverable : IsDue(d)}])
    /\ UNCHANGED <<endpoint, delivery, crashes>>

\* ... and tries each as it was read.
RetryDelivery(s, d) ==
    /\ s \in Jobs
    /\ sender[s].stage = "next" /\ d \in sender[s].todo
    /\ SetSender(s, [stage |-> "post", row |-> d, todo |-> sender[s].todo \ {d}])
    /\ UNCHANGED <<endpoint, delivery, crashes>>

-----------------------------------------------------------------------------
\* deliver.

PostDelivery(s) ==
    /\ sender[s].stage = "post"
    /\ \E answer \in {"answered", "failed"} : Stage(s, answer)
    /\ UNCHANGED <<endpoint, delivery, crashes>>

\* An update of a row that was deleted with its endpoint is an error, which a
\* success takes for a delivery that failed and which ends the sender otherwise.
RecordSuccess(s) ==
    LET d == sender[s].row
    IN  /\ sender[s].stage = "answered"
        /\ IF IsRow(d)
           THEN /\ delivery' = [delivery EXCEPT ![d] =
                      [delivery[d] EXCEPT !.attempts = delivery[d].attempts + 1, !.success = TRUE, !.due = "null"]]
                /\ NextOf(s)
           ELSE Stage(s, "failed") /\ UNCHANGED delivery
        /\ UNCHANGED <<endpoint, crashes>>

RecordFailure(s) ==
    LET d == sender[s].row
    IN  /\ sender[s].stage = "failed"
        /\ IF IsRow(d)
           THEN /\ delivery' = [delivery EXCEPT ![d] =
                      [delivery[d] EXCEPT !.attempts = delivery[d].attempts + 1, !.success = FALSE]]
                /\ IF delivery[d].attempts + 1 < MaxAttempts THEN Stage(s, "schedule") ELSE NextOf(s)
           ELSE EndSender(s) /\ UNCHANGED delivery
        /\ UNCHANGED <<endpoint, crashes>>

ScheduleRetry(s) ==
    LET d == sender[s].row
    IN  /\ sender[s].stage = "schedule"
        /\ IF IsRow(d)
           THEN delivery' = [delivery EXCEPT ![d].due = "later"] /\ NextOf(s)
           ELSE EndSender(s) /\ UNCHANGED delivery
        /\ UNCHANGED <<endpoint, crashes>>

Finish(s) ==
    /\ sender[s].stage = "next" /\ sender[s].todo = {}
    /\ EndSender(s)
    /\ UNCHANGED <<endpoint, delivery, crashes>>

CrashSender(s) ==
    /\ sender[s] # NotSending
    /\ crashes < MaxCrashes /\ crashes' = crashes + 1
    /\ EndSender(s)
    /\ UNCHANGED <<endpoint, delivery>>

-----------------------------------------------------------------------------
\* The delay of a row passes.
FallsDue(d) ==
    /\ IsRow(d)
    /\ delivery[d].due = "later"
    /\ delivery' = [delivery EXCEPT ![d].due = "now"]
    /\ UNCHANGED <<endpoint, sender, crashes>>

\* Staff delete an endpoint, and its rows go with it.
DeleteEndpoint(e) ==
    /\ e \in endpoint
    /\ endpoint' = endpoint \ {e}
    /\ delivery' = [d \in Deliverable |-> IF delivery[d].to = e THEN Deleted ELSE delivery[d]]
    /\ UNCHANGED <<sender, crashes>>

SendOn(s) ==
    \/ \E e \in Endpoints : CreateDelivery(s, e)
    \/ \E d \in Deliverable : RetryDelivery(s, d)
    \/ SelectDue(s)
    \/ PostDelivery(s) \/ RecordSuccess(s) \/ RecordFailure(s) \/ ScheduleRetry(s) \/ Finish(s)

DeliveriesNext ==
    \/ \E s \in Senders : SendOn(s) \/ Dispatch(s) \/ CrashSender(s)
    \/ \E d \in Deliverable : FallsDue(d)
    \/ \E e \in Endpoints : DeleteEndpoint(e)

DeliveriesSpec == DeliveriesInit /\ [][DeliveriesNext]_deliveryVars

\* A sender goes on, the delays pass and the job is started every minute.
DeliveriesFairness ==
    /\ \A s \in Senders : WF_deliveryVars(SendOn(s))
    /\ \A d \in Deliverable : WF_deliveryVars(FallsDue(d))
-----------------------------------------------------------------------------
\* s is at d, or has it on its list.
At(s, d) == sender[s].stage \in {"post", "answered", "failed", "schedule"} /\ sender[s].row = d
Near(s, d) == At(s, d) \/ (s \in Jobs /\ sender[s].stage # "idle" /\ d \in sender[s].todo)

\* d succeeded, and nobody is about to write to it.
Settled(d) == IsRow(d) /\ delivery[d].success /\ \A s \in Senders : ~Near(s, d)

\* Nobody else comes near a row while its first attempt is under way.
FirstAttemptAlone ==
    \A s \in Dispatchers, d \in Deliverable : At(s, d) => \A t \in Senders \ {s} : ~Near(t, d)

\* webhooks.service.ts:100 and :142: the job does not come near a row while its
\* first attempt is under way, and a delivery that succeeded, once the runs that
\* read it before have passed it, is not sent again nor taken for one that
\* failed, although runs of the job overlap.
SuccessIsFinal ==
    [][/\ FirstAttemptAlone'
       /\ \A d \in Deliverable : Settled(d) => Settled(d)' \/ delivery'[d] = Deleted]_deliveryVars

\* webhooks.service.ts:132: once a first attempt has failed and its retry is
\* scheduled, a delivery succeeds or is tried until its attempts are used up, when
\* senders crash between their statements as well.
FailedIsRetried ==
    \A d \in Deliverable :
        (IsRow(d) /\ delivery[d].due # "null") ~>
            ~(IsRow(d) /\ ~delivery[d].success /\ delivery[d].attempts < MaxAttempts)
=============================================================================
