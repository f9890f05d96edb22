------------------------------- MODULE CronLock -------------------------------
(***************************************************************************)
(* The lock that keeps a cron job from running twice at the same time      *)
(* (CronLockService.runExclusive), for one job name.  The scheduler of     *)
(* every process starts a run of the job when its time comes, whether or   *)
(* not the previous run is over.                                           *)
(*                                                                         *)
(* A run reads the clock once, tries to insert the row, failing that to    *)
(* steal an expired one, runs the job and deletes the row.  Times are      *)
(* kept relative to the present: `since` is how long ago a run read the    *)
(* clock, and a row's `age` how long ago its owner did.                    *)
(***************************************************************************)
EXTENDS Integers

CONSTANTS
    Runs,         \* runs of the job that may be under way at the same time
    Pods,         \* processes
    PodOf,        \* the process of a run, and so its holder id
    Ttl,
    MaxDelay,     \* bound: ticks from reading the clock to deleting the row
    MaxFailures   \* bound: failed statements and crashes

ASSUME PodsAssumption == PodOf \in [Runs -> Pods]
ASSUME TimesAssumption == Ttl \in Nat /\ MaxDelay \in Nat /\ MaxFailures \in Nat

VARIABLES
    row,      \* the CronLock row, with the run that wrote it
    pc,       \* what each run is about to do
    since,    \* ticks since the run read the clock
    overran,  \* history: has a run under way outlived its TTL?
    failures

vars == <<row, pc, since, overran, failures>>

NoRow == [holder |-> "none"]

\* Older rows are all alike: expired for every run under way.
MaxAge == Ttl + MaxDelay + 1
Row == [holder : Pods, run : Runs, age : 0..MaxAge]

TypeOK ==
    /\ row \in Row \cup {NoRow}
    /\ pc \in [Runs -> {"idle", "insert", "steal", "body", "release"}]
    /\ since \in [Runs -> 0..MaxDelay]
    /\ overran \in BOOLEAN
    /\ failures \in 0..MaxFailures

Init ==
    /\ row = NoRow
    /\ pc = [t \in Runs |-> "idle"]
    /\ since = [t \in Runs |-> 0]
    /\ overran = FALSE
    /\ failures = 0

Held == row # NoRow

-----------------------------------------------------------------------------
\* The scheduler fires; acquire reads the clock.
Start(t) ==
    /\ pc[t] = "idle"
    /\ pc' = [pc EXCEPT ![t] = "insert"]
    /\ since' = [since EXCEPT ![t] = 0]
    /\ UNCHANGED <<row, overran, failures>>

\* The row carries the times the run read when it started.
Own(t) == row' = [holder |-> PodOf[t], run |-> t, age |-> since[t]]

\* Fast path: the insert, which unique(name) refuses if there is a row.
Insert(t) ==
    /\ pc[t] = "insert"
    /\ IF Held
       THEN pc' = [pc EXCEPT ![t] = "steal"] /\ UNCHANGED row
       ELSE pc' = [pc EXCEPT ![t] = "body"] /\ Own(t)
    /\ UNCHANGED <<since, overran, failures>>

\* Never treating a lock as free.
ExpiredNever(t) == Held /\ FALSE

\* expiresAt <= now.
ExpiredEarly(t) == Held /\ row.age >= since[t] + Ttl

\* expiresAt < now, with the now the run read.
Expired(t) == Held /\ row.age > since[t] + Ttl

\* Slow path: the conditional update of the row.
Steal(t) ==
    /\ pc[t] = "steal"
    /\ IF Expired(t)
       THEN pc' = [pc EXCEPT ![t] = "body"] /\ Own(t)
       ELSE pc' = [pc EXCEPT ![t] = "idle"] /\ UNCHANGED row
    /\ UNCHANGED <<since, overran, failures>>

\* The job returns or throws.
FinishBody(t) ==
    /\ pc[t] = "body"
    /\ pc' = [pc EXCEPT ![t] = "release"]
    /\ UNCHANGED <<row, since, overran, failures>>

\* Deleting the row whoever holds it.
ReleaseAnyones(t) ==
    /\ pc[t] = "release"
    /\ row' = NoRow
    /\ pc' = [pc EXCEPT ![t] = "idle"]
    /\ UNCHANGED <<since, overran, failures>>

\* Deletes the row if its holder is this process.
Release(t) ==
    /\ pc[t] = "release"
    /\ row' = IF Held /\ row.holder = PodOf[t] THEN NoRow ELSE row
    /\ pc' = [pc EXCEPT ![t] = "idle"]
    /\ UNCHANGED <<since, overran, failures>>

\* The database refuses the insert, the update or the delete.
DatabaseFails(t) ==
    /\ pc[t] \in {"insert", "steal", "release"}
    /\ failures < MaxFailures
    /\ failures' = failures + 1
    /\ pc' = [pc EXCEPT ![t] = "idle"]
    /\ UNCHANGED <<row, since, overran>>

\* A process dies with its runs and leaves its row behind.
Crash(p) ==
    /\ failures < MaxFailures
    /\ failures' = failures + 1
    /\ pc' = [t \in Runs |-> IF PodOf[t] = p THEN "idle" ELSE pc[t]]
    /\ UNCHANGED <<row, since, overran>>

\* Time passes; a run never takes longer than MaxDelay.
Tick ==
    /\ \A t \in Runs : pc[t] # "idle" => since[t] < MaxDelay
    /\ since' = [t \in Runs |-> IF pc[t] = "idle" THEN since[t] ELSE since[t] + 1]
    /\ overran' = (overran \/ \E t \in Runs : pc[t] # "idle" /\ since'[t] > Ttl)
    /\ IF Held /\ row.age < MaxAge
       THEN row' = [row EXCEPT !.age = row.age + 1]
       ELSE UNCHANGED row
    /\ UNCHANGED <<pc, failures>>

-----------------------------------------------------------------------------
Run(t) == Start(t) \/ Insert(t) \/ Steal(t) \/ FinishBody(t) \/ Release(t)

Next ==
    \/ \E t \in Runs : Run(t) \/ DatabaseFails(t)
    \/ \E p \in Pods : Crash(p)
    \/ Tick

Spec == Init /\ [][Next]_vars

\* The scheduler fires again and again, a run that is under way goes on, and
\* time passes.
FairSpec == Spec /\ (\A t \in Runs : WF_vars(Run(t))) /\ SF_vars(Tick)

-----------------------------------------------------------------------------
\* The run that has acquired the lock and not released it yet.
Working(t) == pc[t] \in {"body", "release"}

\* cron-lock.service.ts:17: at most one holder of the name at any time, until
\* a run has taken longer than its TTL from its reading of the clock on.
AtMostOneHolder ==
    ~overran => \A t, u \in Runs : Working(t) /\ Working(u) => t = u

\* The lock is the one that t acquired.
Holds(t) == Working(t) /\ Held /\ row.run = t

\* cron-lock.service.ts:50 and :59: a run that works keeps the lock it acquired
\* until it releases it or its time is up.  The release of a run that lost the
\* lock, whenever it comes, leaves the lock of whoever has taken over alone,
\* unless that is a run of the same process and jobs do outlive their locks:
\* the holder id tells processes apart, not runs.
HolderKeepsLock ==
    [][\A t \in Runs : Holds(t) /\ ~(Held' /\ row'.run = t) =>
          \/ Release(t)
          \/ since[t] > Ttl
          \/ /\ overran
             /\ \E u \in Runs \ {t} : PodOf[u] = PodOf[t] /\ Release(u)]_vars

\* cron-lock.service.ts:18: a lock whose holder died is reclaimed, so the job
\* runs again and again.
JobKeepsRunning == []<>(\E t \in Runs : pc[t] = "body")
=============================================================================
