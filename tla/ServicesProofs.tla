----------------------------- MODULE ServicesProofs ----------------------------
(***************************************************************************)
(* What the jobs and timers of the backend keep: the cron lock for any     *)
(* number of runs, the deliveries of webhooks, the breakers of hooks, the  *)
(* switch of plugins, and the types of these together.                     *)
(***************************************************************************)
EXTENDS MCServices, FiniteSetTheorems, TLAPS

LEMMA TypeStep == TypeOK /\ [Next]_vars => TypeOK'
<1> SUFFICES ASSUME TypeOK, [Next]_vars PROVE TypeOK'
  OBVIOUS
<1>a. 0 \in 0..MaxDelay /\ 0..MaxDelay \subseteq 0..MaxAge
  BY TimesAssumption DEF MaxAge
<1>b. ASSUME NEW t \in Runs, Own(t) PROVE row' \in Row
  BY <1>a, <1>b, PodsAssumption DEF Own, Row, TypeOK
<1>1. ASSUME NEW t \in Runs, Start(t) PROVE TypeOK'
  BY <1>1, <1>a DEF Start, TypeOK
<1>2. ASSUME NEW t \in Runs, Insert(t) PROVE TypeOK'
  BY <1>2, <1>b DEF Insert, TypeOK
<1>3. ASSUME NEW t \in Runs, Steal(t) PROVE TypeOK'
  BY <1>3, <1>b DEF Steal, TypeOK
<1>4. ASSUME NEW t \in Runs, FinishBody(t) \/ Release(t) PROVE TypeOK'
  BY <1>4 DEF FinishBody, Release, TypeOK
<1>5. ASSUME NEW t \in Runs, DatabaseFails(t) PROVE TypeOK'
  BY <1>5, TimesAssumption DEF DatabaseFails, TypeOK
<1>6. ASSUME NEW p \in Pods, Crash(p) PROVE TypeOK'
  BY <1>6, TimesAssumption DEF Crash, TypeOK
<1>7. ASSUME Tick PROVE TypeOK'
  <2>1. since' \in [Runs -> 0..MaxDelay]
    BY <1>7, TimesAssumption DEF Tick, TypeOK
  <2>2. row' \in Row \cup {NoRow}
    <3>1. CASE Held /\ row.age < MaxAge
      <4>1. row \in Row
        BY <3>1 DEF Held, TypeOK
      <4>2. row.age + 1 \in 0..MaxAge
        BY <3>1, <4>1, TimesAssumption DEF Row, MaxAge
      <4> QED
        BY <1>7, <3>1, <4>1, <4>2 DEF Tick, Row
    <3>2. CASE ~(Held /\ row.age < MaxAge)
      BY <1>7, <3>2 DEF Tick, TypeOK
    <3> QED
      BY <3>1, <3>2
  <2>3. overran' \in BOOLEAN
    BY <1>7 DEF Tick, TypeOK
  <2> QED
    BY <1>7, <2>1, <2>2, <2>3 DEF Tick, TypeOK
<1>8. CASE UNCHANGED vars
  BY <1>8 DEF vars, TypeOK
<1> QED
  BY <1>1, <1>2, <1>3, <1>4, <1>5, <1>6, <1>7, <1>8 DEF Next, Run

LEMMA TypeStart == Init => TypeOK
<1>1. Init => overran \in BOOLEAN
  BY DEF Init
<1>2. Init => /\ row \in Row \cup {NoRow}
              /\ pc \in [Runs -> {"idle", "insert", "steal", "body", "release"}]
              /\ since \in [Runs -> 0..MaxDelay]
              /\ failures \in 0..MaxFailures
  BY TimesAssumption DEF Init
<1> QED
  BY <1>1, <1>2 DEF TypeOK

\* Types, for any number of runs and any times.
THEOREM CronTypeCorrect == Spec => []TypeOK
BY TypeStart, TypeStep, PTL DEF Spec

-----------------------------------------------------------------------------
\* The inductive invariant: as long as nobody has overrun, whoever works owns the
\* row and is as old as it.  AtMostOneHolder alone is not inductive: it does not
\* say that the row which a second run would need free or expired is there and
\* fresh.
Owner ==
    \A t \in Runs : Working(t) =>
        /\ row \in Row
        /\ row.run = t
        /\ row.holder = PodOf[t]
        /\ row.age = since[t]
OnTime == \A t \in Runs : pc[t] # "idle" => since[t] <= Ttl

LEMMA OnTimeStep ==
    TypeOK /\ (~overran => OnTime) /\ [Next]_vars => (~overran => OnTime)'
<1> SUFFICES ASSUME TypeOK, ~overran => OnTime, [Next]_vars, ~overran', NEW u \in Runs, pc'[u] # "idle"
             PROVE  since'[u] <= Ttl
  BY DEF OnTime
<1>1. ASSUME NEW t \in Runs, Start(t) PROVE since'[u] <= Ttl
  BY <1>1, TimesAssumption DEF Start, OnTime, TypeOK
<1>2. ASSUME NEW t \in Runs, Insert(t) \/ Steal(t) \/ FinishBody(t) \/ Release(t) \/ DatabaseFails(t)
      PROVE  since'[u] <= Ttl
  BY <1>2 DEF Insert, Steal, FinishBody, Release, DatabaseFails, OnTime, TypeOK
<1>3. ASSUME NEW p \in Pods, Crash(p) PROVE since'[u] <= Ttl
  BY <1>3 DEF Crash, OnTime, TypeOK
<1>4. ASSUME Tick PROVE since'[u] <= Ttl
  <2>1. ~(pc[u] # "idle" /\ since'[u] > Ttl) /\ pc[u] # "idle"
    BY <1>4 DEF Tick
  <2>2. since'[u] = since[u] + 1 /\ since[u] \in Int
    BY <1>4, <2>1, TimesAssumption DEF Tick, TypeOK
  <2> QED
    BY <2>1, <2>2, TimesAssumption
<1>5. CASE UNCHANGED vars
  BY <1>5 DEF vars, OnTime
<1> QED
  BY <1>1, <1>2, <1>3, <1>4, <1>5 DEF Next, Run

LEMMA OwnerStep ==
    TypeOK /\ (~overran => OnTime /\ Owner) /\ [Next]_vars => (~overran => Owner)'
<1> SUFFICES ASSUME TypeOK, ~overran => OnTime /\ Owner, [Next]_vars, ~overran',
                    NEW u \in Runs, Working(u)'
             PROVE  (/\ row \in Row
                     /\ row.run = u
                     /\ row.holder = PodOf[u]
                     /\ row.age = since[u])'
  BY DEF Owner
<1>0. ~overran
  BY DEF Next, Run, Start, Insert, Steal, FinishBody, Release, DatabaseFails, Crash, Tick, vars
<1> Owner /\ OnTime
  BY <1>0
<1> USE DEF Working
<1>a. Held <=> row \in Row
  BY DEF Held, TypeOK, Row, NoRow
<1>b. since[u] \in 0..MaxDelay /\ (Working(u) => since[u] <= Ttl)
  BY TimesAssumption DEF TypeOK, OnTime
\* A run that takes the row finds nobody working.
<1>c. ASSUME NEW t \in Runs, ~Held \/ Expired(t) PROVE ~Working(u)
  <2> SUFFICES ASSUME Working(u) PROVE FALSE
    OBVIOUS
  <2>1. row \in Row /\ row.age = since[u]
    BY DEF Owner
  <2>2. row.age > since[t] + Ttl
    BY <1>a, <1>c, <2>1 DEF Expired
  <2>3. since[t] \in Nat
    BY TimesAssumption DEF TypeOK
  <2> QED
    BY <1>b, <2>1, <2>2, <2>3, TimesAssumption
<1>d. ASSUME NEW t \in Runs, Own(t), UNCHANGED since, t = u
      PROVE  (/\ row \in Row
              /\ row.run = u
              /\ row.holder = PodOf[u]
              /\ row.age = since[u])'
  <2>1. since[t] \in 0..MaxAge
    BY TimesAssumption DEF TypeOK, MaxAge
  <2> QED
    BY <1>d, <2>1, PodsAssumption DEF Own, Row
<1>1. ASSUME NEW t \in Runs, Start(t) \/ FinishBody(t) \/ DatabaseFails(t)
      PROVE  (/\ row \in Row /\ row.run = u /\ row.holder = PodOf[u] /\ row.age = since[u])'
  BY <1>1 DEF Start, FinishBody, DatabaseFails, Owner, TypeOK
<1>2. ASSUME NEW t \in Runs, Insert(t)
      PROVE  (/\ row \in Row /\ row.run = u /\ row.holder = PodOf[u] /\ row.age = since[u])'
  <2>1. CASE Held
    BY <1>2, <2>1 DEF Insert, Owner, TypeOK
  <2>2. CASE ~Held
    <3>1. u = t
      BY <1>2, <1>c, <2>2 DEF Insert, TypeOK
    <3> QED
      BY <1>2, <1>d, <2>2, <3>1 DEF Insert
  <2> QED
    BY <2>1, <2>2
<1>3. ASSUME NEW t \in Runs, Steal(t)
      PROVE  (/\ row \in Row /\ row.run = u /\ row.holder = PodOf[u] /\ row.age = since[u])'
  <2>1. CASE ~Expired(t)
    BY <1>3, <2>1 DEF Steal, Owner, TypeOK
  <2>2. CASE Expired(t)
    <3>1. u = t
      BY <1>3, <1>c, <2>2 DEF Steal, TypeOK
    <3> QED
      BY <1>3, <1>d, <2>2, <3>1 DEF Steal
  <2> QED
    BY <2>1, <2>2
<1>4. ASSUME NEW t \in Runs, Release(t)
      PROVE  (/\ row \in Row /\ row.run = u /\ row.holder = PodOf[u] /\ row.age = since[u])'
  <2>1. u # t /\ Working(u)
    BY <1>4 DEF Release, TypeOK
  <2>2. row.run = u /\ row.run = t
    BY <1>4, <2>1 DEF Release, Owner
  <2> QED
    BY <2>1, <2>2
<1>5. ASSUME NEW p \in Pods, Crash(p)
      PROVE  (/\ row \in Row /\ row.run = u /\ row.holder = PodOf[u] /\ row.age = since[u])'
  BY <1>5 DEF Crash, Owner, TypeOK
<1>6. ASSUME Tick
      PROVE  (/\ row \in Row /\ row.run = u /\ row.holder = PodOf[u] /\ row.age = since[u])'
  <2>1. Working(u) /\ pc[u] # "idle"
    BY <1>6 DEF Tick
  <2>2. row \in Row /\ row.run = u /\ row.holder = PodOf[u] /\ row.age = since[u]
    BY <2>1 DEF Owner
  <2>3. row.age < MaxAge /\ row.age + 1 \in 0..MaxAge
    BY <1>b, <2>2, TimesAssumption DEF MaxAge
  <2>4. row' = [row EXCEPT !.age = row.age + 1]
    BY <1>6, <1>a, <2>2, <2>3 DEF Tick
  <2>5. since'[u] = since[u] + 1
    BY <1>6, <2>1 DEF Tick
  <2> QED
    BY <2>2, <2>3, <2>4, <2>5 DEF Row
<1>7. CASE UNCHANGED vars
  BY <1>7 DEF vars, Owner
<1> QED
  BY <1>1, <1>2, <1>3, <1>4, <1>5, <1>6, <1>7 DEF Next, Run

\* Mutual exclusion: until a run has taken longer than the TTL from its reading
\* of the clock on, at most one run holds the lock, with any number of processes,
\* overlapping runs, crashes and failed statements.
THEOREM LockIsExclusive == Spec => []AtMostOneHolder
<1>1. Init => OnTime /\ Owner
  BY TimesAssumption DEF Init, Owner, OnTime, Working
<1>2. (~overran => Owner) => AtMostOneHolder
  BY DEF Owner, AtMostOneHolder
<1> QED
  BY <1>1, <1>2, CronTypeCorrect, OnTimeStep, OwnerStep, PTL DEF Spec

-----------------------------------------------------------------------------
\* The row names the process of the run that wrote it.
HolderIsWriter == Held => row.holder = PodOf[row.run]

LEMMA HolderStep == TypeOK /\ HolderIsWriter /\ [Next]_vars => HolderIsWriter'
<1> SUFFICES ASSUME TypeOK, HolderIsWriter, [Next]_vars PROVE HolderIsWriter'
  OBVIOUS
<1> USE DEF HolderIsWriter, Held
<1>1. ASSUME NEW t \in Runs, Own(t) PROVE HolderIsWriter'
  BY <1>1 DEF Own
<1>2. ASSUME Tick PROVE HolderIsWriter'
  <2>1. row' = row \/ (row \in Row /\ row' = [row EXCEPT !.age = row.age + 1])
    BY <1>2 DEF Tick, TypeOK
  <2> QED
    BY <2>1 DEF Row, NoRow
<1>3. ASSUME NEW t \in Runs, Run(t) \/ DatabaseFails(t) PROVE HolderIsWriter'
  BY <1>1, <1>3 DEF Run, Start, Insert, Steal, FinishBody, Release, DatabaseFails
<1>4. ASSUME NEW p \in Pods, Crash(p) PROVE HolderIsWriter'
  BY <1>4 DEF Crash
<1>5. CASE UNCHANGED vars
  BY <1>5 DEF vars
<1> QED
  BY <1>2, <1>3, <1>4, <1>5 DEF Next

\* The row of a run that works is as old as the run.
AgeIsSince == \A t \in Runs : Holds(t) => row.age = since[t]

LEMMA AgeStep == TypeOK /\ AgeIsSince /\ [Next]_vars => AgeIsSince'
<1> SUFFICES ASSUME TypeOK, AgeIsSince, [Next]_vars, NEW u \in Runs, Holds(u)'
             PROVE  row'.age = since'[u]
  BY DEF AgeIsSince
<1> USE DEF Holds, Working, Held
<1>1. ASSUME NEW t \in Runs, Own(t), UNCHANGED since PROVE row'.age = since'[u]
  BY <1>1 DEF Own
<1>2. ASSUME NEW t \in Runs, Start(t) \/ FinishBody(t) \/ DatabaseFails(t) PROVE row'.age = since'[u]
  BY <1>2 DEF Start, FinishBody, DatabaseFails, AgeIsSince, TypeOK
<1>3. ASSUME NEW t \in Runs, Insert(t) \/ Steal(t), UNCHANGED row PROVE row'.age = since'[u]
  <2>1. pc'[t] \in {"steal", "idle"} \/ Own(t)
    BY <1>3 DEF Insert, Steal, TypeOK
  <2>2. UNCHANGED since
    BY <1>3 DEF Insert, Steal
  <2>3. u # t => pc'[u] = pc[u]
    BY <1>3 DEF Insert, Steal, TypeOK
  <2> QED
    BY <1>1, <1>3, <2>1, <2>2, <2>3 DEF AgeIsSince
<1>4. ASSUME NEW t \in Runs, Insert(t) \/ Steal(t) PROVE row'.age = since'[u]
  BY <1>1, <1>3, <1>4 DEF Insert, Steal
<1>5. ASSUME NEW t \in Runs, Release(t) PROVE row'.age = since'[u]
  <2>1. row' = row /\ UNCHANGED since
    BY <1>5 DEF Release
  <2>2. pc[u] \in {"body", "release"}
    BY <1>5 DEF Release, TypeOK
  <2> QED
    BY <2>1, <2>2 DEF AgeIsSince
<1>6. ASSUME NEW p \in Pods, Crash(p) PROVE row'.age = since'[u]
  BY <1>6 DEF Crash, AgeIsSince, TypeOK
<1>7. ASSUME Tick PROVE row'.age = since'[u]
  <2>1. Held /\ row \in Row /\ pc[u] \in {"body", "release"}
    BY <1>7 DEF Tick, TypeOK
  <2>2. row'.run = row.run
    BY <1>7, <2>1 DEF Tick, Row
  <2>3. row.age = since[u] /\ since[u] < MaxDelay /\ since[u] \in Nat
    BY <1>7, <2>1, <2>2, TimesAssumption DEF AgeIsSince, Tick, TypeOK
  <2>4. row.age < MaxAge
    BY <2>3, TimesAssumption DEF MaxAge
  <2>5. row' = [row EXCEPT !.age = row.age + 1] /\ since'[u] = since[u] + 1
    BY <1>7, <2>1, <2>4 DEF Tick
  <2> QED
    BY <2>1, <2>3, <2>5 DEF Row
<1>8. CASE UNCHANGED vars
  BY <1>8 DEF vars, AgeIsSince
<1> QED
  BY <1>2, <1>4, <1>5, <1>6, <1>7, <1>8 DEF Next, Run

\* For any processes, runs and times: a run that works loses its lock to its own
\* release, to the end of its TTL, or, once some job has outlived its lock, to the
\* release of another run of the same process; never to that of another process.
THEOREM WorkingRunKeepsLock == Spec => HolderKeepsLock
<1> DEFINE Kept ==
      \A t \in Runs : Holds(t) /\ ~(Held' /\ row'.run = t) =>
          \/ Release(t)
          \/ since[t] > Ttl
          \/ /\ overran
             /\ \E u \in Runs \ {t} : PodOf[u] = PodOf[t] /\ Release(u)
<1>1. Init => HolderIsWriter /\ AgeIsSince /\ OnTime /\ Owner
  BY TimesAssumption DEF Init, HolderIsWriter, AgeIsSince, Holds, Held, OnTime, Owner, Working
<1>2. ASSUME TypeOK, HolderIsWriter, AgeIsSince, ~overran => Owner, [Next]_vars
      PROVE  Kept
  <2> SUFFICES ASSUME NEW t \in Runs, Holds(t), ~(Held' /\ row'.run = t), ~Release(t)
               PROVE  \/ since[t] > Ttl
                      \/ /\ overran
                         /\ \E u \in Runs \ {t} : PodOf[u] = PodOf[t] /\ Release(u)
    OBVIOUS
  <2>0. /\ Held /\ row \in Row /\ row.run = t /\ row.holder = PodOf[t] /\ row.age = since[t]
        /\ Working(t) /\ since[t] \in Nat
    BY <1>2, TimesAssumption DEF Holds, Held, TypeOK, HolderIsWriter, AgeIsSince
  <2>1. CASE row' = row
    BY <2>0, <2>1 DEF Held
  <2>2. ASSUME NEW u \in Runs, Steal(u), Expired(u) PROVE since[t] > Ttl
    <3>1. since[u] \in Nat /\ row.age > since[u] + Ttl
      BY <1>2, <2>2, TimesAssumption DEF Expired, TypeOK
    <3> QED
      BY <2>0, <3>1, TimesAssumption
  <2>3. ASSUME NEW u \in Runs, Release(u), row' # row
        PROVE  overran /\ u \in Runs \ {t} /\ PodOf[u] = PodOf[t]
    <3>1. row.holder = PodOf[u] /\ u # t /\ Working(u)
      BY <2>3 DEF Release, Working
    <3> QED
      BY <1>2, <2>0, <3>1 DEF Owner
  <2>4. ASSUME Tick PROVE row'.run = t /\ Held'
    BY <2>0, <2>4 DEF Tick, Row, Held, NoRow
  <2>5. ASSUME NEW u \in Runs, Run(u) \/ DatabaseFails(u), row' # row
        PROVE  (Steal(u) /\ Expired(u)) \/ Release(u)
    BY <2>0, <2>5 DEF Run, Start, Insert, Steal, FinishBody, DatabaseFails
  <2>6. ASSUME NEW p \in Pods, Crash(p) PROVE row' = row
    BY <2>6 DEF Crash
  <2> QED
    BY <1>2, <2>1, <2>2, <2>3, <2>4, <2>5, <2>6 DEF Next, vars
<1>3. TypeOK /\ HolderIsWriter /\ AgeIsSince /\ (~overran => Owner) /\ [Next]_vars => [Kept]_vars
  BY <1>2
<1> QED
  BY <1>1, <1>3, CronTypeCorrect, HolderStep, AgeStep, OnTimeStep, OwnerStep, PTL DEF Spec, HolderKeepsLock

-----------------------------------------------------------------------------
\* Outgoing webhooks, for any number of endpoints, events, crashes and runs of the job
\* that overlap.

On(r) == r.stage \in {"post", "answered", "failed", "schedule"}
\* The rows that a sender will write to.
RowsFor(s, r) ==
    (IF On(r) THEN {r.row} ELSE {}) \cup (IF s \in Jobs /\ r # NotSending THEN r.todo ELSE {})

DeliveryRow == [to : Endpoints, attempts : Nat, success : BOOLEAN, due : {"null", "later", "now"}]
SenderForm(s) == IF s \in Jobs THEN Sending(SUBSET Deliverable) ELSE Sending(SUBSET Endpoints)
DeliveriesTyped ==
    /\ endpoint \subseteq Endpoints
    /\ delivery \in [Deliverable -> DeliveryRow \cup {NoDelivery, Deleted}]
    /\ sender = [s \in Senders |-> sender[s]]
    /\ \A s \in Senders : sender[s] \in SenderForm(s)

\* A row that a sender is to write to was created, and has no time of a next attempt for
\* whoever created it; ...
Awaits(s, d) ==
    /\ delivery[d] # NoDelivery
    /\ s \notin Jobs /\ IsRow(d) => delivery[d].due = "null"
RowsAwait == \A s \in Senders : \A d \in RowsFor(s, sender[s]) : Awaits(s, d)
\* ... and nobody else is to write to a row while its creator is at it.
RowsAreApart ==
    \A s \in Senders \ Jobs, u \in Senders :
        u # s /\ On(sender[s]) => sender[s].row \notin RowsFor(u, sender[u])

DeliveriesInv == DeliveriesTyped /\ RowsAwait /\ RowsAreApart

LEMMA SendingForms ==
    ASSUME NEW s, NEW r \in SenderForm(s)
    PROVE  /\ On(r) => r.row \in Deliverable /\ r # NotSending
           /\ r # NotSending => [stage |-> "next", todo |-> r.todo] \in SenderForm(s)
           /\ r # NotSending /\ s \in Jobs => r.todo \subseteq Deliverable
           /\ r # NotSending /\ s \notin Jobs => r.todo \subseteq Endpoints
           /\ NotSending \in SenderForm(s) /\ ~On(NotSending)
BY DEF SenderForm, Sending, NotSending, On

LEMMA StageForms ==
    ASSUME NEW s, NEW r \in SenderForm(s), On(r),
           NEW stage \in {"post", "answered", "failed", "schedule"}
    PROVE  LET next == [r EXCEPT !.stage = stage]
           IN  next \in SenderForm(s) /\ next.stage = stage /\ next.row = r.row /\ next.todo = r.todo
BY DEF SenderForm, Sending, NotSending, On

LEMMA RowsInRange ==
    ASSUME NEW s, NEW r \in SenderForm(s)
    PROVE  RowsFor(s, r) \subseteq Deliverable
<1>1. On(r) => r.row \in Deliverable
  BY SendingForms
<1>2. s \in Jobs /\ r # NotSending => r.todo \subseteq Deliverable
  BY SendingForms
<1> QED
  BY <1>1, <1>2 DEF RowsFor

LEMMA DeliveriesStart == DeliveriesInit => DeliveriesInv
<1> SUFFICES ASSUME DeliveriesInit PROVE DeliveriesInv
  OBVIOUS
<1>1. /\ endpoint = Endpoints /\ delivery = [d \in Deliverable |-> NoDelivery]
      /\ sender = [s \in Senders |-> NotSending]
  BY DEF DeliveriesInit
<1>2. \A s \in Senders : ~On(sender[s]) /\ RowsFor(s, sender[s]) = {}
  BY <1>1 DEF On, RowsFor, NotSending
<1>3. DeliveriesTyped
  BY <1>1 DEF DeliveriesTyped, SenderForm, Sending
<1> QED
  BY <1>2, <1>3 DEF DeliveriesInv, RowsAwait, RowsAreApart, Senders

\* A sender goes on and writes nothing; a job takes up only what is due.
LEMMA SenderMoves ==
    ASSUME DeliveriesInv, NEW s \in Senders, NEW r \in SenderForm(s),
           sender' = [sender EXCEPT ![s] = r], UNCHANGED <<endpoint, delivery>>,
           \A d \in RowsFor(s, r) : d \in RowsFor(s, sender[s]) \/ (s \in Jobs /\ IsDue(d)),
           On(r) => s \in Jobs \/ (On(sender[s]) /\ r.row = sender[s].row)
    PROVE  DeliveriesInv'
<1>1. \A u \in Senders : sender'[u] = IF u = s THEN r ELSE sender[u]
  BY DEF DeliveriesInv, DeliveriesTyped
<1>2. DeliveriesTyped'
  BY <1>1 DEF DeliveriesInv, DeliveriesTyped
<1>3. ASSUME NEW u, NEW d
      PROVE  Awaits(u, d)' <=> Awaits(u, d)
  BY DEF Awaits, IsRow
<1>4. \A d \in RowsFor(s, r) : Awaits(s, d)
  BY DEF DeliveriesInv, RowsAwait, Awaits, IsDue, IsRow
<1>5. RowsAwait'
  <2> SUFFICES ASSUME NEW u \in Senders, NEW d \in RowsFor(u, sender'[u])
               PROVE  Awaits(u, d)'
    BY DEF RowsAwait, RowsFor, On
  <2>1. CASE u = s
    BY <1>1, <1>3, <1>4, <2>1
  <2>2. CASE u # s
    BY <1>1, <1>3, <2>2 DEF DeliveriesInv, RowsAwait
  <2> QED
    BY <2>1, <2>2
<1>6. RowsAreApart'
  <2> SUFFICES ASSUME NEW v \in Senders \ Jobs, NEW u \in Senders, u # v, On(sender'[v]),
                      sender'[v].row \in RowsFor(u, sender'[u])
               PROVE  FALSE
    BY DEF RowsAreApart, RowsFor, On
  <2>1. On(sender[v]) /\ sender[v].row = sender'[v].row
    BY <1>1
  <2>2. sender[v].row \notin RowsFor(u, sender[u])
    BY <2>1 DEF DeliveriesInv, RowsAreApart
  <2>3. u = s /\ u \in Jobs /\ IsDue(sender[v].row)
    BY <1>1, <2>1, <2>2
  <2>4. Awaits(v, sender[v].row)
    BY <2>1 DEF DeliveriesInv, RowsAwait, RowsFor
  <2> QED
    BY <2>3, <2>4 DEF Awaits, IsDue
<1> QED
  BY <1>2, <1>5, <1>6 DEF DeliveriesInv

\* A sender writes to the row it is at, and leaves it, or stays to schedule the retry.
LEMMA SenderRecords ==
    ASSUME DeliveriesInv, NEW s \in Senders, NEW r \in SenderForm(s), NEW x \in DeliveryRow,
           On(sender[s]), IsRow(sender[s].row), UNCHANGED endpoint,
           sender' = [sender EXCEPT ![s] = r], delivery' = [delivery EXCEPT ![sender[s].row] = x],
           r.todo = sender[s].todo,
           \/ r.stage = "next"
           \/ r.stage = "schedule" /\ r.row = sender[s].row /\ x.due = delivery[sender[s].row].due
    PROVE  DeliveriesInv'
<1> DEFINE d == sender[s].row
<1>1. \A u \in Senders : sender'[u] = IF u = s THEN r ELSE sender[u]
  BY DEF DeliveriesInv, DeliveriesTyped
<1>2. d \in Deliverable /\ d \in RowsFor(s, sender[s]) /\ sender[s] # NotSending
  BY SendingForms DEF DeliveriesInv, DeliveriesTyped, RowsFor
<1>3. \A c \in Deliverable : delivery'[c] = IF c = d THEN x ELSE delivery[c]
  BY DEF DeliveriesInv, DeliveriesTyped
<1>4. DeliveriesTyped'
  BY <1>1, <1>3 DEF DeliveriesInv, DeliveriesTyped
<1>5. ASSUME NEW u \in Senders, NEW c \in RowsFor(u, sender[u])
      PROVE  c \in Deliverable /\ Awaits(u, c)
  <2>1. Awaits(u, c)
    BY <1>5 DEF DeliveriesInv, RowsAwait
  <2>2. sender[u] \in SenderForm(u)
    BY DEF DeliveriesInv, DeliveriesTyped
  <2>3. c \in Deliverable
    BY <1>5, <2>2, RowsInRange
  <2> QED
    BY <2>1, <2>3
<1>6. ASSUME NEW u, NEW c \in Deliverable, c # d
      PROVE  Awaits(u, c)' <=> Awaits(u, c)
  BY <1>3, <1>6 DEF Awaits, IsRow
<1>7. x # NoDelivery
  BY DEF DeliveryRow, NoDelivery
<1>8. RowsFor(s, r) \subseteq RowsFor(s, sender[s])
  BY <1>2 DEF RowsFor, On
<1>9. ASSUME NEW u \in Senders, NEW c \in RowsFor(u, sender'[u])
      PROVE  c \in RowsFor(u, sender[u])
  BY <1>1, <1>8, <1>9
<1>10. RowsAwait'
  <2> SUFFICES ASSUME NEW u \in Senders, NEW c \in RowsFor(u, sender'[u])
               PROVE  Awaits(u, c)'
    BY DEF RowsAwait, RowsFor, On
  <2>0. c \in RowsFor(u, sender[u]) /\ c \in Deliverable /\ Awaits(u, c)
    BY <1>5, <1>9
  <2>1. CASE c # d
    BY <1>6, <2>0, <2>1
  <2>2. CASE c = d /\ u \in Jobs
    BY <1>2, <1>3, <1>7, <2>2 DEF Awaits
  <2>3. CASE c = d /\ u \notin Jobs
    <3>1. On(sender[u]) /\ sender[u].row = d
      BY <2>0, <2>3 DEF RowsFor
    <3>2. u = s
      BY <1>2, <2>3, <3>1 DEF DeliveriesInv, RowsAreApart
    <3>3. On(r) /\ r.stage = "schedule" /\ x.due = delivery[d].due
      BY <1>1, <2>3, <3>2 DEF RowsFor, On
    <3> QED
      BY <1>2, <1>3, <1>7, <2>0, <2>3, <3>2, <3>3 DEF Awaits
  <2> QED
    BY <2>1, <2>2, <2>3
<1>11. RowsAreApart'
  <2> SUFFICES ASSUME NEW v \in Senders \ Jobs, NEW u \in Senders, u # v, On(sender'[v]),
                      sender'[v].row \in RowsFor(u, sender'[u])
               PROVE  FALSE
    BY DEF RowsAreApart, RowsFor, On
  <2>1. On(sender[v]) /\ sender[v].row = sender'[v].row
    BY <1>1 DEF On
  <2> QED
    BY <1>9, <2>1 DEF DeliveriesInv, RowsAreApart
<1> QED
  BY <1>4, <1>10, <1>11 DEF DeliveriesInv

\* webhooks.service.ts:66: a row is created for an endpoint, and only its creator knows it.
LEMMA CreateKeeps ==
    ASSUME DeliveriesInv, NEW s \in Senders, NEW e \in Endpoints, CreateDelivery(s, e)
    PROVE  DeliveriesInv'
<1>0. s \in Dispatchers /\ s \notin Jobs /\ sender[s] \in SenderForm(s) /\ sender[s] # NotSending
  BY DeliveriesAssumption DEF CreateDelivery, DeliveriesInv, DeliveriesTyped, NotSending
<1>1. CASE e \notin endpoint
  <2>1. sender' = [sender EXCEPT ![s] = NotSending] /\ UNCHANGED <<endpoint, delivery>>
    BY <1>1 DEF CreateDelivery, EndSender, SetSender
  <2>2. RowsFor(s, NotSending) = {} /\ ~On(NotSending) /\ NotSending \in SenderForm(s)
    BY <1>0, SendingForms DEF RowsFor
  <2> QED
    BY <2>1, <2>2, SenderMoves
<1>2. ASSUME e \in endpoint, NEW d \in Deliverable, delivery[d] = NoDelivery,
             delivery' = [delivery EXCEPT ![d] = NewDelivery(e)],
             SetSender(s, [stage |-> "post", row |-> d, todo |-> sender[s].todo \ {e}]),
             UNCHANGED endpoint
      PROVE  DeliveriesInv'
  <2> DEFINE r == [stage |-> "post", row |-> d, todo |-> sender[s].todo \ {e}]
             x == NewDelivery(e)
  <2>1. x \in DeliveryRow /\ x.due = "null" /\ ~x.success /\ x # NoDelivery
    BY DEF NewDelivery, DeliveryRow, NoDelivery
  <2>2. r \in SenderForm(s) /\ r.row = d /\ r.stage = "post"
    BY <1>0, SendingForms DEF SenderForm, Sending
  <2>3. sender' = [sender EXCEPT ![s] = r] /\ delivery' = [delivery EXCEPT ![d] = x]
    BY <1>2 DEF SetSender
  <2> HIDE DEF r, x
  <2>4. \A u \in Senders : sender'[u] = IF u = s THEN r ELSE sender[u]
    BY <2>3 DEF DeliveriesInv, DeliveriesTyped
  <2>5. \A c \in Deliverable : delivery'[c] = IF c = d THEN x ELSE delivery[c]
    BY <2>3 DEF DeliveriesInv, DeliveriesTyped
  <2>6. DeliveriesTyped'
    BY <1>2, <2>1, <2>2, <2>3 DEF DeliveriesInv, DeliveriesTyped
  <2>7. ASSUME NEW u \in Senders, NEW c \in RowsFor(u, sender[u])
        PROVE  c \in Deliverable /\ c # d /\ Awaits(u, c)'
    <3>1. Awaits(u, c)
      BY <2>7 DEF DeliveriesInv, RowsAwait
    <3>2. sender[u] \in SenderForm(u)
      BY DEF DeliveriesInv, DeliveriesTyped
    <3>3. c \in Deliverable
      BY <2>7, <3>2, RowsInRange
    <3> QED
      BY <1>2, <2>5, <3>1, <3>3 DEF Awaits, IsRow
  <2>8. RowsAwait'
    <3> SUFFICES ASSUME NEW u \in Senders, NEW c \in RowsFor(u, sender'[u])
                 PROVE  Awaits(u, c)'
      BY DEF RowsAwait, RowsFor, On
    <3>1. CASE u # s
      BY <2>4, <2>7, <3>1
    <3>2. CASE u = s
      <4>1. c = d
        BY <1>0, <2>2, <2>4, <3>2 DEF RowsFor
      <4> QED
        BY <1>0, <2>1, <2>5, <3>2, <4>1 DEF Awaits, IsRow
    <3> QED
      BY <3>1, <3>2
  <2>9. RowsAreApart'
    <3> SUFFICES ASSUME NEW v \in Senders \ Jobs, NEW u \in Senders, u # v, On(sender'[v]),
                        sender'[v].row \in RowsFor(u, sender'[u])
                 PROVE  FALSE
      BY DEF RowsAreApart, RowsFor, On
    <3>1. CASE v = s
      BY <2>2, <2>4, <2>7, <3>1
    <3>2. CASE u = s
      <4>1. sender'[v].row = d /\ sender[v] = sender'[v]
        BY <1>0, <2>2, <2>4, <3>2 DEF RowsFor
      <4>2. d \in RowsFor(v, sender[v])
        BY <4>1 DEF RowsFor
      <4> QED
        BY <2>7, <4>2
    <3>3. CASE v # s /\ u # s
      BY <2>4, <3>3 DEF DeliveriesInv, RowsAreApart
    <3> QED
      BY <3>1, <3>2, <3>3
  <2> QED
    BY <2>6, <2>8, <2>9 DEF DeliveriesInv
<1> QED
  BY <1>1, <1>2 DEF CreateDelivery

\* The delay of a row passes, or rows go with their endpoint: no sender is at a row that
\* waits for its delay.
LEMMA RowsChange ==
    ASSUME DeliveriesInv, UNCHANGED sender, endpoint' \subseteq endpoint,
           delivery' \in [Deliverable -> DeliveryRow \cup {NoDelivery, Deleted}],
           \A d \in Deliverable :
              \/ delivery'[d] = delivery[d] \/ delivery'[d] = Deleted
              \/ IsRow(d) /\ delivery[d].due = "later" /\ delivery'[d] \in DeliveryRow
    PROVE  DeliveriesInv'
<1>1. DeliveriesTyped'
  BY DEF DeliveriesInv, DeliveriesTyped
<1>2. ASSUME NEW u \in Senders, NEW c \in RowsFor(u, sender[u])
      PROVE  Awaits(u, c)'
  <2>1. Awaits(u, c)
    BY <1>2 DEF DeliveriesInv, RowsAwait
  <2>2. sender[u] \in SenderForm(u)
    BY DEF DeliveriesInv, DeliveriesTyped
  <2>3. c \in Deliverable
    BY <1>2, <2>2, RowsInRange
  <2>4. Deleted # NoDelivery /\ NoDelivery \notin DeliveryRow
    BY DEF Deleted, NoDelivery, DeliveryRow
  <2> QED
    BY <2>1, <2>3, <2>4 DEF Awaits, IsRow
<1>3. RowsAwait'
  BY <1>2 DEF RowsAwait, RowsFor, On
<1>4. RowsAreApart'
  BY DEF DeliveriesInv, RowsAreApart, On
<1> QED
  BY <1>1, <1>3, <1>4 DEF DeliveriesInv

\* A sender ends, or goes on to the next.
LEMMA SenderEnds ==
    ASSUME DeliveriesInv, NEW s \in Senders, EndSender(s), UNCHANGED <<endpoint, delivery>>
    PROVE  DeliveriesInv'
<1>1. NotSending \in SenderForm(s) /\ ~On(NotSending)
  BY SendingForms DEF DeliveriesInv, DeliveriesTyped
<1>2. RowsFor(s, NotSending) = {}
  BY <1>1 DEF RowsFor
<1> QED
  BY <1>1, <1>2, SenderMoves DEF EndSender, SetSender

LEMMA StageChanges ==
    ASSUME DeliveriesInv, NEW s \in Senders, On(sender[s]),
           NEW stage \in {"post", "answered", "failed", "schedule"}, Stage(s, stage),
           UNCHANGED <<endpoint, delivery>>
    PROVE  DeliveriesInv'
<1> DEFINE r == [sender[s] EXCEPT !.stage = stage]
<1>1. sender[s] \in SenderForm(s)
  BY DEF DeliveriesInv, DeliveriesTyped
<1>2. r \in SenderForm(s) /\ r.stage = stage /\ r.row = sender[s].row /\ r.todo = sender[s].todo
  BY <1>1 DEF SenderForm, Sending, NotSending, On
<1>0. sender[s] # NotSending
  BY <1>1, SendingForms
<1>3. sender' = [sender EXCEPT ![s] = r]
  BY DEF Stage, SetSender
<1> HIDE DEF r
<1>4. RowsFor(s, r) \subseteq RowsFor(s, sender[s])
  BY <1>0, <1>2 DEF RowsFor
<1> QED
  BY <1>2, <1>3, <1>4, SenderMoves

\* webhooks.service.ts:140: the job reads what is due, and takes one of it after the other.
LEMMA JobKeeps ==
    ASSUME DeliveriesInv, NEW s \in Senders,
           SelectDue(s) \/ \E d \in Deliverable : RetryDelivery(s, d)
    PROVE  DeliveriesInv'
<1>1. CASE SelectDue(s)
  <2> DEFINE r == [stage |-> "next", todo |-> {d \in Deliverable : IsDue(d)}]
  <2>1. s \in Jobs /\ sender' = [sender EXCEPT ![s] = r] /\ UNCHANGED <<endpoint, delivery>>
    BY <1>1 DEF SelectDue, SetSender
  <2>2. r \in SenderForm(s) /\ ~On(r)
    BY <2>1 DEF SenderForm, Sending, On
  <2>3. \A d \in RowsFor(s, r) : IsDue(d)
    BY <2>2 DEF RowsFor
  <2> HIDE DEF r
  <2> QED
    BY <2>1, <2>2, <2>3, SenderMoves
<1>2. ASSUME NEW d \in Deliverable, RetryDelivery(s, d)
      PROVE  DeliveriesInv'
  <2> DEFINE r == [stage |-> "post", row |-> d, todo |-> sender[s].todo \ {d}]
  <2>1. /\ s \in Jobs /\ sender' = [sender EXCEPT ![s] = r] /\ UNCHANGED <<endpoint, delivery>>
        /\ sender[s] # NotSending /\ d \in sender[s].todo
    BY <1>2 DEF RetryDelivery, SetSender, NotSending
  <2>2. sender[s] \in SenderForm(s)
    BY DEF DeliveriesInv, DeliveriesTyped
  <2>3. sender[s].todo \subseteq Deliverable
    BY <2>1, <2>2, SendingForms
  <2>4. r \in SenderForm(s) /\ r.row = d /\ r.todo = sender[s].todo \ {d}
    BY <2>1, <2>3 DEF SenderForm, Sending
  <2> HIDE DEF r
  <2>5. RowsFor(s, r) \subseteq RowsFor(s, sender[s])
    BY <2>1, <2>4 DEF RowsFor
  <2> QED
    BY <2>1, <2>4, <2>5, SenderMoves
<1> QED
  BY <1>1, <1>2

LEMMA OneMore ==
    ASSUME NEW old \in DeliveryRow
    PROVE  /\ [old EXCEPT !.attempts = old.attempts + 1, !.success = TRUE, !.due = "null"] \in DeliveryRow
           /\ LET x == [old EXCEPT !.attempts = old.attempts + 1, !.success = FALSE]
              IN  x \in DeliveryRow /\ ~x.success /\ x.due = old.due
<1>1. old.attempts + 1 \in Nat /\ old.due \in {"null", "later", "now"} /\ old.to \in Endpoints
  BY DEF DeliveryRow
<1>2. old = [to |-> old.to, attempts |-> old.attempts, success |-> old.success, due |-> old.due]
  BY DEF DeliveryRow
<1> QED
  BY <1>1, <1>2 DEF DeliveryRow

\* deliver: what comes back is recorded in the row (webhooks.service.ts:100 and :111).
LEMMA DeliverKeeps ==
    ASSUME DeliveriesInv, NEW s \in Senders,
           RecordSuccess(s) \/ RecordFailure(s) \/ ScheduleRetry(s)
    PROVE  DeliveriesInv'
<1> DEFINE d == sender[s].row
           old == delivery[d]
           next == [stage |-> "next", todo |-> sender[s].todo]
<1>1. On(sender[s]) /\ UNCHANGED endpoint /\ sender[s] \in SenderForm(s)
  BY DEF RecordSuccess, RecordFailure, ScheduleRetry, On, DeliveriesInv, DeliveriesTyped
<1>2. d \in Deliverable /\ sender[s] # NotSending
  BY <1>1, SendingForms
<1>3. next \in SenderForm(s) /\ next.stage = "next" /\ next.todo = sender[s].todo
  BY <1>1, <1>2, SendingForms
<1>4. CASE ~IsRow(d)
  <2>1. UNCHANGED delivery /\ (EndSender(s) \/ Stage(s, "failed"))
    BY <1>4 DEF RecordSuccess, RecordFailure, ScheduleRetry
  <2> QED
    BY <1>1, <2>1, SenderEnds, StageChanges
<1>5. CASE IsRow(d)
  <2>1. old \in DeliveryRow
    BY <1>2, <1>5 DEF DeliveriesInv, DeliveriesTyped, IsRow
  <2>3. CASE RecordSuccess(s)
    <3> DEFINE x == [old EXCEPT !.attempts = old.attempts + 1, !.success = TRUE, !.due = "null"]
    <3>1. x \in DeliveryRow
      BY <2>1, OneMore
    <3>2. sender' = [sender EXCEPT ![s] = next] /\ delivery' = [delivery EXCEPT ![d] = x]
      BY <1>5, <2>3 DEF RecordSuccess, NextOf, SetSender
    <3> HIDE DEF x, next
    <3> QED
      BY <1>1, <1>3, <1>5, <3>1, <3>2, SenderRecords
  <2>4. CASE RecordFailure(s)
    <3> DEFINE x == [old EXCEPT !.attempts = old.attempts + 1, !.success = FALSE]
               wait == [sender[s] EXCEPT !.stage = "schedule"]
    <3>1. x \in DeliveryRow /\ ~x.success /\ x.due = old.due
      BY <2>1, OneMore
    <3>2. /\ wait \in SenderForm(s) /\ wait.stage = "schedule" /\ wait.row = d
          /\ wait.todo = sender[s].todo
      BY <1>1, StageForms
    <3>3. /\ delivery' = [delivery EXCEPT ![d] = x]
          /\ sender' = [sender EXCEPT ![s] = next] \/ sender' = [sender EXCEPT ![s] = wait]
      BY <1>5, <2>4 DEF RecordFailure, NextOf, Stage, SetSender
    <3> HIDE DEF x, next, wait
    <3> QED
      BY <1>1, <1>3, <1>5, <3>1, <3>2, <3>3, SenderRecords
  <2>5. CASE ScheduleRetry(s)
    <3> DEFINE x == [old EXCEPT !.due = "later"]
    <3>1. x \in DeliveryRow
      BY <2>1 DEF DeliveryRow
    <3>2. sender' = [sender EXCEPT ![s] = next] /\ delivery' = [delivery EXCEPT ![d] = x]
      BY <1>5, <2>5 DEF ScheduleRetry, NextOf, SetSender
    <3> HIDE DEF x, next
    <3> QED
      BY <1>1, <1>3, <1>5, <3>1, <3>2, SenderRecords
  <2> QED
    BY <2>3, <2>4, <2>5
<1> QED
  BY <1>4, <1>5

LEMMA DeliveriesKeep ==
    ASSUME DeliveriesInv, [DeliveriesNext]_deliveryVars
    PROVE  DeliveriesInv'
<1>1. CASE UNCHANGED deliveryVars
  <2>1. delivery \in [Deliverable -> DeliveryRow \cup {NoDelivery, Deleted}]
    BY DEF DeliveriesInv, DeliveriesTyped
  <2> QED
    BY <1>1, <2>1, RowsChange DEF deliveryVars
<1>2. ASSUME NEW s \in Senders, Dispatch(s)
      PROVE  DeliveriesInv'
  <2> DEFINE r == [stage |-> "next", todo |-> endpoint]
  <2>1. s \notin Jobs /\ sender' = [sender EXCEPT ![s] = r] /\ UNCHANGED <<endpoint, delivery>>
    BY <1>2, DeliveriesAssumption DEF Dispatch, SetSender
  <2>2. r \in SenderForm(s) /\ ~On(r)
    BY <2>1 DEF SenderForm, Sending, On, DeliveriesInv, DeliveriesTyped
  <2>3. RowsFor(s, r) = {}
    BY <2>1, <2>2 DEF RowsFor
  <2> HIDE DEF r
  <2> QED
    BY <2>1, <2>2, <2>3, SenderMoves
<1>3. ASSUME NEW s \in Senders, CrashSender(s) \/ Finish(s)
      PROVE  DeliveriesInv'
  BY <1>3, SenderEnds DEF CrashSender, Finish
<1>4. ASSUME NEW s \in Senders, PostDelivery(s)
      PROVE  DeliveriesInv'
  BY <1>4, StageChanges DEF PostDelivery, On
<1>5. ASSUME NEW d \in Deliverable, FallsDue(d)
      PROVE  DeliveriesInv'
  <2>1. delivery[d] \in DeliveryRow
    BY <1>5 DEF FallsDue, IsRow, DeliveriesInv, DeliveriesTyped
  <2>2. [delivery[d] EXCEPT !.due = "now"] \in DeliveryRow
    BY <2>1 DEF DeliveryRow
  <2>3. delivery' = [delivery EXCEPT ![d] = [delivery[d] EXCEPT !.due = "now"]]
    BY <1>5 DEF FallsDue
  <2>4. delivery' \in [Deliverable -> DeliveryRow \cup {NoDelivery, Deleted}]
    BY <2>2, <2>3 DEF DeliveriesInv, DeliveriesTyped
  <2>5. \A c \in Deliverable :
           \/ delivery'[c] = delivery[c]
           \/ IsRow(c) /\ delivery[c].due = "later" /\ delivery'[c] \in DeliveryRow
    BY <1>5, <2>2, <2>3 DEF FallsDue, DeliveriesInv, DeliveriesTyped
  <2> QED
    BY <1>5, <2>4, <2>5, RowsChange DEF FallsDue
<1>6. ASSUME NEW e \in Endpoints, DeleteEndpoint(e)
      PROVE  DeliveriesInv'
  <2>1. /\ delivery' = [d \in Deliverable |-> IF delivery[d].to = e THEN Deleted ELSE delivery[d]]
        /\ endpoint' \subseteq endpoint /\ UNCHANGED sender
    BY <1>6 DEF DeleteEndpoint
  <2>2. delivery' \in [Deliverable -> DeliveryRow \cup {NoDelivery, Deleted}]
    BY <2>1 DEF DeliveriesInv, DeliveriesTyped
  <2> QED
    BY <2>1, <2>2, RowsChange
<1> QED
  BY <1>1, <1>2, <1>3, <1>4, <1>5, <1>6, CreateKeeps, JobKeeps, DeliverKeeps
     DEF DeliveriesNext, SendOn

LEMMA NearRows ==
    ASSUME DeliveriesTyped, NEW s \in Senders, NEW d
    PROVE  Near(s, d) <=> d \in RowsFor(s, sender[s])
<1>1. sender[s] \in SenderForm(s)
  BY DEF DeliveriesTyped
<1>2. sender[s] # NotSending <=> sender[s].stage # "idle"
  BY <1>1 DEF SenderForm, Sending, NotSending
<1> QED
  BY <1>2 DEF Near, At, RowsFor, On

\* A settled row stays as it is until it goes with its endpoint.
LEMMA SettledStays ==
    ASSUME DeliveriesInv, [DeliveriesNext]_deliveryVars, NEW d \in Deliverable, Settled(d),
           delivery'[d] # Deleted
    PROVE  Settled(d)'
<1>0. /\ DeliveriesTyped /\ IsRow(d) /\ delivery[d] \in DeliveryRow /\ delivery[d].success
      /\ \A s \in Senders : d \notin RowsFor(s, sender[s])
  BY NearRows DEF DeliveriesInv, DeliveriesTyped, Settled, IsRow
<1>1. /\ delivery'[d].success /\ IsRow(d)'
      /\ \A s \in Senders : d \notin RowsFor(s, sender'[s])
  <2>a. ASSUME UNCHANGED delivery PROVE delivery'[d].success /\ IsRow(d)'
    BY <1>0, <2>a DEF IsRow
  <2>b. ASSUME UNCHANGED sender PROVE \A s \in Senders : d \notin RowsFor(s, sender'[s])
    BY <1>0, <2>b
  <2>c. ASSUME NEW s \in Senders, NEW r, sender' = [sender EXCEPT ![s] = r], d \notin RowsFor(s, r)
        PROVE  \A u \in Senders : d \notin RowsFor(u, sender'[u])
    BY <1>0, <2>c DEF DeliveriesTyped
  <2>d. ASSUME NEW s \in Senders, EndSender(s)
        PROVE  \A u \in Senders : d \notin RowsFor(u, sender'[u])
    <3>1. d \notin RowsFor(s, NotSending)
      BY DEF RowsFor, On, NotSending
    <3> QED
      BY <2>c, <2>d, <3>1 DEF EndSender, SetSender
  <2>e. ASSUME NEW s \in Senders, sender[s] # NotSending, NextOf(s)
        PROVE  \A u \in Senders : d \notin RowsFor(u, sender'[u])
    <3>1. d \notin RowsFor(s, [stage |-> "next", todo |-> sender[s].todo])
      BY <1>0, <2>e DEF RowsFor, On
    <3> QED
      BY <2>c, <2>e, <3>1 DEF NextOf, SetSender
  <2>f. ASSUME NEW s \in Senders, On(sender[s]), NEW stage \in {"post", "answered", "failed", "schedule"},
               Stage(s, stage)
        PROVE  \A u \in Senders : d \notin RowsFor(u, sender'[u])
    <3> DEFINE r == [sender[s] EXCEPT !.stage = stage]
    <3>1. sender[s] \in SenderForm(s)
      BY <1>0 DEF DeliveriesTyped
    <3>2. r.row = sender[s].row /\ r.todo = sender[s].todo /\ sender[s] # NotSending
      BY <2>f, <3>1 DEF SenderForm, Sending, NotSending, On
    <3> HIDE DEF r
    <3>3. d \notin RowsFor(s, r)
      BY <1>0, <2>f, <3>2 DEF RowsFor
    <3> QED
      BY <2>c, <2>f, <3>3 DEF Stage, SetSender, r
  <2>1. ASSUME NEW s \in Senders, NEW e \in Endpoints, CreateDelivery(s, e)
        PROVE  <1>1!:
    <3>0. s \notin Jobs
      BY <2>1, DeliveriesAssumption DEF CreateDelivery
    <3>1. CASE e \notin endpoint
      BY <2>1, <2>a, <2>d, <3>1 DEF CreateDelivery
    <3>2. ASSUME NEW c \in Deliverable, delivery[c] = NoDelivery,
                 delivery' = [delivery EXCEPT ![c] = NewDelivery(e)],
                 SetSender(s, [stage |-> "post", row |-> c, todo |-> sender[s].todo \ {e}])
          PROVE  <1>1!:
      <4>1. c # d /\ delivery'[d] = delivery[d]
        BY <1>0, <3>2 DEF IsRow, DeliveriesTyped
      <4>2. d \notin RowsFor(s, [stage |-> "post", row |-> c, todo |-> sender[s].todo \ {e}])
        BY <3>0, <4>1 DEF RowsFor, On
      <4> QED
        BY <1>0, <2>c, <3>2, <4>1, <4>2 DEF SetSender, IsRow
    <3> QED
      BY <2>1, <3>1, <3>2 DEF CreateDelivery
  <2>2. ASSUME NEW s \in Senders, Dispatch(s)
        PROVE  <1>1!:
    <3>1. s \notin Jobs
      BY <2>2, DeliveriesAssumption DEF Dispatch
    <3>2. d \notin RowsFor(s, [stage |-> "next", todo |-> endpoint])
      BY <3>1 DEF RowsFor, On
    <3> QED
      BY <2>2, <2>a, <2>c, <3>2 DEF Dispatch, SetSender
  <2>3. ASSUME NEW s \in Senders, SelectDue(s)
        PROVE  <1>1!:
    <3>1. d \notin RowsFor(s, [stage |-> "next", todo |-> {c \in Deliverable : IsDue(c)}])
      BY <1>0 DEF RowsFor, On, IsDue
    <3> QED
      BY <2>3, <2>a, <2>c, <3>1 DEF SelectDue, SetSender
  <2>4. ASSUME NEW s \in Senders, NEW c \in Deliverable, RetryDelivery(s, c)
        PROVE  <1>1!:
    <3>1. s \in Jobs /\ sender[s] # NotSending /\ c \in sender[s].todo
      BY <2>4 DEF RetryDelivery, NotSending
    <3>2. d \notin RowsFor(s, [stage |-> "post", row |-> c, todo |-> sender[s].todo \ {c}])
      BY <1>0, <3>1 DEF RowsFor, On
    <3> QED
      BY <2>4, <2>a, <2>c, <3>2 DEF RetryDelivery, SetSender
  <2>5. ASSUME NEW s \in Senders, PostDelivery(s)
        PROVE  <1>1!:
    BY <2>5, <2>a, <2>f DEF PostDelivery, On
  <2>6. ASSUME NEW s \in Senders, RecordSuccess(s) \/ RecordFailure(s) \/ ScheduleRetry(s)
        PROVE  <1>1!:
    <3>1. On(sender[s]) /\ sender[s] # NotSending
      BY <2>6 DEF RecordSuccess, RecordFailure, ScheduleRetry, On, NotSending
    <3>2. sender[s].row # d
      BY <1>0, <3>1 DEF RowsFor
    <3>3. delivery'[d] = delivery[d]
      BY <1>0, <2>6, <3>2 DEF RecordSuccess, RecordFailure, ScheduleRetry, DeliveriesTyped
    <3>4. EndSender(s) \/ NextOf(s) \/ \E stage \in {"failed", "schedule"} : Stage(s, stage)
      BY <2>6 DEF RecordSuccess, RecordFailure, ScheduleRetry
    <3> QED
      BY <1>0, <2>d, <2>e, <2>f, <3>1, <3>3, <3>4 DEF IsRow
  <2>7. ASSUME NEW s \in Senders, Finish(s) \/ CrashSender(s)
        PROVE  <1>1!:
    BY <2>7, <2>a, <2>d DEF Finish, CrashSender
  <2>8. ASSUME NEW c \in Deliverable, FallsDue(c)
        PROVE  <1>1!:
    <3>1. delivery' = [delivery EXCEPT ![c] = [delivery[c] EXCEPT !.due = "now"]]
      BY <2>8 DEF FallsDue
    <3>2. delivery'[d].success /\ delivery'[d] \in DeliveryRow
      BY <1>0, <3>1 DEF DeliveryRow, DeliveriesTyped
    <3>3. IsRow(d)'
      BY <3>2 DEF IsRow, DeliveryRow, NoDelivery, Deleted
    <3> QED
      BY <2>8, <2>b, <3>2, <3>3 DEF FallsDue
  <2>9. ASSUME NEW e \in Endpoints, DeleteEndpoint(e)
        PROVE  <1>1!:
    <3>1. delivery'[d] = delivery[d]
      BY <2>9 DEF DeleteEndpoint
    <3> QED
      BY <1>0, <2>9, <2>b, <3>1 DEF DeleteEndpoint, IsRow
  <2> QED
    BY <1>0, <2>1, <2>2, <2>3, <2>4, <2>5, <2>6, <2>7, <2>8, <2>9, <2>a, <2>b
       DEF DeliveriesNext, SendOn, deliveryVars
<1>2. DeliveriesTyped'
  BY DeliveriesKeep DEF DeliveriesInv
<1>3. ASSUME NEW s \in Senders
      PROVE  ~Near(s, d)'
  <2>1. sender'[s] \in SenderForm(s)
    BY <1>2 DEF DeliveriesTyped, SenderForm, Sending, Deliverable
  <2>2. sender'[s] # NotSending <=> sender'[s].stage # "idle"
    BY <2>1 DEF SenderForm, Sending, NotSending
  <2>3. d \notin RowsFor(s, sender'[s])
    BY <1>1
  <2> QED
    BY <2>2, <2>3 DEF Near, At, RowsFor, On
<1> QED
  BY <1>1, <1>3 DEF Settled

\* webhooks.service.ts:100 and :142: nobody comes near a row while its first attempt is under
\* way, and a delivery that has succeeded and that no run has on its list is never sent again
\* nor taken for one that failed, for any number of events, endpoints and runs of the job
\* that overlap, wherever senders crash.
THEOREM SuccessIsAlwaysFinal == DeliveriesSpec => SuccessIsFinal
<1> DEFINE Step ==
      /\ FirstAttemptAlone'
      /\ \A d \in Deliverable : Settled(d) => Settled(d)' \/ delivery'[d] = Deleted
<1>1. DeliveriesInv => FirstAttemptAlone
  <2> SUFFICES ASSUME DeliveriesInv, NEW s \in Dispatchers, NEW d \in Deliverable, At(s, d),
                      NEW t \in Senders \ {s}
               PROVE  ~Near(t, d)
    BY DEF FirstAttemptAlone
  <2>1. s \in Senders \ Jobs /\ On(sender[s]) /\ sender[s].row = d
    BY DeliveriesAssumption DEF Senders, At, On
  <2>2. d \notin RowsFor(t, sender[t])
    BY <2>1 DEF DeliveriesInv, RowsAreApart
  <2> QED
    BY <2>2, NearRows DEF DeliveriesInv
<1>2. DeliveriesInv /\ [DeliveriesNext]_deliveryVars => DeliveriesInv'
  BY DeliveriesKeep
<1>3. DeliveriesInv' => FirstAttemptAlone'
  BY <1>1, PTL
<1>4. DeliveriesInv /\ [DeliveriesNext]_deliveryVars => [Step]_deliveryVars
  BY <1>2, <1>3, SettledStays
<1> QED
  BY <1>2, <1>4, DeliveriesStart, PTL DEF DeliveriesSpec, SuccessIsFinal

-----------------------------------------------------------------------------
\* The circuit breakers of a hook, for any plugins and any number of calls at once.

BreakerForm == [state : {"closed", "open", "half-open"}, failureCount : Nat, sinceFailure : Nat, sinceOpen : Nat]
\* What a closed breaker has counted are failures with no success since.
CountsAreStrikes ==
    \A p \in Ids : breaker[p].state = "closed" => breaker[p].failureCount <= strikes[p]
BreakerInv ==
    /\ breaker \in [Ids -> BreakerForm]
    /\ strikes \in [Ids -> 0..FailureThreshold]
    /\ CountsAreStrikes

LEMMA FreshIsClosed == Fresh \in BreakerForm /\ Fresh.state = "closed" /\ Fresh.failureCount = 0
BY DEF Fresh, BreakerForm

LEMMA BreakerStarts == HookInit => BreakerInv
BY FreshIsClosed, BreakerAssumption DEF HookInit, BreakerInv, CountsAreStrikes

LEMMA ObservedForm ==
    ASSUME NEW b \in BreakerForm
    PROVE  /\ Observed(b) \in BreakerForm
           /\ Observed(b).state = "closed" => Observed(b) = b
           /\ b.state = "closed" => Observed(b) = b
BY DEF Observed, BreakerForm

LEMMA SuccessForm ==
    ASSUME NEW b \in BreakerForm
    PROVE  /\ AfterSuccess(b) \in BreakerForm
           /\ AfterSuccess(b).failureCount = 0
           /\ AfterSuccess(b).state = "open" => b.state = "open"
BY FreshIsClosed DEF AfterSuccess, BreakerForm

LEMMA FailureForm ==
    ASSUME NEW b \in BreakerForm
    PROVE  /\ AfterFailure(b) \in BreakerForm
           /\ AfterFailure(b).state = "closed" =>
                 /\ b.state = "closed"
                 /\ AfterFailure(b).failureCount < FailureThreshold
                 /\ AfterFailure(b).failureCount <= b.failureCount + 1
           /\ b.state = "closed" /\ AfterFailure(b).state = "open" => FailureThreshold <= b.failureCount + 1
<1> DEFINE fresh == b.failureCount = 0 \/ b.sinceFailure > WindowTime
           n == IF fresh THEN 1 ELSE b.failureCount + 1
           gap == IF fresh THEN 0 ELSE b.sinceFailure
           counted == [b EXCEPT !.failureCount = n, !.sinceFailure = gap]
<1>1. n \in Nat /\ gap \in Nat /\ n <= b.failureCount + 1 /\ b.failureCount \in Nat
  BY DEF BreakerForm
<1>2. AfterFailure(b) =
        IF b.state = "half-open"
        THEN [state |-> "open", failureCount |-> FailureThreshold, sinceFailure |-> 0, sinceOpen |-> 0]
        ELSE IF counted.failureCount >= FailureThreshold
        THEN [counted EXCEPT !.state = "open", !.sinceOpen = 0]
        ELSE counted
  BY DEF AfterFailure
<1> HIDE DEF fresh, n, gap
<1>3. counted \in BreakerForm /\ counted.failureCount = n /\ counted.state = b.state
  BY <1>1 DEF BreakerForm
<1> HIDE DEF counted
<1>4. [counted EXCEPT !.state = "open", !.sinceOpen = 0] \in BreakerForm
      /\ [counted EXCEPT !.state = "open", !.sinceOpen = 0].state = "open"
  BY <1>3 DEF BreakerForm
<1>5. LET x == [state |-> "open", failureCount |-> FailureThreshold, sinceFailure |-> 0, sinceOpen |-> 0]
      IN  x \in BreakerForm /\ x.state = "open"
  BY BreakerAssumption DEF BreakerForm
<1>6. CASE b.state = "half-open"
  BY <1>2, <1>5, <1>6
<1>7. CASE b.state # "half-open" /\ n >= FailureThreshold
  BY <1>1, <1>2, <1>3, <1>4, <1>7, BreakerAssumption
<1>8. CASE b.state # "half-open" /\ ~(n >= FailureThreshold)
  BY <1>1, <1>2, <1>3, <1>8, BreakerAssumption DEF BreakerForm
<1> QED
  BY <1>6, <1>7, <1>8

\* One breaker changes, with the strikes of its plugin.
LEMMA BreakerChanges ==
    ASSUME BreakerInv, NEW p \in Ids, NEW b \in BreakerForm, NEW n \in 0..FailureThreshold,
           breaker' = [breaker EXCEPT ![p] = b], strikes' = [strikes EXCEPT ![p] = n],
           b.state = "closed" => b.failureCount <= n
    PROVE  BreakerInv'
BY DEF BreakerInv, CountsAreStrikes


OpensForCause ==
    \A p \in Ids : breaker[p].state = "closed" /\ breaker'[p].state = "open"
                        => strikes'[p] = FailureThreshold

\* A call that does not touch a breaker or its strikes.
LEMMA BreakersStay ==
    ASSUME BreakerInv, UNCHANGED breakerVars
    PROVE  BreakerInv' /\ OpensForCause
<1>1. BreakerInv'
  BY DEF BreakerInv, CountsAreStrikes, breakerVars
<1>2. OpensForCause
  BY DEF OpensForCause, breakerVars
<1> QED
  BY <1>1, <1>2

\* One breaker changes, and does not open without its strikes.
LEMMA OneChanges ==
    ASSUME BreakerInv, NEW p, NEW b, NEW n,
           breaker' = [breaker EXCEPT ![p] = b], strikes' = [strikes EXCEPT ![p] = n],
           p \in Ids => /\ b \in BreakerForm /\ n \in 0..FailureThreshold
                        /\ b.state = "closed" => b.failureCount <= n
                        /\ breaker[p].state = "closed" /\ b.state = "open" => n = FailureThreshold
    PROVE  BreakerInv' /\ OpensForCause
<1>1. CASE p \notin Ids
  <2>1. breaker' = breaker /\ strikes' = strikes
    BY <1>1 DEF BreakerInv
  <2> QED
    BY <2>1, BreakersStay DEF breakerVars
<1>2. CASE p \in Ids
  <2>1. BreakerInv'
    BY <1>2, BreakerChanges
  <2>2. OpensForCause
    BY <1>2 DEF OpensForCause, BreakerInv
  <2> QED
    BY <2>1, <2>2
<1> QED
  BY <1>1, <1>2

\* hook-runner.service.ts:200: whether the next handler may be called.
LEMMA AcquireSteps ==
    ASSUME BreakerInv, NEW p, breaker' = [breaker EXCEPT ![p] = Observed(breaker[p])], UNCHANGED strikes
    PROVE  BreakerInv' /\ OpensForCause
<1>1. strikes' = [strikes EXCEPT ![p] = strikes[p]]
  BY DEF BreakerInv
<1>2. ASSUME p \in Ids
      PROVE  /\ Observed(breaker[p]) \in BreakerForm /\ strikes[p] \in 0..FailureThreshold
             /\ Observed(breaker[p]).state = "closed" => Observed(breaker[p]).failureCount <= strikes[p]
             /\ breaker[p].state = "closed" => Observed(breaker[p]).state # "open"
  <2>1. breaker[p] \in BreakerForm
    BY <1>2 DEF BreakerInv
  <2> QED
    BY <1>2, <2>1, ObservedForm DEF BreakerInv, CountsAreStrikes
<1> QED
  BY <1>1, <1>2, OneChanges

LEMMA AnswersStep ==
    ASSUME BreakerInv, NEW c \in HookCalls, NEW rejects \in BOOLEAN, HandlerAnswers(c, rejects)
    PROVE  BreakerInv' /\ OpensForCause
<1> DEFINE p == Registered[hookCall[c].at]
           b == AfterSuccess(breaker[p])
<1>1. breaker' = [breaker EXCEPT ![p] = b] /\ strikes' = [strikes EXCEPT ![p] = 0]
  BY DEF HandlerAnswers
<1>2. ASSUME p \in Ids
      PROVE  /\ b \in BreakerForm /\ b.failureCount = 0
             /\ b.state = "open" => breaker[p].state = "open"
  <2>1. breaker[p] \in BreakerForm
    BY <1>2 DEF BreakerInv
  <2> QED
    BY <2>1, SuccessForm
<1> HIDE DEF b, p
<1>3. p \in Ids => /\ b \in BreakerForm /\ 0 \in 0..FailureThreshold
                   /\ b.state = "closed" => b.failureCount <= 0
                   /\ breaker[p].state = "closed" /\ b.state = "open" => 0 = FailureThreshold
  BY <1>2, BreakerAssumption
<1> QED
  BY <1>1, <1>3, OneChanges

LEMMA FailuresStep ==
    ASSUME BreakerInv, NEW c \in HookCalls, HandlerFails(c)
    PROVE  BreakerInv' /\ OpensForCause
<1> DEFINE p == Registered[hookCall[c].at]
           b == AfterFailure(breaker[p])
           n == IF strikes[p] < FailureThreshold THEN strikes[p] + 1 ELSE strikes[p]
<1>1. breaker' = [breaker EXCEPT ![p] = b] /\ strikes' = [strikes EXCEPT ![p] = n]
  BY DEF HandlerFails
<1>2. ASSUME p \in Ids
      PROVE  /\ b \in BreakerForm /\ n \in 0..FailureThreshold
             /\ b.state = "closed" => b.failureCount <= n
             /\ breaker[p].state = "closed" /\ b.state = "open" => n = FailureThreshold
  <2>1. breaker[p] \in BreakerForm /\ strikes[p] \in Nat /\ breaker[p].failureCount \in Nat
    BY <1>2, BreakerAssumption DEF BreakerInv, BreakerForm
  <2>2. breaker[p].state = "closed" => breaker[p].failureCount <= strikes[p]
    BY <1>2 DEF BreakerInv, CountsAreStrikes
  <2>3. strikes[p] <= FailureThreshold
    BY <1>2, BreakerAssumption DEF BreakerInv
  <2>4. b \in BreakerForm /\ b.failureCount \in Nat
    BY <2>1, FailureForm DEF BreakerForm
  <2>5. /\ b.state = "closed" => /\ breaker[p].state = "closed"
                                 /\ b.failureCount < FailureThreshold
                                 /\ b.failureCount <= breaker[p].failureCount + 1
        /\ breaker[p].state = "closed" /\ b.state = "open"
              => FailureThreshold <= breaker[p].failureCount + 1
    BY <2>1, FailureForm
  <2>6. n \in 0..FailureThreshold
    BY <2>1, <2>3, BreakerAssumption
  <2>7. ASSUME NEW k \in Nat, k <= FailureThreshold, k <= strikes[p] + 1
        PROVE  k <= n
    BY <2>1, <2>3, <2>7, BreakerAssumption
  <2> HIDE DEF b, n
  <2>8. b.state = "closed" => b.failureCount <= n
    BY <2>1, <2>2, <2>4, <2>5, <2>7, BreakerAssumption
  <2>9. breaker[p].state = "closed" /\ b.state = "open" => n = FailureThreshold
    BY <2>1, <2>2, <2>5, <2>6, <2>7, BreakerAssumption
  <2> QED
    BY <2>4, <2>6, <2>8, <2>9
<1> HIDE DEF b, p, n
<1> QED
  BY <1>1, <1>2, OneChanges

LEMMA ClockStep ==
    ASSUME BreakerInv, TimePasses
    PROVE  BreakerInv' /\ OpensForCause
<1>1. ASSUME NEW p \in Ids
      PROVE  /\ breaker'[p] \in BreakerForm /\ breaker'[p].state = breaker[p].state
             /\ breaker'[p].failureCount = breaker[p].failureCount
  <2>1. breaker[p] \in BreakerForm
    BY DEF BreakerInv
  <2> DEFINE gap == IF breaker[p].failureCount > 0 THEN Later(breaker[p].sinceFailure, WindowTime + 1)
                      ELSE breaker[p].sinceFailure
             open == IF breaker[p].state = "open" THEN Later(breaker[p].sinceOpen, CooldownTime)
                     ELSE breaker[p].sinceOpen
  <2>2. breaker'[p] = [breaker[p] EXCEPT !.sinceFailure = gap, !.sinceOpen = open]
    BY DEF TimePasses
  <2>3. gap \in Nat /\ open \in Nat
    BY <2>1, BreakerAssumption DEF BreakerForm, Later
  <2> HIDE DEF gap, open
  <2> QED
    BY <2>1, <2>2, <2>3 DEF BreakerForm
<1>2. breaker' = [p \in Ids |-> breaker'[p]] /\ UNCHANGED strikes
  BY DEF TimePasses
<1> QED
  BY <1>1, <1>2 DEF BreakerInv, CountsAreStrikes, OpensForCause

LEMMA BreakersStep ==
    ASSUME BreakerInv, [HookNext]_hookVars
    PROVE  BreakerInv' /\ OpensForCause
<1>1. ASSUME NEW c \in HookCalls, TryAcquire(c)
      PROVE  BreakerInv' /\ OpensForCause
  <2> DEFINE p == Registered[hookCall[c].at]
  <2>1. UNCHANGED strikes /\ (UNCHANGED breaker \/ breaker' = [breaker EXCEPT ![p] = Observed(breaker[p])])
    BY <1>1 DEF TryAcquire
  <2> HIDE DEF p
  <2> QED
    BY <2>1, AcquireSteps, BreakersStay DEF breakerVars
<1>2. ASSUME NEW p \in Ids, BreakerStateFor(p)
      PROVE  BreakerInv' /\ OpensForCause
  BY <1>2, AcquireSteps DEF BreakerStateFor
<1>3. ASSUME NEW p \in Ids, Reregister(p)
      PROVE  BreakerInv' /\ OpensForCause
  <2>1. /\ Fresh \in BreakerForm /\ 0 \in 0..FailureThreshold /\ Fresh.failureCount <= 0
        /\ Fresh.state # "open"
    BY FreshIsClosed, BreakerAssumption
  <2>2. breaker' = [breaker EXCEPT ![p] = Fresh] /\ strikes' = [strikes EXCEPT ![p] = 0]
    BY <1>3 DEF Reregister
  <2> QED
    BY <2>1, <2>2, OneChanges
<1>4. ASSUME UNCHANGED breakerVars
      PROVE  BreakerInv' /\ OpensForCause
  BY <1>4, BreakersStay
<1>5. CASE UNCHANGED hookVars
  BY <1>4, <1>5 DEF hookVars
<1>6. ASSUME NEW c \in HookCalls, RunSync(c)
      PROVE  BreakerInv' /\ OpensForCause
  BY <1>4, <1>6 DEF RunSync
<1>7. ASSUME NEW p \in Ids, SwitchPlugin(p) \/ HandlerChanges(p)
      PROVE  BreakerInv' /\ OpensForCause
  BY <1>4, <1>7 DEF SwitchPlugin, HandlerChanges
<1> QED
  BY <1>1, <1>2, <1>3, <1>5, <1>6, <1>7, AnswersStep, FailuresStep, ClockStep DEF HookNext

\* circuit-breaker.ts:7: a closed breaker opens only after as many failures as the threshold
\* with no success among them, for any thresholds and times, any plugins and any number of
\* calls that are answered in any order.
THEOREM BreakerAlwaysHasCause == HookSpec => BreakerOpensForCause
<1>1. BreakerInv /\ [HookNext]_hookVars => BreakerInv'
  BY BreakersStep
<1>2. BreakerInv /\ [HookNext]_hookVars
        => [\A p \in Ids : breaker[p].state = "closed" /\ breaker'[p].state = "open"
                              => strikes'[p] = FailureThreshold]_hookVars
  BY BreakersStep DEF OpensForCause
<1> QED
  BY <1>1, <1>2, BreakerStarts, PTL DEF HookSpec, BreakerOpensForCause

-----------------------------------------------------------------------------
\* How far the breaker of a plugin counts.  A failure counts although its breaker is open by
\* then, so that every call under way when it opens may still add one: what an open breaker
\* has counted and what is in flight stay below the threshold and the calls together.
InFlight(p) == {c \in HookCalls : hookCall[c].calls # "none" /\ Registered[hookCall[c].at] = p}
Most == FailureThreshold + Cardinality(HookCalls) - 1
BreakerFits(b, n) ==
    /\ b.sinceFailure <= WindowTime + 1 /\ b.sinceOpen <= CooldownTime
    /\ b.failureCount <= Most
    /\ b.state = "closed" => b.failureCount < FailureThreshold
    /\ b.state = "open" => b.failureCount + n <= Most

CallForm == {NotCalling} \cup [at : 1..Len(Registered), calls : {"none", "normal", "trial"}]

HookInv ==
    /\ BreakerInv
    /\ hookCall \in [HookCalls -> CallForm]
    /\ faulty \subseteq Ids /\ switchedOff \subseteq Ids
    /\ \A p \in Ids : BreakerFits(breaker[p], Cardinality(InFlight(p)))

LEMMA CallsAreFinite ==
    /\ Cardinality(HookCalls) \in Nat
    /\ \A S \in SUBSET HookCalls : /\ IsFiniteSet(S) /\ Cardinality(S) \in Nat
                                   /\ Cardinality(S) <= Cardinality(HookCalls)
BY BreakerAssumption, FS_Subset, FS_CardinalityType

LEMMA FewerFit ==
    ASSUME NEW b \in BreakerForm, NEW m \in Nat, NEW n \in Nat, n <= m, BreakerFits(b, m)
    PROVE  BreakerFits(b, n)
<1>1. b.failureCount \in Nat /\ Most \in Int
  BY CallsAreFinite, BreakerAssumption DEF BreakerForm, Most
<1> QED
  BY <1>1 DEF BreakerFits

LEMMA FreshFits ==
    ASSUME NEW n
    PROVE  BreakerFits(Fresh, n)
BY CallsAreFinite, BreakerAssumption DEF BreakerFits, Fresh, Most

LEMMA ObservedFits ==
    ASSUME NEW b \in BreakerForm, NEW m, NEW n, BreakerFits(b, m), n = m \/ Observed(b).state # "open"
    PROVE  BreakerFits(Observed(b), n)
BY DEF BreakerFits, Observed, BreakerForm

LEMMA SuccessFits ==
    ASSUME NEW b \in BreakerForm, NEW m \in Nat, NEW n \in Nat, n <= m, BreakerFits(b, m)
    PROVE  BreakerFits(AfterSuccess(b), n)
<1>1. CASE b.state = "half-open"
  BY <1>1, FreshFits DEF AfterSuccess
<1>2. CASE b.state # "half-open"
  <2>1. b.failureCount \in Nat /\ Most \in Nat
    BY CallsAreFinite, BreakerAssumption DEF BreakerForm, Most
  <2>2. PICK x : x = AfterSuccess(b)
    OBVIOUS
  <2>3. x.failureCount = 0 /\ x.sinceFailure = 0 /\ x.sinceOpen = b.sinceOpen /\ x.state = b.state
    BY <1>2, <2>2 DEF AfterSuccess, BreakerForm
  <2> QED
    BY <2>1, <2>2, <2>3, BreakerAssumption DEF BreakerFits
<1> QED
  BY <1>1, <1>2

LEMMA FailureFits ==
    ASSUME NEW b \in BreakerForm, NEW n \in Nat, n + 1 <= Cardinality(HookCalls), BreakerFits(b, n + 1)
    PROVE  BreakerFits(AfterFailure(b), n)
<1> DEFINE fresh == b.failureCount = 0 \/ b.sinceFailure > WindowTime
           k == IF fresh THEN 1 ELSE b.failureCount + 1
           gap == IF fresh THEN 0 ELSE b.sinceFailure
           counted == [b EXCEPT !.failureCount = k, !.sinceFailure = gap]
<1>1. /\ k \in Nat /\ gap \in Nat /\ gap <= WindowTime + 1 /\ k <= b.failureCount + 1 /\ b.failureCount \in Nat
      /\ k = 1 \/ k = b.failureCount + 1
  BY BreakerAssumption DEF BreakerForm, BreakerFits
<1>2. AfterFailure(b) =
        IF b.state = "half-open"
        THEN [state |-> "open", failureCount |-> FailureThreshold, sinceFailure |-> 0, sinceOpen |-> 0]
        ELSE IF counted.failureCount >= FailureThreshold
        THEN [counted EXCEPT !.state = "open", !.sinceOpen = 0]
        ELSE counted
  BY DEF AfterFailure
<1> HIDE DEF fresh, k, gap
<1>3. /\ counted.failureCount = k /\ counted.state = b.state /\ counted.sinceFailure = gap
      /\ counted.sinceOpen = b.sinceOpen
      /\ counted = [state |-> b.state, failureCount |-> k, sinceFailure |-> gap, sinceOpen |-> b.sinceOpen]
  <2>1. /\ counted \in BreakerForm
        /\ counted.failureCount = k /\ counted.state = b.state /\ counted.sinceFailure = gap
        /\ counted.sinceOpen = b.sinceOpen
    BY <1>1 DEF BreakerForm
  <2>2. \A x \in BreakerForm :
          x = [state |-> x.state, failureCount |-> x.failureCount,
               sinceFailure |-> x.sinceFailure, sinceOpen |-> x.sinceOpen]
    BY DEF BreakerForm
  <2> HIDE DEF counted
  <2> QED
    BY <2>1, <2>2
<1> HIDE DEF counted
<1>4. /\ FailureThreshold \in Nat \ {0} /\ Cardinality(HookCalls) \in Nat
      /\ Most = FailureThreshold + Cardinality(HookCalls) - 1
      /\ WindowTime \in Nat /\ CooldownTime \in Nat
  BY CallsAreFinite, BreakerAssumption DEF Most
<1>5. CASE b.state = "half-open"
  BY <1>2, <1>4, <1>5 DEF BreakerFits
<1>6. CASE b.state # "half-open" /\ k >= FailureThreshold
  <2>1. PICK x : x = AfterFailure(b)
    OBVIOUS
  <2>2. x.state = "open" /\ x.failureCount = k /\ x.sinceFailure = gap /\ x.sinceOpen = 0
    BY <1>2, <1>3, <1>6, <2>1
  <2>3. k + n <= Most
    <3>1. b.state \in {"closed", "open"}
      BY <1>6 DEF BreakerForm
    <3> QED
      BY <1>1, <1>4, <1>6, <3>1 DEF BreakerFits
  <2> QED
    BY <1>1, <1>4, <2>1, <2>2, <2>3 DEF BreakerFits
<1>7. CASE b.state # "half-open" /\ ~(k >= FailureThreshold)
  <2>1. AfterFailure(b) = counted
    BY <1>2, <1>3, <1>7
  <2>2. b.state = "open" => k + n <= Most
    BY <1>1, <1>4 DEF BreakerFits
  <2>3. k < FailureThreshold /\ k <= Most
    BY <1>1, <1>4, <1>7
  <2> QED
    BY <1>1, <1>3, <1>4, <2>1, <2>2, <2>3 DEF BreakerFits
<1> QED
  BY <1>5, <1>6, <1>7

\* What a step does to the calls in flight.
LEMMA CallsInFlight ==
    ASSUME hookCall \in [HookCalls -> CallForm], NEW c \in HookCalls, NEW r \in CallForm, NEW p,
           hookCall' = [hookCall EXCEPT ![c] = r]
    PROVE  /\ InFlight(p) \subseteq HookCalls /\ InFlight(p)' \subseteq HookCalls
           /\ r.calls = "none" => InFlight(p)' = InFlight(p) \ {c}
           /\ r.at = hookCall[c].at /\ Registered[r.at] # p => InFlight(p)' = InFlight(p)
<1>1. \A u \in HookCalls : hookCall'[u] = IF u = c THEN r ELSE hookCall[u]
  OBVIOUS
<1> QED
  BY <1>1 DEF InFlight

LEMMA InFlightCounts ==
    /\ \A p : Cardinality(InFlight(p)) \in Nat /\ Cardinality(InFlight(p)) <= Cardinality(HookCalls)
    /\ \A p : Cardinality(InFlight(p))' \in Nat /\ Cardinality(InFlight(p))' <= Cardinality(HookCalls)
BY CallsAreFinite DEF InFlight

LEMMA FewerInFlight ==
    ASSUME hookCall \in [HookCalls -> CallForm], NEW c \in HookCalls, NEW r \in CallForm, NEW p,
           hookCall' = [hookCall EXCEPT ![c] = r], r.calls = "none"
    PROVE  /\ Cardinality(InFlight(p)') <= Cardinality(InFlight(p))
           /\ hookCall[c].calls # "none" /\ Registered[hookCall[c].at] = p
                 => Cardinality(InFlight(p)) = Cardinality(InFlight(p)') + 1
<1>1. PICK S : S = InFlight(p)
  OBVIOUS
<1>2. InFlight(p)' = S \ {c} /\ S \subseteq HookCalls
  BY <1>1, CallsInFlight
<1>3. IsFiniteSet(S) /\ Cardinality(S) \in Nat
  BY <1>2, CallsAreFinite
<1>4. c \in S => Cardinality(S \ {c}) = Cardinality(S) - 1
  BY <1>3, FS_RemoveElement
<1>5. c \notin S => S \ {c} = S
  OBVIOUS
<1>6. hookCall[c].calls # "none" /\ Registered[hookCall[c].at] = p => c \in S
  BY <1>1 DEF InFlight
<1>7. PICK T : T = InFlight(p)' /\ T = S \ {c}
  BY <1>2
<1>8. Cardinality(T) <= Cardinality(S) /\ (c \in S => Cardinality(S) = Cardinality(T) + 1)
  BY <1>3, <1>4, <1>5, <1>7
<1>9. Cardinality(InFlight(p)') = Cardinality(T)
  BY <1>7
<1> QED
  BY <1>1, <1>6, <1>8, <1>9

\* A call goes on, and with it the breaker of its plugin.
LEMMA CallTurns ==
    ASSUME HookInv, BreakerInv', NEW c \in HookCalls, NEW r \in CallForm, NEW p \in Ids, NEW b,
           hookCall' = [hookCall EXCEPT ![c] = r], breaker' = [breaker EXCEPT ![p] = b],
           UNCHANGED <<faulty, switchedOff>>,
           \A q \in Ids : q # p => Cardinality(InFlight(q))' <= Cardinality(InFlight(q)),
           BreakerFits(b, Cardinality(InFlight(p))')
    PROVE  HookInv'
<1>1. \A q \in Ids : breaker'[q] = IF q = p THEN b ELSE breaker[q]
  BY DEF HookInv, BreakerInv
<1>2. ASSUME NEW q \in Ids
      PROVE  BreakerFits(breaker'[q], Cardinality(InFlight(q))')
  <2>1. CASE q = p
    BY <1>1, <2>1
  <2>2. CASE q # p
    <3>1. breaker'[q] = breaker[q] /\ breaker[q] \in BreakerForm
      BY <1>1, <2>2 DEF HookInv, BreakerInv
    <3>2. PICK m, n : m = Cardinality(InFlight(q)) /\ n = Cardinality(InFlight(q))'
      OBVIOUS
    <3>3. m \in Nat /\ n \in Nat /\ n <= m
      BY <2>2, <3>2, InFlightCounts
    <3>4. PICK b2 \in BreakerForm : b2 = breaker[q]
      BY <3>1
    <3>5. BreakerFits(b2, m)
      BY <3>2, <3>4 DEF HookInv
    <3>6. BreakerFits(b2, n)
      BY <3>3, <3>5, FewerFit
    <3> QED
      BY <3>1, <3>2, <3>4, <3>6
  <2> QED
    BY <2>1, <2>2
<1>3. ASSUME NEW q \in Ids
      PROVE  BreakerFits(breaker[q], Cardinality(InFlight(q)))'
  BY <1>2 DEF BreakerFits, Most
<1>4. hookCall' \in [HookCalls -> CallForm]
  BY DEF HookInv
<1> QED
  BY <1>3, <1>4 DEF HookInv

LEMMA HookStarts == HookInit => HookInv
<1> SUFFICES ASSUME HookInit PROVE HookInv
  OBVIOUS
<1>1. hookCall \in [HookCalls -> CallForm]
  BY DEF HookInit, CallForm
<1> QED
  BY <1>1, BreakerStarts, FreshFits DEF HookInv, HookInit

\* Where a call is.
LEMMA CallForms ==
    ASSUME NEW r \in CallForm
    PROVE  /\ r # NotCalling => Registered[r.at] \in Ids
           /\ r.calls # "none" => r # NotCalling
           /\ r # NotCalling =>
                 LET next == IF r.at = Len(Registered) THEN NotCalling ELSE [at |-> r.at + 1, calls |-> "none"]
                 IN  next \in CallForm /\ next.calls = "none"
           /\ r # NotCalling => \A kind \in {"normal", "trial"} :
                 /\ [r EXCEPT !.calls = kind] \in CallForm
                 /\ [r EXCEPT !.calls = kind].at = r.at
           /\ NotCalling \in CallForm /\ NotCalling.calls = "none"
           /\ [at |-> 1, calls |-> "none"] \in CallForm
<1>1. Len(Registered) \in Nat /\ Len(Registered) >= 1
  BY BreakerAssumption
<1>2. /\ NotCalling \in CallForm /\ NotCalling.calls = "none"
      /\ [at |-> 1, calls |-> "none"] \in CallForm
  BY <1>1 DEF CallForm, NotCalling
<1>3. ASSUME r # NotCalling
      PROVE  r \in [at : 1..Len(Registered), calls : {"none", "normal", "trial"}]
  BY <1>3 DEF CallForm
<1>4. r # NotCalling => Registered[r.at] \in Ids
  BY <1>3 DEF Ids
<1>5. ASSUME r # NotCalling
      PROVE  LET next == IF r.at = Len(Registered) THEN NotCalling ELSE [at |-> r.at + 1, calls |-> "none"]
             IN  next \in CallForm /\ next.calls = "none"
  BY <1>1, <1>2, <1>3, <1>5 DEF CallForm
<1>6. ASSUME r # NotCalling, NEW kind \in {"normal", "trial"}
      PROVE  /\ [r EXCEPT !.calls = kind] \in CallForm
             /\ [r EXCEPT !.calls = kind].at = r.at
  BY <1>3, <1>6 DEF CallForm
<1> QED
  BY <1>2, <1>4, <1>5, <1>6

LEMMA HookKeeps == HookInv /\ [HookNext]_hookVars => HookInv'
<1> SUFFICES ASSUME HookInv, [HookNext]_hookVars PROVE HookInv'
  OBVIOUS
<1>1. /\ BreakerInv /\ BreakerInv' /\ hookCall \in [HookCalls -> CallForm]
      /\ faulty \subseteq Ids /\ switchedOff \subseteq Ids
      /\ breaker \in [Ids -> BreakerForm]
      /\ \A p \in Ids : BreakerFits(breaker[p], Cardinality(InFlight(p)))
  BY BreakersStep DEF HookInv, BreakerInv
<1>2. ASSUME NEW p, UNCHANGED hookCall
      PROVE  Cardinality(InFlight(p))' = Cardinality(InFlight(p))
  BY <1>2 DEF InFlight
<1>3. ASSUME UNCHANGED hookCall, faulty' \subseteq Ids, switchedOff' \subseteq Ids,
             \A p \in Ids : BreakerFits(breaker'[p], Cardinality(InFlight(p)))
      PROVE  HookInv'
  <2>1. \A p \in Ids : BreakerFits(breaker[p], Cardinality(InFlight(p)))'
    BY <1>2, <1>3 DEF BreakerFits, Most
  <2> QED
    BY <1>1, <1>3, <2>1 DEF HookInv
<1>4. ASSUME NEW c \in HookCalls
      PROVE  /\ hookCall[c] \in CallForm
             /\ hookCall[c] # NotCalling => Registered[hookCall[c].at] \in Ids
             /\ hookCall[c].calls # "none" => hookCall[c] # NotCalling
  BY <1>1, CallForms
<1>5. ASSUME NEW c \in HookCalls, NEW r \in CallForm, r.calls = "none",
             hookCall' = [hookCall EXCEPT ![c] = r], UNCHANGED <<breaker, faulty, switchedOff>>
      PROVE  HookInv'
  <2>1. \A p : Cardinality(InFlight(p))' <= Cardinality(InFlight(p))
    <3>1. \A p : Cardinality(InFlight(p)') <= Cardinality(InFlight(p))
      BY <1>1, <1>5, FewerInFlight
    <3> QED
      BY <3>1
  <2>2. ASSUME NEW p \in Ids
        PROVE  BreakerFits(breaker[p], Cardinality(InFlight(p)))'
    <3>1. PICK m, n : m = Cardinality(InFlight(p)) /\ n = Cardinality(InFlight(p))'
      OBVIOUS
    <3>2. m \in Nat /\ n \in Nat /\ n <= m
      BY <2>1, <3>1, InFlightCounts
    <3>3. PICK b \in BreakerForm : b = breaker[p]
      BY <1>1
    <3>4. BreakerFits(b, n)
      BY <1>1, <3>1, <3>2, <3>3, FewerFit
    <3> QED
      BY <1>5, <3>1, <3>3, <3>4 DEF BreakerFits, Most
  <2> QED
    BY <1>1, <1>5, <2>2 DEF HookInv
<1>6. ASSUME NEW c \in HookCalls, RunSync(c)
      PROVE  HookInv'
  <2>1. [at |-> 1, calls |-> "none"] \in CallForm
    BY <1>4, CallForms
  <2> QED
    BY <1>5, <1>6, <2>1 DEF RunSync, breakerVars
<1>7. ASSUME NEW c \in HookCalls, hookCall[c] # NotCalling, Advance(c)
      PROVE  \E r \in CallForm : r.calls = "none" /\ hookCall' = [hookCall EXCEPT ![c] = r]
  <2> DEFINE r == IF hookCall[c].at = Len(Registered) THEN NotCalling
                  ELSE [at |-> hookCall[c].at + 1, calls |-> "none"]
  <2>1. r \in CallForm /\ r.calls = "none"
    BY <1>4, <1>7, CallForms
  <2>2. hookCall' = [hookCall EXCEPT ![c] = r]
    BY <1>7 DEF Advance
  <2> HIDE DEF r
  <2> QED
    BY <2>1, <2>2
<1>8. ASSUME NEW c \in HookCalls, TryAcquire(c)
      PROVE  HookInv'
  <2> DEFINE p == Registered[hookCall[c].at]
             b == Observed(breaker[p])
  <2>1. hookCall[c] # NotCalling /\ p \in Ids /\ UNCHANGED <<faulty, switchedOff>>
    BY <1>4, <1>8 DEF TryAcquire
  <2>2. breaker[p] \in BreakerForm /\ BreakerFits(breaker[p], Cardinality(InFlight(p)))
    BY <1>1, <2>1
  <2>3. CASE p \in switchedOff
    <3>1. Advance(c) /\ UNCHANGED breaker
      BY <1>8, <2>3 DEF TryAcquire
    <3> QED
      BY <1>5, <1>7, <2>1, <3>1
  <2>4. CASE p \notin switchedOff /\ b.state = "open"
    <3>1. Advance(c) /\ breaker' = [breaker EXCEPT ![p] = b]
      BY <1>8, <2>4 DEF TryAcquire
    <3>2. b = breaker[p]
      BY <2>2, <2>4 DEF Observed, BreakerForm
    <3>3. UNCHANGED breaker
      BY <1>1, <2>1, <3>1, <3>2
    <3> QED
      BY <1>5, <1>7, <2>1, <3>1, <3>3
  <2>5. CASE p \notin switchedOff /\ b.state # "open"
    <3>1. /\ breaker' = [breaker EXCEPT ![p] = b]
          /\ \E kind \in {"normal", "trial"} : hookCall' = [hookCall EXCEPT ![c].calls = kind]
      BY <1>8, <2>5 DEF TryAcquire
    <3>2. PICK kind \in {"normal", "trial"} : hookCall' = [hookCall EXCEPT ![c].calls = kind]
      BY <3>1
    <3>3. PICK r : r = [hookCall[c] EXCEPT !.calls = kind]
      OBVIOUS
    <3>4. r \in CallForm /\ r.at = hookCall[c].at /\ hookCall' = [hookCall EXCEPT ![c] = r]
      BY <1>4, <2>1, <3>2, <3>3, CallForms
    <3>5. ASSUME NEW q \in Ids, q # p
          PROVE  Cardinality(InFlight(q))' <= Cardinality(InFlight(q))
      <4>0. r.at = hookCall[c].at /\ Registered[r.at] # q
        BY <3>4, <3>5
      <4>1. InFlight(q)' = InFlight(q)
        BY <1>1, <3>4, <4>0, CallsInFlight
      <4> QED
        BY <4>1, InFlightCounts
    <3>6. \A k : BreakerFits(b, k)
      BY <2>2, <2>5, ObservedFits
    <3>7. PICK p0, b0 : p0 = p /\ b0 = b
      OBVIOUS
    <3> HIDE DEF p, b
    <3>8. /\ p0 \in Ids /\ breaker' = [breaker EXCEPT ![p0] = b0] /\ UNCHANGED <<faulty, switchedOff>>
          /\ \A q \in Ids : q # p0 => Cardinality(InFlight(q))' <= Cardinality(InFlight(q))
      BY <2>1, <3>1, <3>5, <3>7
    <3>9. BreakerFits(b0, Cardinality(InFlight(p0))')
      BY <3>6, <3>7
    <3> QED
      BY <1>1, <3>4, <3>8, <3>9, CallTurns
  <2> QED
    BY <2>3, <2>4, <2>5
<1>9. ASSUME NEW c \in HookCalls, NEW r \in CallForm, r.calls = "none", hookCall[c].calls # "none",
             hookCall' = [hookCall EXCEPT ![c] = r], UNCHANGED <<faulty, switchedOff>>,
             NEW p, p = Registered[hookCall[c].at],
             \/ breaker' = [breaker EXCEPT ![p] = AfterSuccess(breaker[p])]
             \/ breaker' = [breaker EXCEPT ![p] = AfterFailure(breaker[p])]
      PROVE  HookInv'
  <2>1. p \in Ids /\ breaker[p] \in BreakerForm /\ BreakerFits(breaker[p], Cardinality(InFlight(p)))
    BY <1>1, <1>4, <1>9
  <2>2. \A q : Cardinality(InFlight(q)') <= Cardinality(InFlight(q))
    BY <1>1, <1>9, FewerInFlight
  <2>3. Cardinality(InFlight(p)) = Cardinality(InFlight(p)') + 1
    BY <1>1, <1>9, FewerInFlight
  <2>4. PICK m, n : m = Cardinality(InFlight(p)) /\ n = Cardinality(InFlight(p))'
    OBVIOUS
  <2>5. m \in Nat /\ n \in Nat /\ m = n + 1 /\ n + 1 <= Cardinality(HookCalls)
    BY <2>3, <2>4, InFlightCounts
  <2>6. BreakerFits(breaker[p], m) /\ BreakerFits(breaker[p], n + 1)
    BY <2>1, <2>4, <2>5
  <2>7. PICK b0 \in BreakerForm : b0 = breaker[p]
    BY <2>1
  <2>8. PICK b : /\ breaker' = [breaker EXCEPT ![p] = b]
                 /\ b = AfterSuccess(b0) \/ b = AfterFailure(b0)
    BY <1>9, <2>7
  <2>9. BreakerFits(AfterSuccess(b0), n)
    <3>1. BreakerFits(b0, m) /\ n <= m
      BY <2>5, <2>6, <2>7
    <3> QED
      BY <2>5, <3>1, SuccessFits
  <2>10. BreakerFits(AfterFailure(b0), n)
    <3>1. BreakerFits(b0, n + 1)
      BY <2>6, <2>7
    <3> QED
      BY <2>5, <3>1, FailureFits
  <2>11. BreakerFits(b, Cardinality(InFlight(p))')
    BY <2>4, <2>8, <2>9, <2>10
  <2>12. \A q \in Ids : q # p => Cardinality(InFlight(q))' <= Cardinality(InFlight(q))
    BY <2>2
  <2> QED
    BY <1>1, <1>9, <2>1, <2>8, <2>11, <2>12, CallTurns
<1>10. ASSUME NEW c \in HookCalls, NEW rejects \in BOOLEAN, HandlerAnswers(c, rejects)
       PROVE  HookInv'
  <2>1. PICK p : p = Registered[hookCall[c].at]
    OBVIOUS
  <2>2. /\ breaker' = [breaker EXCEPT ![p] = AfterSuccess(breaker[p])]
        /\ UNCHANGED <<faulty, switchedOff>> /\ hookCall[c].calls # "none"
        /\ hookCall' = [hookCall EXCEPT ![c] = NotCalling] \/ Advance(c)
    BY <1>10, <2>1 DEF HandlerAnswers
  <2>3. \E r \in CallForm : r.calls = "none" /\ hookCall' = [hookCall EXCEPT ![c] = r]
    <3>1. NotCalling \in CallForm /\ NotCalling.calls = "none"
      BY <1>4, CallForms
    <3> QED
      BY <1>4, <1>7, <2>2, <3>1
  <2>4. PICK r \in CallForm : r.calls = "none" /\ hookCall' = [hookCall EXCEPT ![c] = r]
    BY <2>3
  <2> QED
    BY <1>9, <2>1, <2>2, <2>4
<1>11. ASSUME NEW c \in HookCalls, HandlerFails(c)
       PROVE  HookInv'
  <2>1. PICK p : p = Registered[hookCall[c].at]
    OBVIOUS
  <2>2. /\ breaker' = [breaker EXCEPT ![p] = AfterFailure(breaker[p])]
        /\ UNCHANGED <<faulty, switchedOff>> /\ hookCall[c].calls # "none" /\ Advance(c)
    BY <1>11, <2>1 DEF HandlerFails
  <2>3. PICK r \in CallForm : r.calls = "none" /\ hookCall' = [hookCall EXCEPT ![c] = r]
    BY <1>4, <1>7, <2>2
  <2> QED
    BY <1>9, <2>1, <2>2, <2>3
<1>12. ASSUME NEW p \in Ids, NEW b, breaker' = [breaker EXCEPT ![p] = b],
              UNCHANGED <<hookCall, faulty, switchedOff>>,
              BreakerFits(b, Cardinality(InFlight(p)))
       PROVE  HookInv'
  BY <1>1, <1>3, <1>12
<1>13. ASSUME NEW p \in Ids, BreakerStateFor(p) \/ Reregister(p)
       PROVE  HookInv'
  <2>1. PICK n : n = Cardinality(InFlight(p))
    OBVIOUS
  <2>2. BreakerFits(Fresh, n)
    BY FreshFits
  <2>3. BreakerFits(Observed(breaker[p]), n)
    <3>1. PICK b \in BreakerForm : b = breaker[p]
      BY <1>1
    <3>2. BreakerFits(b, n)
      BY <1>1, <2>1, <3>1
    <3> QED
      BY <3>1, <3>2, ObservedFits
  <2>4. \E b : /\ breaker' = [breaker EXCEPT ![p] = b]
               /\ b = Fresh \/ b = Observed(breaker[p])
    BY <1>13 DEF BreakerStateFor, Reregister
  <2>5. UNCHANGED <<hookCall, faulty, switchedOff>>
    BY <1>13 DEF BreakerStateFor, Reregister
  <2> QED
    BY <1>12, <2>1, <2>2, <2>3, <2>4, <2>5
<1>14. ASSUME NEW p \in Ids, SwitchPlugin(p) \/ HandlerChanges(p)
       PROVE  HookInv'
  BY <1>1, <1>3, <1>14 DEF SwitchPlugin, HandlerChanges, breakerVars
<1>15. ASSUME TimePasses
       PROVE  HookInv'
  <2>1. ASSUME NEW p \in Ids
        PROVE  BreakerFits(breaker'[p], Cardinality(InFlight(p)))
    <3>1. breaker[p] \in BreakerForm /\ BreakerFits(breaker[p], Cardinality(InFlight(p)))
      BY <1>1
    <3> DEFINE gap == IF breaker[p].failureCount > 0 THEN Later(breaker[p].sinceFailure, WindowTime + 1)
                      ELSE breaker[p].sinceFailure
               open == IF breaker[p].state = "open" THEN Later(breaker[p].sinceOpen, CooldownTime)
                       ELSE breaker[p].sinceOpen
    <3>2. breaker'[p] = [breaker[p] EXCEPT !.sinceFailure = gap, !.sinceOpen = open]
      BY <1>15 DEF TimePasses
    <3>3. gap <= WindowTime + 1 /\ open <= CooldownTime
      BY <3>1, BreakerAssumption DEF BreakerForm, Later, BreakerFits
    <3> HIDE DEF gap, open
    <3>4. /\ breaker'[p].failureCount = breaker[p].failureCount /\ breaker'[p].state = breaker[p].state
          /\ breaker'[p].sinceFailure = gap /\ breaker'[p].sinceOpen = open
      BY <3>1, <3>2 DEF BreakerForm
    <3> QED
      BY <3>1, <3>3, <3>4 DEF BreakerFits
  <2>2. UNCHANGED <<hookCall, faulty, switchedOff>>
    BY <1>15 DEF TimePasses
  <2> QED
    BY <1>1, <1>3, <2>1, <2>2
<1>16. CASE UNCHANGED hookVars
  BY <1>1, <1>3, <1>16 DEF hookVars, breakerVars
<1> QED
  BY <1>6, <1>8, <1>10, <1>11, <1>13, <1>14, <1>15, <1>16 DEF HookNext

LEMMA HookTyped == HookInv => HookTypeOK
<1> SUFFICES ASSUME HookInv PROVE HookTypeOK
  OBVIOUS
<1>1. ASSUME NEW p \in Ids
      PROVE  breaker[p] \in [state : {"closed", "open", "half-open"},
                             failureCount : 0..(FailureThreshold + Cardinality(HookCalls) - 1),
                             sinceFailure : 0..(WindowTime + 1), sinceOpen : 0..CooldownTime]
  <2>1. breaker[p] \in BreakerForm /\ BreakerFits(breaker[p], Cardinality(InFlight(p)))
    BY DEF HookInv, BreakerInv
  <2>2. /\ breaker[p].failureCount \in 0..(FailureThreshold + Cardinality(HookCalls) - 1)
        /\ breaker[p].sinceFailure \in 0..(WindowTime + 1) /\ breaker[p].sinceOpen \in 0..CooldownTime
    BY <2>1, CallsAreFinite, BreakerAssumption DEF BreakerFits, BreakerForm, Most
  <2> QED
    BY <2>1, <2>2 DEF BreakerForm
<1>2. CallForm \subseteq [at : 0..Len(Registered), calls : {"none", "normal", "trial"}]
  <2>1. Len(Registered) \in Nat
    BY BreakerAssumption
  <2> QED
    BY <2>1 DEF CallForm, NotCalling
<1> QED
  BY <1>1, <1>2 DEF HookInv, BreakerInv, HookTypeOK

-----------------------------------------------------------------------------
\* How often a delivery is tried, whatever runs of the job overlap.  A run tries the rows as it
\* has read them (webhooks.service.ts:140), so that attempts may pass MAX_ATTEMPTS; those that
\* are still to come count with those made.
\* A sender that has still to count an attempt of a row: it is at the row, or the job has
\* it on its list.
Tries(s, r, d) ==
    \/ r.stage \in {"post", "answered", "failed"} /\ r.row = d
    \/ s \in Jobs /\ r # NotSending /\ d \in r.todo
Triers(d) == {s \in Senders : Tries(s, sender[s], d)}
NoComingBack == \A s \in Jobs : On(sender[s]) => sender[s].row \notin sender[s].todo
\* Whoever is to count one more has read the row before its attempts were used up.
TriesInBounds ==
    \A d \in Deliverable :
        IsRow(d) => delivery[d].attempts + Cardinality(Triers(d)) <= MaxAttempts + Cardinality(Senders)
AttemptsInv == DeliveriesTyped /\ crashes \in 0..MaxCrashes /\ NoComingBack /\ TriesInBounds

LEMMA SendersAreFinite ==
    /\ Cardinality(Senders) \in Nat
    /\ \A S \in SUBSET Senders : /\ IsFiniteSet(S) /\ Cardinality(S) \in Nat
                                 /\ Cardinality(S) <= Cardinality(Senders)
<1>1. IsFiniteSet(Senders)
  BY DeliveriesAssumption, FS_Union DEF Senders
<1> QED
  BY <1>1, FS_Subset, FS_CardinalityType

LEMMA RowTyped ==
    ASSUME DeliveriesTyped, NEW d \in Deliverable
    PROVE  IsRow(d) <=> delivery[d] \in DeliveryRow
<1>1. NoDelivery \notin DeliveryRow /\ Deleted \notin DeliveryRow
  BY DEF NoDelivery, Deleted, DeliveryRow
<1> QED
  BY <1>1 DEF DeliveriesTyped, IsRow

\* Writing a row and going on keeps the bound of its attempts.
LEMMA SenderTurn ==
    ASSUME AttemptsInv, NEW s \in Senders, NEW r \in SenderForm(s),
           sender' = [sender EXCEPT ![s] = r], endpoint' \subseteq Endpoints,
           delivery' \in [Deliverable -> DeliveryRow \cup {NoDelivery, Deleted}],
           crashes' \in 0..MaxCrashes,
           s \in Jobs /\ On(r) => r.row \notin r.todo,
           \A d \in Deliverable : delivery'[d] \in DeliveryRow =>
              \/ delivery'[d].attempts < MaxAttempts
              \/ /\ IsRow(d) /\ delivery'[d].attempts = delivery[d].attempts
                 /\ Tries(s, r, d) => Tries(s, sender[s], d)
              \/ /\ IsRow(d) /\ delivery'[d].attempts = delivery[d].attempts + 1
                 /\ Tries(s, sender[s], d) /\ ~Tries(s, r, d)
    PROVE  AttemptsInv'
<1>1. /\ \A u \in Senders : sender'[u] = IF u = s THEN r ELSE sender[u]
      /\ sender' = [u \in Senders |-> sender'[u]]
  BY DEF AttemptsInv, DeliveriesTyped
<1>2. DeliveriesTyped'
  BY <1>1 DEF AttemptsInv, DeliveriesTyped, SenderForm, Sending, Deliverable
<1>3. NoComingBack'
  <2>1. Jobs \subseteq Senders
    BY DEF Senders
  <2> QED
    BY <1>1, <2>1 DEF AttemptsInv, NoComingBack, On
<1>4. ASSUME NEW d \in Deliverable, IsRow(d)'
      PROVE  delivery'[d].attempts + Cardinality(Triers(d))' <= MaxAttempts + Cardinality(Senders)
  <2>1. delivery'[d] \in DeliveryRow
    BY <1>4 DEF IsRow
  <2>2. PICK S, T : S = Triers(d) /\ T = Triers(d)'
    OBVIOUS
  <2>3. S \subseteq Senders /\ T \subseteq Senders
    BY <2>2 DEF Triers
  <2>4. \A u \in Senders : /\ (u \in S <=> Tries(u, sender[u], d))
                            /\ (u \in T <=> Tries(u, sender'[u], d))
    BY <2>2 DEF Triers, Tries
  <2>5. /\ Cardinality(S) \in Nat /\ Cardinality(T) \in Nat /\ IsFiniteSet(S)
        /\ Cardinality(S) <= Cardinality(Senders) /\ Cardinality(T) <= Cardinality(Senders)
        /\ Cardinality(Senders) \in Nat /\ MaxAttempts \in Nat
    BY <2>3, SendersAreFinite, DeliveriesAssumption
  <2>6. delivery'[d].attempts \in Nat
    BY <2>1 DEF DeliveryRow
  <2>7. IsRow(d) => /\ delivery[d].attempts \in Nat
                    /\ delivery[d].attempts + Cardinality(S) <= MaxAttempts + Cardinality(Senders)
    BY <2>2, RowTyped DEF AttemptsInv, TriesInBounds, DeliveryRow
  <2>8. CASE delivery'[d].attempts < MaxAttempts
    <3>1. delivery'[d].attempts + Cardinality(T) <= MaxAttempts + Cardinality(Senders)
      BY <2>5, <2>6, <2>8
    <3> QED
      BY <2>2, <3>1
  <2>9. CASE /\ IsRow(d) /\ delivery'[d].attempts = delivery[d].attempts
             /\ Tries(s, r, d) => Tries(s, sender[s], d)
    <3>1. T \subseteq S
      BY <1>1, <2>3, <2>4, <2>9
    <3>2. Cardinality(T) <= Cardinality(S)
      BY <2>5, <3>1, FS_Subset
    <3>3. delivery'[d].attempts + Cardinality(T) <= MaxAttempts + Cardinality(Senders)
      BY <2>5, <2>6, <2>7, <2>9, <3>2
    <3> QED
      BY <2>2, <3>3
  <2>10. CASE /\ IsRow(d) /\ delivery'[d].attempts = delivery[d].attempts + 1
              /\ Tries(s, sender[s], d) /\ ~Tries(s, r, d)
    <3>1. s \in S /\ T = S \ {s}
      BY <1>1, <2>3, <2>4, <2>10
    <3>2. Cardinality(T) = Cardinality(S) - 1
      BY <2>5, <3>1, FS_RemoveElement
    <3>3. delivery'[d].attempts + Cardinality(T) <= MaxAttempts + Cardinality(Senders)
      BY <2>5, <2>6, <2>7, <2>10, <3>2
    <3> QED
      BY <2>2, <3>3
  <2> QED
    BY <2>1, <2>8, <2>9, <2>10
<1>5. TriesInBounds'
  BY <1>4 DEF TriesInBounds, Senders, Deliverable
<1> QED
  BY <1>2, <1>3, <1>5 DEF AttemptsInv

\* A sender goes on without a row to write: what it takes up has attempts left.
LEMMA QuietTurn ==
    ASSUME AttemptsInv, NEW s \in Senders, NEW r \in SenderForm(s),
           sender' = [sender EXCEPT ![s] = r], UNCHANGED <<endpoint, delivery>>,
           crashes' \in 0..MaxCrashes,
           s \in Jobs /\ On(r) => r.row \notin r.todo,
           \A d \in Deliverable : Tries(s, r, d) => Tries(s, sender[s], d) \/ delivery[d].attempts < MaxAttempts
    PROVE  AttemptsInv'
<1>1. /\ endpoint' \subseteq Endpoints
      /\ delivery' \in [Deliverable -> DeliveryRow \cup {NoDelivery, Deleted}]
  BY DEF AttemptsInv, DeliveriesTyped
<1>2. ASSUME NEW d \in Deliverable, delivery'[d] \in DeliveryRow
      PROVE  \/ delivery'[d].attempts < MaxAttempts
             \/ /\ IsRow(d) /\ delivery'[d].attempts = delivery[d].attempts
                /\ Tries(s, r, d) => Tries(s, sender[s], d)
  BY <1>2, RowTyped DEF AttemptsInv
<1> QED
  BY <1>1, <1>2, SenderTurn

\* Nobody goes on: rows wait no longer or are deleted.
LEMMA RowsTurn ==
    ASSUME AttemptsInv, UNCHANGED <<sender, crashes>>, endpoint' \subseteq Endpoints,
           delivery' \in [Deliverable -> DeliveryRow \cup {NoDelivery, Deleted}],
           \A d \in Deliverable : delivery'[d] \in DeliveryRow =>
              IsRow(d) /\ delivery'[d].attempts = delivery[d].attempts
    PROVE  AttemptsInv'
<1>1. DeliveriesTyped' /\ NoComingBack' /\ crashes' \in 0..MaxCrashes
  BY DEF AttemptsInv, DeliveriesTyped, NoComingBack, On, SenderForm, Sending, Deliverable
<1>2. ASSUME NEW d \in Deliverable
      PROVE  /\ Cardinality(Triers(d))' = Cardinality(Triers(d))
             /\ IsRow(d)' => delivery'[d] \in DeliveryRow
  BY DEF Triers, Tries, IsRow
<1>3. TriesInBounds'
  BY <1>2 DEF AttemptsInv, TriesInBounds, Senders, Deliverable
<1> QED
  BY <1>1, <1>3 DEF AttemptsInv

LEMMA AttemptsStart == DeliveriesInit => AttemptsInv
<1> SUFFICES ASSUME DeliveriesInit PROVE AttemptsInv
  OBVIOUS
<1>1. DeliveriesTyped
  BY DeliveriesStart DEF DeliveriesInv
<1>2. NoComingBack /\ TriesInBounds
  BY DEF On, NotSending, Senders, NoComingBack, TriesInBounds, IsRow, DeliveriesInit
<1> QED
  BY <1>1, <1>2, DeliveriesAssumption DEF AttemptsInv, DeliveriesInit

LEMMA AttemptsKeep == AttemptsInv /\ [DeliveriesNext]_deliveryVars => AttemptsInv'
<1> SUFFICES ASSUME AttemptsInv, [DeliveriesNext]_deliveryVars PROVE AttemptsInv'
  OBVIOUS
<1>1. /\ DeliveriesTyped /\ NoComingBack /\ crashes \in 0..MaxCrashes
      /\ delivery \in [Deliverable -> DeliveryRow \cup {NoDelivery, Deleted}]
      /\ endpoint \subseteq Endpoints
  BY DEF AttemptsInv, DeliveriesTyped
<1>2. ASSUME NEW s \in Senders
      PROVE  /\ sender[s] \in SenderForm(s)
             /\ NotSending \in SenderForm(s) /\ ~On(NotSending)
             /\ \A d : ~Tries(s, NotSending, d)
  <2>1. sender[s] \in SenderForm(s)
    BY <1>1 DEF DeliveriesTyped
  <2> QED
    BY <2>1, SendingForms DEF Tries, NotSending
<1>3. CASE UNCHANGED deliveryVars
  BY <1>1, <1>3, RowTyped, RowsTurn DEF deliveryVars
<1>4. ASSUME NEW s \in Senders, EndSender(s), UNCHANGED <<endpoint, delivery>>, crashes' \in 0..MaxCrashes
      PROVE  AttemptsInv'
  BY <1>2, <1>4, QuietTurn DEF EndSender, SetSender
<1>5. ASSUME NEW s \in Senders, CrashSender(s) \/ Finish(s)
      PROVE  AttemptsInv'
  <2>1. EndSender(s) /\ UNCHANGED <<endpoint, delivery>> /\ crashes' \in 0..MaxCrashes
    BY <1>1, <1>5, DeliveriesAssumption DEF CrashSender, Finish
  <2> QED
    BY <1>4, <2>1
<1>6. ASSUME NEW s \in Senders, Dispatch(s)
      PROVE  AttemptsInv'
  <2> DEFINE r == [stage |-> "next", todo |-> endpoint]
  <2>1. /\ s \notin Jobs /\ sender' = [sender EXCEPT ![s] = r]
        /\ UNCHANGED <<endpoint, delivery>> /\ crashes' \in 0..MaxCrashes
    BY <1>1, <1>6, DeliveriesAssumption DEF Dispatch, SetSender
  <2>2. r \in SenderForm(s) /\ ~On(r) /\ \A d : ~Tries(s, r, d)
    BY <1>1, <2>1 DEF SenderForm, Sending, On, Tries
  <2> HIDE DEF r
  <2> QED
    BY <2>1, <2>2, QuietTurn
<1>7. ASSUME NEW s \in Senders, SelectDue(s)
      PROVE  AttemptsInv'
  <2> DEFINE r == [stage |-> "next", todo |-> {d \in Deliverable : IsDue(d)}]
  <2>1. /\ s \in Jobs /\ sender' = [sender EXCEPT ![s] = r]
        /\ UNCHANGED <<endpoint, delivery>> /\ crashes' \in 0..MaxCrashes
    BY <1>1, <1>7 DEF SelectDue, SetSender
  <2>2. r \in SenderForm(s) /\ ~On(r) /\ \A d : Tries(s, r, d) => IsDue(d)
    BY <2>1 DEF SenderForm, Sending, On, Tries
  <2>3. \A d : Tries(s, r, d) => delivery[d].attempts < MaxAttempts
    BY <2>2 DEF IsDue
  <2> HIDE DEF r
  <2> QED
    BY <2>1, <2>2, <2>3, QuietTurn
<1>8. ASSUME NEW s \in Senders, NEW d \in Deliverable, RetryDelivery(s, d)
      PROVE  AttemptsInv'
  <2> DEFINE r == [stage |-> "post", row |-> d, todo |-> sender[s].todo \ {d}]
  <2>1. /\ s \in Jobs /\ sender' = [sender EXCEPT ![s] = r]
        /\ UNCHANGED <<endpoint, delivery>> /\ crashes' \in 0..MaxCrashes
        /\ sender[s] # NotSending /\ d \in sender[s].todo
    BY <1>1, <1>8 DEF RetryDelivery, SetSender, NotSending
  <2>2. sender[s].todo \subseteq Deliverable
    BY <1>2, <2>1, SendingForms
  <2>3. r \in SenderForm(s) /\ r.row = d /\ r.todo = sender[s].todo \ {d}
    BY <2>1, <2>2 DEF SenderForm, Sending
  <2> HIDE DEF r
  <2>4. \A c : Tries(s, r, c) => Tries(s, sender[s], c)
    BY <2>1, <2>3 DEF Tries
  <2> QED
    BY <2>1, <2>3, <2>4, QuietTurn
<1>9. ASSUME NEW s \in Senders, sender[s].stage \in {"post", "answered"},
             NEW stage \in {"answered", "failed"}, Stage(s, stage),
             UNCHANGED <<endpoint, delivery, crashes>>
      PROVE  AttemptsInv'
  <2>1. On(sender[s]) /\ stage \in {"post", "answered", "failed", "schedule"}
    BY <1>9 DEF On
  <2> DEFINE r == [sender[s] EXCEPT !.stage = stage]
  <2>2. sender[s] \in SenderForm(s)
    BY <1>2
  <2>3. r \in SenderForm(s) /\ r.stage = stage /\ r.row = sender[s].row /\ r.todo = sender[s].todo
    BY <2>1, <2>2 DEF SenderForm, Sending, NotSending, On
  <2>4. sender' = [sender EXCEPT ![s] = r]
    BY <1>9 DEF Stage, SetSender
  <2> HIDE DEF r
  <2>5. sender[s] # NotSending
    BY <1>2, <2>1
  <2>6. \A c : Tries(s, r, c) => Tries(s, sender[s], c)
    BY <1>9, <2>3, <2>5 DEF Tries
  <2>7. s \in Jobs => r.row \notin r.todo
    BY <1>1, <2>1, <2>3 DEF NoComingBack
  <2> QED
    BY <1>1, <1>9, <2>3, <2>4, <2>6, <2>7, QuietTurn
<1>10. ASSUME NEW s \in Senders, PostDelivery(s)
       PROVE  AttemptsInv'
  BY <1>9, <1>10 DEF PostDelivery
<1>11. ASSUME NEW s \in Senders, NEW e \in Endpoints, CreateDelivery(s, e)
       PROVE  AttemptsInv'
  <2>0. s \notin Jobs /\ sender[s] # NotSending /\ UNCHANGED <<endpoint, crashes>>
    BY <1>11, DeliveriesAssumption DEF CreateDelivery, NotSending
  <2>1. CASE e \notin endpoint
    BY <1>1, <1>4, <1>11, <2>0, <2>1 DEF CreateDelivery
  <2>2. ASSUME NEW d \in Deliverable, delivery' = [delivery EXCEPT ![d] = NewDelivery(e)],
               SetSender(s, [stage |-> "post", row |-> d, todo |-> sender[s].todo \ {e}])
        PROVE  AttemptsInv'
    <3> DEFINE r == [stage |-> "post", row |-> d, todo |-> sender[s].todo \ {e}]
               x == NewDelivery(e)
    <3>1. x \in DeliveryRow /\ x.attempts < MaxAttempts
      BY DeliveriesAssumption DEF NewDelivery, DeliveryRow
    <3>2. sender[s].todo \subseteq Endpoints
      BY <1>2, <2>0, SendingForms
    <3>3. r \in SenderForm(s) /\ r.row = d /\ r.stage = "post"
      BY <2>0, <3>2 DEF SenderForm, Sending
    <3>4. sender' = [sender EXCEPT ![s] = r] /\ delivery' = [delivery EXCEPT ![d] = x]
      BY <2>2 DEF SetSender
    <3> HIDE DEF r, x
    <3>5. \A c \in Deliverable : delivery'[c] = IF c = d THEN x ELSE delivery[c]
      BY <1>1, <3>4
    <3>6. \A c : Tries(s, r, c) => c = d
      BY <2>0, <3>3 DEF Tries
    <3>7. \A c \in Deliverable : delivery'[c] \in DeliveryRow =>
              \/ delivery'[c].attempts < MaxAttempts
              \/ /\ IsRow(c) /\ delivery'[c].attempts = delivery[c].attempts
                 /\ Tries(s, r, c) => Tries(s, sender[s], c)
      BY <1>1, <3>1, <3>5, <3>6, RowTyped
    <3>8. delivery' \in [Deliverable -> DeliveryRow \cup {NoDelivery, Deleted}]
      BY <1>1, <3>1, <3>4
    <3> QED
      BY <1>1, <2>0, <3>3, <3>4, <3>7, <3>8, SenderTurn
  <2> QED
    BY <1>11, <2>1, <2>2 DEF CreateDelivery
<1>12. ASSUME NEW s \in Senders, RecordSuccess(s) \/ RecordFailure(s) \/ ScheduleRetry(s)
       PROVE  AttemptsInv'
  <2> DEFINE d == sender[s].row
             next == [stage |-> "next", todo |-> sender[s].todo]
  <2>1. On(sender[s]) /\ UNCHANGED <<endpoint, crashes>> /\ sender[s] \in SenderForm(s)
    BY <1>2, <1>12 DEF RecordSuccess, RecordFailure, ScheduleRetry, On
  <2>2. d \in Deliverable /\ sender[s] # NotSending
    BY <2>1, SendingForms
  <2>3. next \in SenderForm(s) /\ next.stage = "next" /\ next.todo = sender[s].todo /\ ~On(next)
    BY <2>1, <2>2, SendingForms DEF On
  <2>4. CASE ~IsRow(d)
    <3>1. UNCHANGED delivery /\ (EndSender(s) \/ (sender[s].stage = "answered" /\ Stage(s, "failed")))
      BY <1>12, <2>4 DEF RecordSuccess, RecordFailure, ScheduleRetry
    <3> QED
      BY <1>1, <1>4, <1>9, <2>1, <3>1
  \* The row is written, and the sender leaves it or waits to schedule its retry.
  <2>5. ASSUME NEW x \in DeliveryRow, NEW r \in SenderForm(s), IsRow(d),
               sender' = [sender EXCEPT ![s] = r], delivery' = [delivery EXCEPT ![d] = x],
               r.stage \in {"next", "schedule"}, r.todo = sender[s].todo,
               r.stage = "schedule" => r.row = d,
               \/ x.attempts = delivery[d].attempts
               \/ x.attempts = delivery[d].attempts + 1 /\ sender[s].stage \in {"answered", "failed"}
        PROVE  AttemptsInv'
    <3>1. \A c \in Deliverable : delivery'[c] = IF c = d THEN x ELSE delivery[c]
      BY <1>1, <2>5
    <3>2. s \in Jobs => d \notin sender[s].todo
      BY <1>1, <2>1 DEF NoComingBack
    <3>3. \A c : Tries(s, r, c) => Tries(s, sender[s], c)
      BY <2>2, <2>5 DEF Tries
    <3>4. ~Tries(s, r, d)
      BY <2>5, <3>2 DEF Tries
    <3>5. sender[s].stage \in {"answered", "failed"} => Tries(s, sender[s], d)
      BY DEF Tries
    <3>6. s \in Jobs /\ On(r) => r.row \notin r.todo
      BY <2>5, <3>2 DEF On
    <3>7. delivery' \in [Deliverable -> DeliveryRow \cup {NoDelivery, Deleted}]
      BY <1>1, <2>5
    <3>8. \A c \in Deliverable : delivery'[c] \in DeliveryRow =>
              \/ /\ IsRow(c) /\ delivery'[c].attempts = delivery[c].attempts
                 /\ Tries(s, r, c) => Tries(s, sender[s], c)
              \/ /\ IsRow(c) /\ delivery'[c].attempts = delivery[c].attempts + 1
                 /\ Tries(s, sender[s], c) /\ ~Tries(s, r, c)
      BY <1>1, <2>5, <3>1, <3>3, <3>4, <3>5, RowTyped
    <3> HIDE DEF d
    <3> QED
      BY <1>1, <2>1, <2>5, <3>6, <3>7, <3>8, SenderTurn
  <2>6. CASE IsRow(d)
    <3>1. delivery[d] \in DeliveryRow
      BY <1>1, <2>2, <2>6, RowTyped
    <3>2. PICK old \in DeliveryRow : old = delivery[d]
      BY <3>1
    <3>3. CASE RecordSuccess(s)
      <4> DEFINE x == [old EXCEPT !.attempts = old.attempts + 1, !.success = TRUE, !.due = "null"]
      <4>1. x \in DeliveryRow /\ x.attempts = old.attempts + 1
        BY OneMore DEF DeliveryRow
      <4>2. /\ sender' = [sender EXCEPT ![s] = next] /\ delivery' = [delivery EXCEPT ![d] = x]
            /\ sender[s].stage = "answered"
        BY <2>6, <3>2, <3>3 DEF RecordSuccess, NextOf, SetSender
      <4> HIDE DEF x, next, d
      <4> QED
        BY <2>3, <2>5, <2>6, <3>2, <4>1, <4>2
    <3>4. CASE RecordFailure(s)
      <4> DEFINE x == [old EXCEPT !.attempts = old.attempts + 1, !.success = FALSE]
                 wait == [sender[s] EXCEPT !.stage = "schedule"]
      <4>1. x \in DeliveryRow /\ x.attempts = old.attempts + 1
        BY OneMore DEF DeliveryRow
      <4>2. /\ wait \in SenderForm(s) /\ wait.stage = "schedule" /\ wait.row = d
            /\ wait.todo = sender[s].todo
        BY <2>1, StageForms
      <4>3. /\ delivery' = [delivery EXCEPT ![d] = x] /\ sender[s].stage = "failed"
            /\ sender' = [sender EXCEPT ![s] = next] \/ sender' = [sender EXCEPT ![s] = wait]
        BY <2>6, <3>2, <3>4 DEF RecordFailure, NextOf, Stage, SetSender
      <4> HIDE DEF x, next, wait, d
      <4> QED
        BY <2>3, <2>5, <2>6, <3>2, <4>1, <4>2, <4>3
    <3>5. CASE ScheduleRetry(s)
      <4> DEFINE x == [old EXCEPT !.due = "later"]
      <4>1. x \in DeliveryRow /\ x.attempts = old.attempts
        BY DEF DeliveryRow
      <4>2. sender' = [sender EXCEPT ![s] = next] /\ delivery' = [delivery EXCEPT ![d] = x]
        BY <2>6, <3>2, <3>5 DEF ScheduleRetry, NextOf, SetSender
      <4> HIDE DEF x, next, d
      <4> QED
        BY <2>3, <2>5, <2>6, <3>2, <4>1, <4>2
    <3> QED
      BY <1>12, <3>3, <3>4, <3>5
  <2> QED
    BY <2>4, <2>6
<1>13. ASSUME NEW d \in Deliverable, FallsDue(d)
       PROVE  AttemptsInv'
  <2>1. IsRow(d) /\ delivery[d] \in DeliveryRow
    BY <1>1, <1>13, RowTyped DEF FallsDue
  <2>2. PICK x : x = [delivery[d] EXCEPT !.due = "now"]
    OBVIOUS
  <2>3. x \in DeliveryRow /\ x.attempts = delivery[d].attempts
    BY <2>1, <2>2 DEF DeliveryRow
  <2>4. delivery' = [delivery EXCEPT ![d] = x]
    BY <1>13, <2>2 DEF FallsDue
  <2>5. \A c \in Deliverable : delivery'[c] = IF c = d THEN x ELSE delivery[c]
    BY <1>1, <2>4
  <2>6. delivery' \in [Deliverable -> DeliveryRow \cup {NoDelivery, Deleted}]
    BY <1>1, <2>3, <2>4
  <2>7. \A c \in Deliverable : delivery'[c] \in DeliveryRow =>
            IsRow(c) /\ delivery'[c].attempts = delivery[c].attempts
    BY <1>1, <2>1, <2>3, <2>5, RowTyped
  <2> QED
    BY <1>1, <1>13, <2>6, <2>7, RowsTurn DEF FallsDue
<1>14. ASSUME NEW e \in Endpoints, DeleteEndpoint(e)
       PROVE  AttemptsInv'
  <2>1. /\ delivery' = [d \in Deliverable |-> IF delivery[d].to = e THEN Deleted ELSE delivery[d]]
        /\ endpoint' \subseteq Endpoints /\ UNCHANGED <<sender, crashes>>
    BY <1>1, <1>14 DEF DeleteEndpoint
  <2>2. delivery' \in [Deliverable -> DeliveryRow \cup {NoDelivery, Deleted}]
    BY <1>1, <2>1
  <2>3. Deleted \notin DeliveryRow
    BY DEF Deleted, DeliveryRow
  <2>4. \A c \in Deliverable : delivery'[c] \in DeliveryRow =>
            IsRow(c) /\ delivery'[c].attempts = delivery[c].attempts
    BY <1>1, <2>1, <2>3, RowTyped
  <2> QED
    BY <2>1, <2>2, <2>4, RowsTurn
<1> QED
  BY <1>3, <1>5, <1>6, <1>7, <1>8, <1>10, <1>11, <1>12, <1>13, <1>14
     DEF DeliveriesNext, SendOn

LEMMA AttemptsTyped == AttemptsInv => DeliveriesTypeOK
<1> SUFFICES ASSUME AttemptsInv PROVE DeliveriesTypeOK
  OBVIOUS
<1>1. DeliveriesTyped /\ TriesInBounds /\ crashes \in 0..MaxCrashes
  BY DEF AttemptsInv
<1>2. ASSUME NEW d \in Deliverable
      PROVE  delivery[d] \in Delivery \cup {NoDelivery, Deleted}
  <2>1. CASE ~IsRow(d)
    BY <2>1 DEF IsRow
  <2>2. CASE IsRow(d)
    <3>1. delivery[d] \in DeliveryRow
      BY <1>1, <2>2, RowTyped
    <3>2. Triers(d) \subseteq Senders
      BY DEF Triers
    <3>3. PICK n : n = Cardinality(Triers(d)) /\ n \in Nat
      BY <3>2, SendersAreFinite
    <3>4. delivery[d].attempts + n <= MaxAttempts + Cardinality(Senders)
      BY <1>1, <2>2, <3>3 DEF TriesInBounds
    <3>5. delivery[d].attempts \in 0..(MaxAttempts + Cardinality(Senders))
      BY <3>1, <3>3, <3>4, SendersAreFinite, DeliveriesAssumption DEF DeliveryRow
    <3> QED
      BY <3>1, <3>5 DEF DeliveryRow, Delivery
  <2> QED
    BY <2>1, <2>2
<1>3. /\ \A s \in Dispatchers : sender[s] \in Sending(SUBSET Endpoints)
      /\ \A s \in Jobs : sender[s] \in Sending(SUBSET Deliverable)
  BY <1>1, DeliveriesAssumption DEF DeliveriesTyped, SenderForm, Senders
<1> QED
  BY <1>1, <1>2, <1>3 DEF DeliveriesTyped, DeliveriesTypeOK

-----------------------------------------------------------------------------
\* The switch of plugins, for any pods, plugins and requests of operators.

Refreshes ==
    {[stage |-> "idle"], [stage |-> "reading"]} \cup [stage : {"read"}, members : SUBSET Plugins]
Commands == {NoCommand} \cup [op : {"sadd", "srem"}, plugin : Plugins]

LEMMA SwitchStarts == SwitchInit => SwitchTypeOK
BY SwitchAssumption DEF SwitchInit, SwitchTypeOK

LEMMA SwitchKeeps == SwitchTypeOK /\ [SwitchNext]_switchVars => SwitchTypeOK'
<1> SUFFICES ASSUME SwitchTypeOK, [SwitchNext]_switchVars PROVE SwitchTypeOK'
  OBVIOUS
<1>1. /\ remote \subseteq Plugins /\ mirror \in [Fleet -> SUBSET Plugins]
      /\ refresh \in [Fleet -> Refreshes] /\ admin \in [Admins -> Commands]
      /\ switches \in 0..MaxSwitches /\ mishaps \in 0..MaxMishaps
  BY DEF SwitchTypeOK, Refreshes, Commands
<1>2. ASSUME /\ remote' \subseteq Plugins /\ mirror' \in [Fleet -> SUBSET Plugins]
             /\ refresh' \in [Fleet -> Refreshes] /\ admin' \in [Admins -> Commands]
             /\ switches' \in 0..MaxSwitches /\ mishaps' \in 0..MaxMishaps
      PROVE  SwitchTypeOK'
  BY <1>2 DEF SwitchTypeOK, Refreshes, Commands
<1>3. /\ NoCommand \in Commands
      /\ \A p \in Plugins : [op |-> "sadd", plugin |-> p] \in Commands
                            /\ [op |-> "srem", plugin |-> p] \in Commands
  BY DEF Commands
<1>4. /\ [stage |-> "idle"] \in Refreshes /\ [stage |-> "reading"] \in Refreshes
      /\ \A members \in SUBSET Plugins : [stage |-> "read", members |-> members] \in Refreshes
  BY DEF Refreshes
<1>5. Requested => switches' \in 0..MaxSwitches
  BY <1>1, SwitchAssumption DEF Requested
<1>6. Mishap => mishaps' \in 0..MaxMishaps
  BY <1>1, SwitchAssumption DEF Mishap
<1>7. ASSUME NEW a \in Admins, admin[a] # NoCommand
      PROVE  admin[a].plugin \in Plugins
  BY <1>1, <1>7 DEF Commands
<1>8. ASSUME NEW pod \in Fleet, refresh[pod].stage = "read"
      PROVE  refresh[pod].members \subseteq Plugins
  <2>1. refresh[pod] \in Refreshes
    BY <1>1
  <2> QED
    BY <1>8, <2>1 DEF Refreshes
<1>9. CASE UNCHANGED switchVars
  BY <1>1, <1>2, <1>9 DEF switchVars
<1>10. ASSUME NEW a \in Admins, NEW pod \in Fleet, NEW p \in Plugins, Disable(a, pod, p) \/ Enable(a, pod, p)
       PROVE  SwitchTypeOK'
  <2>1. mirror' \in [Fleet -> SUBSET Plugins]
    <3>1. mirror[pod] \subseteq Plugins
      BY <1>1
    <3>2. CASE Disable(a, pod, p)
      <4>1. mirror' = [mirror EXCEPT ![pod] = mirror[pod] \cup {p}] /\ mirror[pod] \cup {p} \subseteq Plugins
        BY <3>1, <3>2 DEF Disable
      <4> QED
        BY <1>1, <4>1
    <3>3. CASE Enable(a, pod, p)
      <4>1. mirror' = [mirror EXCEPT ![pod] = mirror[pod] \ {p}] /\ mirror[pod] \ {p} \subseteq Plugins
        BY <3>1, <3>3 DEF Enable
      <4> QED
        BY <1>1, <4>1
    <3> QED
      BY <1>10, <3>2, <3>3
  <2>2. admin' \in [Admins -> Commands]
    <3>1. \E command \in Commands : admin' = [admin EXCEPT ![a] = command]
      BY <1>3, <1>10 DEF Disable, Enable
    <3> QED
      BY <1>1, <3>1
  <2>3. Requested /\ UNCHANGED <<remote, refresh, mishaps>>
    BY <1>10 DEF Disable, Enable
  <2> QED
    BY <1>1, <1>2, <1>5, <2>1, <2>2, <2>3
<1>11. ASSUME NEW a \in Admins, SendCommand(a)
       PROVE  SwitchTypeOK'
  BY <1>1, <1>2, <1>3, <1>7, <1>11 DEF SendCommand
<1>12. ASSUME NEW a \in Admins, LoseCommand(a)
       PROVE  SwitchTypeOK'
  BY <1>1, <1>2, <1>3, <1>6, <1>12 DEF LoseCommand
<1>13. ASSUME NEW pod \in Fleet, StartSync(pod) \/ ReadMembers(pod) \/ ReadNothing(pod)
       PROVE  SwitchTypeOK'
  BY <1>1, <1>2, <1>4, <1>6, <1>13 DEF StartSync, ReadMembers, ReadNothing
<1>14. ASSUME NEW pod \in Fleet, ApplyMembers(pod)
       PROVE  SwitchTypeOK'
  BY <1>1, <1>2, <1>4, <1>8, <1>14 DEF ApplyMembers
<1>15. ASSUME NEW pod \in Fleet, Restart(pod)
       PROVE  SwitchTypeOK'
  BY <1>1, <1>2, <1>4, <1>6, <1>15 DEF Restart
<1> QED
  BY <1>9, <1>10, <1>11, <1>12, <1>13, <1>14, <1>15 DEF SwitchNext, Sync

-----------------------------------------------------------------------------
\* A behaviour of the services is one of each component.
LEMMA ServicesStart == ServicesInit => Init /\ DeliveriesInit /\ HookInit /\ SwitchInit
BY DEF ServicesInit

LEMMA ServicesSteps ==
    [ServicesNext]_<<component, vars, reservationVars, paymentVars, rewardVars,
                     deliveryVars, hookVars, switchVars>> =>
        /\ [Next]_vars
        /\ [DeliveriesNext]_deliveryVars
        /\ [HookNext]_hookVars
        /\ [SwitchNext]_switchVars
BY DEF ServicesNext, LockStep, ReservationStep, CardStep, RewardsStep, DeliveriesStep, HookStep, SwitchStep

\* Types of the cron lock, of deliveries (webhooks.service.ts:145), breakers
\* (circuit-breaker.ts:121) and the switch (plugin-runtime-state.service.ts:29), for any
\* numbers of runs, events, calls, pods and crashes: the attempts of a delivery and the
\* failures of a breaker pass their limits by no more than the senders, or the calls but one,
\* that overlap.
THEOREM ServicesTypeCorrect == ServicesSpec => []ServicesTypeOK
<1>1. ServicesInit => Init /\ AttemptsInv /\ HookInv /\ SwitchTypeOK
  BY ServicesStart, AttemptsStart, HookStarts, SwitchStarts
<1>2. Init => TypeOK
  BY TypeStart
<1>3. [ServicesNext]_<<component, vars, reservationVars, paymentVars, rewardVars,
                       deliveryVars, hookVars, switchVars>>
          => /\ TypeOK => TypeOK'
             /\ AttemptsInv => AttemptsInv'
             /\ HookInv => HookInv'
             /\ SwitchTypeOK => SwitchTypeOK'
  BY ServicesSteps, TypeStep, AttemptsKeep, HookKeeps, SwitchKeeps
<1>4. TypeOK /\ AttemptsInv /\ HookInv /\ SwitchTypeOK => ServicesTypeOK
  BY AttemptsTyped, HookTyped DEF ServicesTypeOK
<1> QED
  BY <1>1, <1>2, <1>3, <1>4, PTL DEF ServicesSpec
=============================================================================
