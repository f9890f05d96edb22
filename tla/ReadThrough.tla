------------------------------ MODULE ReadThrough ------------------------------
(***************************************************************************)
(* One product page behind the read-through cache (RedisService.getOrLoad  *)
(* and ProductsService): several pods, each of which loads a missing entry *)
(* once for all who wait, one Redis that they share and that may fail, and *)
(* staff who change or delete the row and then drop the entry.             *)
(*                                                                         *)
(* A load may have read the row before a change and store it after the     *)
(* entry was dropped.  What bounds that is the entry's time to live.       *)
(***************************************************************************)
EXTENDS Naturals

CONSTANTS
    CachePods,        \* processes of the backend
    Readers,          \* requests for the page served at the same time
    PageTtl,          \* ticks that an entry lives (PDP_CACHE_TTL_SECONDS)
    MaxLoad,          \* bound: ticks from the start of a load to its SET
    MaxEdits          \* bound: changes of the row

ASSUME ReadThroughAssumption ==
    PageTtl \in Nat \ {0} /\ MaxLoad \in Nat /\ MaxEdits \in Nat

VARIABLES
    version,          \* of the row; the last one is its deletion
    outdated,         \* ticks since each version was replaced
    entry,            \* the key in Redis
    flight,           \* inflight, by pod
    reader,           \* the pod where a request waits for a flight
    dropping,         \* changes whose invalidation is to come
    worst             \* the most outdated version that was ever shown

cacheVars == <<version, outdated, entry, flight, reader, dropping, worst>>

RowVersions == 0..MaxEdits
WorstAge == PageTtl + MaxLoad + 1
Absent == [kind |-> "none"]

ReadThroughTypeOK ==
    /\ version \in RowVersions
    /\ outdated \in [RowVersions -> 0..WorstAge]
    /\ entry = Absent \/ entry \in [kind : {"entry"}, version : RowVersions, left : 1..PageTtl]
    /\ flight \in [CachePods -> {Absent} \cup [kind : {"query"}, age : 0..MaxLoad] \cup
                                [kind : {"row"}, version : RowVersions, age : 0..MaxLoad]]
    /\ reader \in [Readers -> CachePods \cup {"idle"}]
    /\ dropping \in 0..MaxEdits
    /\ worst \in 0..WorstAge

ReadThroughInit ==
    /\ version = 0
    /\ outdated = [n \in RowVersions |-> 0]
    /\ entry = Absent
    /\ flight = [p \in CachePods |-> Absent]
    /\ reader = [r \in Readers |-> "idle"]
    /\ dropping = 0
    /\ worst = 0

Deleted(n) == n = MaxEdits
ShowRow(n) == worst' = IF outdated[n] > worst THEN outdated[n] ELSE worst

-----------------------------------------------------------------------------
\* getOrLoad: the entry, ...
ReadEntry(r) ==
    /\ reader[r] = "idle"
    /\ entry # Absent
    /\ ShowRow(entry.version)
    /\ UNCHANGED <<version, outdated, entry, flight, reader, dropping>>

\* ... or, when there is none or Redis does not answer, the flight of the pod.
\* The first to come starts it.
JoinFlight(r, p) ==
    /\ reader[r] = "idle"
    /\ reader' = [reader EXCEPT ![r] = p]
    /\ flight' = [flight EXCEPT ![p] = IF @ = Absent THEN [kind |-> "query", age |-> 0] ELSE @]
    /\ UNCHANGED <<version, outdated, entry, dropping, worst>>

\* The loader's query.
LoadRow(p) ==
    /\ flight[p].kind = "query"
    /\ ~Deleted(version)
    /\ flight' = [flight EXCEPT ![p] = [kind |-> "row", version |-> version, age |-> @.age]]
    /\ UNCHANGED <<version, outdated, entry, reader, dropping, worst>>

AnswerWaiters(p) ==
    /\ flight' = [flight EXCEPT ![p] = Absent]
    /\ reader' = [r \in Readers |-> IF reader[r] = p THEN "idle" ELSE reader[r]]

\* No such row, or no database: all who wait are refused and nothing is stored.
LoadFails(p) ==
    /\ flight[p].kind = "query"
    /\ AnswerWaiters(p)
    /\ UNCHANGED <<version, outdated, entry, dropping, worst>>

\* A time to live in another unit.
StoredTooLong(n) == [kind |-> "entry", version |-> n, left |-> PageTtl * 2]

\* SET .. EX
Stored(n) == [kind |-> "entry", version |-> n, left |-> PageTtl]

\* The row is stored, unless Redis fails, and everyone is answered with it.
FillEntry(p, redisUp) ==
    /\ flight[p].kind = "row"
    /\ entry' = IF redisUp THEN Stored(flight[p].version) ELSE entry
    /\ ShowRow(flight[p].version)
    /\ AnswerWaiters(p)
    /\ UNCHANGED <<version, outdated, dropping>>

-----------------------------------------------------------------------------
\* create, update, remove and the variants' three, as far as the page is concerned.
EditProduct ==
    /\ ~Deleted(version)
    /\ version' = version + 1
    /\ dropping' = dropping + 1
    /\ UNCHANGED <<outdated, entry, flight, reader, worst>>

\* A review, or stock that an order takes: nothing is dropped.
ChangeQuietly ==
    /\ ~Deleted(version + 1)
    /\ ~Deleted(version)
    /\ version' = version + 1
    /\ UNCHANGED <<outdated, entry, flight, reader, dropping, worst>>

\* invalidateProductCaches, which swallows what goes wrong; the process may die first.
InvalidateProductCaches(redisUp) ==
    /\ dropping > 0
    /\ dropping' = dropping - 1
    /\ entry' = IF redisUp THEN Absent ELSE entry
    /\ UNCHANGED <<version, outdated, flight, reader, worst>>

\* Redis comes back empty.
RedisRestarts ==
    /\ entry # Absent
    /\ entry' = Absent
    /\ UNCHANGED <<version, outdated, flight, reader, dropping, worst>>

\* A pod dies with its flight and the requests that wait for it.
PodDies(p) ==
    /\ flight[p] # Absent
    /\ AnswerWaiters(p)
    /\ UNCHANGED <<version, outdated, entry, dropping, worst>>

\* The clock of replaced versions, of the entry and of the flights.
CacheTick ==
    /\ \A p \in CachePods : flight[p] # Absent => flight[p].age < MaxLoad
    /\ outdated' = [n \in RowVersions |->
          IF n < version /\ outdated[n] < WorstAge THEN outdated[n] + 1 ELSE outdated[n]]
    /\ flight' = [p \in CachePods |->
          IF flight[p] = Absent THEN Absent ELSE [flight[p] EXCEPT !.age = @ + 1]]
    /\ entry' = IF entry = Absent \/ entry.left = 1 THEN Absent ELSE [entry EXCEPT !.left = @ - 1]
    /\ UNCHANGED <<version, reader, dropping, worst>>

ReadThroughNext ==
    \/ \E r \in Readers : ReadEntry(r) \/ \E p \in CachePods : JoinFlight(r, p)
    \/ \E p \in CachePods : LoadRow(p) \/ LoadFails(p) \/ PodDies(p)
    \/ \E redisUp \in BOOLEAN :
          \/ \E p \in CachePods : FillEntry(p, redisUp)
          \/ InvalidateProductCaches(redisUp)
    \/ EditProduct \/ ChangeQuietly \/ RedisRestarts \/ CacheTick

ReadThroughSpec == ReadThroughInit /\ [][ReadThroughNext]_cacheVars
-----------------------------------------------------------------------------
\* products.service.ts:14: whatever invalidation misses, no page shows what was
\* replaced as long ago as an entry lives and a load takes.
StaleIsBounded == worst < PageTtl + MaxLoad

\* redis.service.ts:122: a request that waits has a flight to wait for, and when
\* the row is known to nobody it is refused instead of forgotten.
WaitersHaveAFlight == \A r \in Readers : reader[r] # "idle" => flight[reader[r]] # Absent
=============================================================================
