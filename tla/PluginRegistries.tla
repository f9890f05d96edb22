--------------------------- MODULE PluginRegistries ---------------------------
(***************************************************************************)
(* What plugins register with the kernel at boot and give up when they are *)
(* unloaded: strategies (StrategyRegistry), one cron each                  *)
(* (PluginCronRegistry), queues (PluginQueueRegistry), and the queries of  *)
(* one plugin that share the permits of its Semaphore.                     *)
(*                                                                         *)
(* A registration that the code answers with an error changes nothing, and *)
(* is left out.                                                            *)
(***************************************************************************)
EXTENDS Integers, Sequences, FiniteSets

CONSTANTS
    PluginIds,
    Names,            \* of crons and queues, within a plugin
    Single, Composable, Chained,    \* strategy types, by mode
    Priorities,
    MaxConcurrency,   \* of a queue
    Permits,          \* dbConcurrency of the plugin
    Queries           \* its queries under way or waiting

ASSUME PermitsAssumption == Permits \in Nat \ {0}
ASSUME NamesAssumption == "none" \notin Names      \* stands for no cron

VARIABLES
    strategies,       \* byType, in the order of registration
    cronOf,           \* byPlugin
    cronNames,        \* byPrefixedName
    queueRows,        \* byPrefixedName
    queuesOf,         \* byPlugin
    inFlight, waiting, granted      \* Semaphore: the counter, the queue, who was let in

registryVars == <<strategies, cronOf, cronNames, queueRows, queuesOf>>
permitVars == <<inFlight, waiting, granted>>
platformVars == <<registryVars, permitVars>>

StrategyTypes == Single \cup Composable \cup Chained
Strategy == [plugin : PluginIds, priority : Priorities]
NoCron == "none"
Prefixed(p, n) == p \o ":" \o n
AllPrefixed == {Prefixed(p, n) : p \in PluginIds, n \in Names}

RegistriesTypeOK ==
    /\ strategies \in [StrategyTypes -> Seq(Strategy)]
    /\ cronOf \in [PluginIds -> Names \cup {NoCron}]
    /\ DOMAIN cronNames \subseteq AllPrefixed /\ \A n \in DOMAIN cronNames : cronNames[n] \in PluginIds
    /\ \A q \in queueRows : q.name \in AllPrefixed /\ q.plugin \in PluginIds /\ q.concurrency \in 1..MaxConcurrency
    /\ queuesOf \in [PluginIds -> SUBSET AllPrefixed]
    /\ inFlight \in 0..Permits
    /\ granted \subseteq Queries

RegistriesInit ==
    /\ strategies = [t \in StrategyTypes |-> <<>>]
    /\ cronOf = [p \in PluginIds |-> NoCron]
    /\ cronNames = <<>>
    /\ queueRows = {}
    /\ queuesOf = [p \in PluginIds |-> {}]
    /\ inFlight = 0 /\ waiting = <<>> /\ granted = {}

-----------------------------------------------------------------------------
\* Another plugin's single strategy is a conflict; the plugin's own is replaced.
RegisterStrategy(t, p, priority) ==
    LET own == {i \in 1..Len(strategies[t]) : strategies[t][i].plugin = p}
        entry == [plugin |-> p, priority |-> priority]
    IN  /\ t \in Single /\ strategies[t] # <<>> => own # {}
        /\ strategies' = [strategies EXCEPT ![t] =
              IF t \in Single THEN <<entry>>
              ELSE IF own # {} THEN [@ EXCEPT ![CHOOSE i \in own : TRUE] = entry]
              ELSE Append(@, entry)]
        /\ UNCHANGED <<cronOf, cronNames, queueRows, queuesOf, permitVars>>

RegisterCron(p, n) ==
    /\ cronOf[p] = NoCron
    /\ Prefixed(p, n) \notin DOMAIN cronNames
    /\ cronOf' = [cronOf EXCEPT ![p] = n]
    /\ cronNames' = [x \in DOMAIN cronNames \cup {Prefixed(p, n)} |->
                        IF x = Prefixed(p, n) THEN p ELSE cronNames[x]]
    /\ UNCHANGED <<strategies, queueRows, queuesOf, permitVars>>

RegisterQueue(p, n, concurrency) ==
    /\ \A q \in queueRows : q.name # Prefixed(p, n)
    /\ queueRows' = queueRows \cup
                    {[name |-> Prefixed(p, n), plugin |-> p, concurrency |-> concurrency]}
    /\ queuesOf' = [queuesOf EXCEPT ![p] = @ \cup {Prefixed(p, n)}]
    /\ UNCHANGED <<strategies, cronOf, cronNames, permitVars>>

UnregisterCron(p) ==
    /\ cronOf[p] # NoCron
    /\ cronOf' = [cronOf EXCEPT ![p] = NoCron]
    /\ cronNames' = [x \in DOMAIN cronNames \ {Prefixed(p, cronOf[p])} |-> cronNames[x]]
    /\ UNCHANGED <<strategies, queueRows, queuesOf, permitVars>>

UnregisterQueues(p) ==
    /\ queuesOf[p] # {}
    /\ queueRows' = {q \in queueRows : q.name \notin queuesOf[p]}
    /\ queuesOf' = [queuesOf EXCEPT ![p] = {}]
    /\ UNCHANGED <<strategies, cronOf, cronNames, permitVars>>

\* The entries of the others, in the order in which they are.
OthersThan(s, p) ==
    LET kept == {i \in 1..Len(s) : s[i].plugin # p}
    IN  [j \in 1..Cardinality(kept) |->
           s[CHOOSE i \in kept : Cardinality({x \in kept : x < i}) = j - 1]]

UnregisterStrategies(p) ==
    /\ strategies' = [t \in StrategyTypes |-> OthersThan(strategies[t], p)]
    /\ UNCHANGED <<cronOf, cronNames, queueRows, queuesOf, permitVars>>

-----------------------------------------------------------------------------
\* Semaphore.run.

Acquire(q) ==
    /\ q \notin granted
    /\ \A i \in 1..Len(waiting) : waiting[i] # q
    /\ IF inFlight < Permits
       THEN inFlight' = inFlight + 1 /\ granted' = granted \cup {q} /\ UNCHANGED waiting
       ELSE waiting' = Append(waiting, q) /\ UNCHANGED <<inFlight, granted>>
    /\ UNCHANGED registryVars

\* The timer of a waiter takes it out of the queue.
TimeOut(q) ==
    /\ \E i \in 1..Len(waiting) :
          /\ waiting[i] = q
          /\ waiting' = [j \in 1..(Len(waiting) - 1) |-> waiting[IF j < i THEN j ELSE j + 1]]
    /\ UNCHANGED <<registryVars, inFlight, granted>>

\* Giving the permit back and letting the next one in as well.
ReleaseBoth(q) ==
    /\ q \in granted
    /\ inFlight' = inFlight - 1
    /\ IF waiting = <<>> THEN granted' = granted \ {q} /\ UNCHANGED waiting
       ELSE granted' = (granted \ {q}) \cup {Head(waiting)} /\ waiting' = Tail(waiting)
    /\ UNCHANGED registryVars

\* A query is through, or failed: its permit goes to the one that waits longest.
Release(q) ==
    /\ q \in granted
    /\ IF waiting = <<>>
       THEN inFlight' = inFlight - 1 /\ granted' = granted \ {q} /\ UNCHANGED waiting
       ELSE /\ granted' = (granted \ {q}) \cup {Head(waiting)}
            /\ waiting' = Tail(waiting)
            /\ UNCHANGED inFlight
    /\ UNCHANGED registryVars

RegistriesNext ==
    \/ \E t \in StrategyTypes, p \in PluginIds, n \in Priorities : RegisterStrategy(t, p, n)
    \/ \E p \in PluginIds :
          \/ \E n \in Names : RegisterCron(p, n) \/ \E c \in 1..MaxConcurrency : RegisterQueue(p, n, c)
          \/ UnregisterCron(p) \/ UnregisterQueues(p) \/ UnregisterStrategies(p)

PermitsNext == \E q \in Queries : Acquire(q) \/ TimeOut(q) \/ Release(q)

PlatformSpec == RegistriesInit /\ [][RegistriesNext \/ PermitsNext]_platformVars
-----------------------------------------------------------------------------
\* plugin-cron.registry.ts:36, plugin-queue.registry.ts:38: the two tables of a
\* registry say the same after every sequence of registrations and removals, so
\* that no name stays taken by a plugin that is gone and none is run twice.
TablesAgree ==
    /\ {<<Prefixed(p, cronOf[p]), p>> : p \in {x \in PluginIds : cronOf[x] # NoCron}}
          = {<<n, cronNames[n]>> : n \in DOMAIN cronNames}
    /\ \A p \in PluginIds : queuesOf[p] = {q.name : q \in {r \in queueRows : r.plugin = p}}

\* semaphore.ts:9: the permits that are counted are those of the queries let in,
\* never more than Permits, and nobody waits while one is free, however timeouts
\* and releases fall.
PermitsAreCounted ==
    /\ inFlight = Cardinality(granted)
    /\ waiting # <<>> => inFlight = Permits
=============================================================================
