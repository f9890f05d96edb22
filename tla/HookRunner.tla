------------------------------ MODULE HookRunner ------------------------------
(***************************************************************************)
(* One synchronous hook of the kernel: the plugins that registered for it  *)
(* (HookRunner.runSync) and a circuit breaker for each (CircuitBreaker).   *)
(*                                                                         *)
(* Requests run the hook concurrently: each calls the handlers in the      *)
(* order of registration and others come between a call and its answer.    *)
(* A breaker's clocks are kept as the time passed since it opened and      *)
(* since the first failure of its window, up to where it matters.          *)
(***************************************************************************)
EXTENDS Integers, Sequences, FiniteSets

CONSTANTS
    Registered,       \* plugin ids, in the order of registration
    FailureThreshold, WindowTime, CooldownTime,
    HookCalls         \* requests that run the hook at the same time

ASSUME BreakerAssumption ==
    /\ Registered \in Seq(STRING) /\ Registered # <<>>
    /\ FailureThreshold \in Nat \ {0} /\ WindowTime \in Nat /\ CooldownTime \in Nat
    /\ IsFiniteSet(HookCalls)

VARIABLES
    breaker,          \* the CircuitBreaker of each plugin
    hookCall,         \* where each runSync is
    faulty,           \* plugins whose handler throws or is too slow at present
    switchedOff,      \* disabledPlugins
    strikes           \* failures recorded since the last success, as a history

breakerVars == <<breaker, strikes>>
hookVars == <<breakerVars, hookCall, faulty, switchedOff>>

Ids == {Registered[i] : i \in 1..Len(Registered)}
NotCalling == [at |-> 0, calls |-> "none"]

HookTypeOK ==
    /\ breaker \in [Ids -> [state : {"closed", "open", "half-open"},
                            failureCount : 0..(FailureThreshold + Cardinality(HookCalls) - 1),
                            sinceFailure : 0..(WindowTime + 1), sinceOpen : 0..CooldownTime]]
    /\ hookCall \in [HookCalls -> [at : 0..Len(Registered), calls : {"none", "normal", "trial"}]]
    /\ faulty \subseteq Ids /\ switchedOff \subseteq Ids
    /\ strikes \in [Ids -> 0..FailureThreshold]

Fresh == [state |-> "closed", failureCount |-> 0, sinceFailure |-> 0, sinceOpen |-> 0]

HookInit ==
    /\ breaker = [p \in Ids |-> Fresh]
    /\ hookCall = [c \in HookCalls |-> NotCalling]
    /\ faulty = {} /\ switchedOff = {}
    /\ strikes = [p \in Ids |-> 0]

-----------------------------------------------------------------------------
\* CircuitBreaker.

\* The getter `state`: an open breaker whose cooldown is over is half-open.
Observed(b) ==
    IF b.state = "open" /\ b.sinceOpen >= CooldownTime THEN [b EXCEPT !.state = "half-open"] ELSE b

\* A trial that passed leaves the breaker as it is.
AfterSuccessHalfOpen(b) == [b EXCEPT !.failureCount = 0, !.sinceFailure = 0]

\* A success that only counts when it ends a trial.
AfterSuccessOfTrial(b) == IF b.state = "half-open" THEN Fresh ELSE b

AfterSuccess(b) ==
    IF b.state = "half-open" THEN Fresh
    ELSE [b EXCEPT !.failureCount = 0, !.sinceFailure = 0]

\* A failure counts while the breaker is open, and restarts its cooldown when the
\* threshold is reached.
AfterFailure(b) ==
    LET fresh == b.failureCount = 0 \/ b.sinceFailure > WindowTime
        counted == [b EXCEPT !.failureCount = IF fresh THEN 1 ELSE @ + 1,
                             !.sinceFailure = IF fresh THEN 0 ELSE @]
    IN  IF b.state = "half-open"
        THEN [state |-> "open", failureCount |-> FailureThreshold, sinceFailure |-> 0, sinceOpen |-> 0]
        ELSE IF counted.failureCount >= FailureThreshold
        THEN [counted EXCEPT !.state = "open", !.sinceOpen = 0]
        ELSE counted

-----------------------------------------------------------------------------
\* HookRunner.runSync.

Advance(c) ==
    hookCall' = [hookCall EXCEPT ![c] =
        IF @.at = Len(Registered) THEN NotCalling ELSE [at |-> @.at + 1, calls |-> "none"]]

RunSync(c) ==
    /\ hookCall[c] = NotCalling
    /\ hookCall' = [hookCall EXCEPT ![c] = [at |-> 1, calls |-> "none"]]
    /\ UNCHANGED <<breakerVars, faulty, switchedOff>>

\* The next handler is skipped, or called.
TryAcquire(c) ==
    LET p == Registered[hookCall[c].at]
        b == Observed(breaker[p])
    IN  /\ hookCall[c] # NotCalling /\ hookCall[c].calls = "none"
        /\ IF p \in switchedOff THEN Advance(c) /\ UNCHANGED breaker
           ELSE /\ breaker' = [breaker EXCEPT ![p] = b]
                /\ IF b.state = "open" THEN Advance(c)
                   ELSE hookCall' = [hookCall EXCEPT ![c].calls =
                            IF b.state = "half-open" THEN "trial" ELSE "normal"]
        /\ UNCHANGED <<strikes, faulty, switchedOff>>

\* A rejection is a success of the handler, and the end of the run.
HandlerAnswers(c, rejects) ==
    LET p == Registered[hookCall[c].at]
    IN  /\ hookCall[c].calls # "none"
        /\ p \notin faulty
        /\ breaker' = [breaker EXCEPT ![p] = AfterSuccess(@)]
        /\ strikes' = [strikes EXCEPT ![p] = 0]
        /\ IF rejects THEN hookCall' = [hookCall EXCEPT ![c] = NotCalling] ELSE Advance(c)
        /\ UNCHANGED <<faulty, switchedOff>>

\* It throws, or the budget of the hook is over before it answers.
HandlerFails(c) ==
    LET p == Registered[hookCall[c].at]
    IN  /\ hookCall[c].calls # "none"
        /\ p \in faulty
        /\ breaker' = [breaker EXCEPT ![p] = AfterFailure(@)]
        /\ strikes' = [strikes EXCEPT ![p] = IF @ < FailureThreshold THEN @ + 1 ELSE @]
        /\ Advance(c)
        /\ UNCHANGED <<faulty, switchedOff>>

\* The admin page asks for the states of the breakers.
BreakerStateFor(p) ==
    /\ breaker' = [breaker EXCEPT ![p] = Observed(@)]
    /\ UNCHANGED <<strikes, hookCall, faulty, switchedOff>>

SwitchPlugin(p) ==
    /\ switchedOff' = IF p \in switchedOff THEN switchedOff \ {p} ELSE switchedOff \cup {p}
    /\ UNCHANGED <<breakerVars, hookCall, faulty>>

\* Registering again replaces the handler and its breaker.
Reregister(p) ==
    /\ breaker' = [breaker EXCEPT ![p] = Fresh]
    /\ strikes' = [strikes EXCEPT ![p] = 0]
    /\ \A c \in HookCalls : hookCall[c] = NotCalling      \* at boot
    /\ UNCHANGED <<hookCall, faulty, switchedOff>>

\* What the plugin depends on breaks, or is there again.
HandlerChanges(p) ==
    /\ faulty' = IF p \in faulty THEN faulty \ {p} ELSE faulty \cup {p}
    /\ UNCHANGED <<breakerVars, hookCall, switchedOff>>

Later(n, bound) == IF n < bound THEN n + 1 ELSE n

TimePasses ==
    /\ breaker' = [p \in Ids |-> [breaker[p] EXCEPT
          !.sinceFailure = IF breaker[p].failureCount > 0 THEN Later(@, WindowTime + 1) ELSE @,
          !.sinceOpen = IF breaker[p].state = "open" THEN Later(@, CooldownTime) ELSE @]]
    /\ breaker' # breaker
    /\ UNCHANGED <<strikes, hookCall, faulty, switchedOff>>

HookNext ==
    \/ \E c \in HookCalls :
          RunSync(c) \/ TryAcquire(c) \/ HandlerFails(c) \/ \E r \in BOOLEAN : HandlerAnswers(c, r)
    \/ \E p \in Ids : BreakerStateFor(p) \/ SwitchPlugin(p) \/ Reregister(p) \/ HandlerChanges(p)
    \/ TimePasses

HookSpec == HookInit /\ [][HookNext]_hookVars

\* Requests and the clock go on.
HookFairness ==
    /\ \A c \in HookCalls :
          /\ WF_hookVars((RunSync(c) \/ TryAcquire(c)))
          /\ WF_hookVars((HandlerFails(c) \/ \E r \in BOOLEAN : HandlerAnswers(c, r)))
    /\ WF_hookVars(TimePasses)
-----------------------------------------------------------------------------
CallsOf(p) == {c \in HookCalls : hookCall[c] # NotCalling /\ Registered[hookCall[c].at] = p}

\* circuit-breaker.ts:7: a breaker that is closed opens only after FailureThreshold
\* failures with no success among them, whatever the order in which the calls
\* that ran at the same time are answered.
BreakerOpensForCause ==
    [][\A p \in Ids : breaker[p].state = "closed" /\ breaker'[p].state = "open"
                        => strikes'[p] = FailureThreshold]_hookVars

\* circuit-breaker.ts:8: once a plugin is well again and as long as requests come
\* to it, its breaker closes and stays closed: late failures, trials that failed
\* and the restarts of the cooldown come to an end.
HealthyIsUsed ==
    \A p \in Ids :
        (<>[](p \notin faulty \cup switchedOff) /\ []<>(\E c \in CallsOf(p) : hookCall[c].calls = "none"))
            => <>[](breaker[p].state = "closed")
=============================================================================
