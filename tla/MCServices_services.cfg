SPECIFICATION ServicesSpec
CONSTANTS
    t1 = t1
    t2 = t2
    t3 = t3
    p1 = p1
    p2 = p2
    v1 = v1
    u1 = u1
    q1 = q1
    o1 = o1
    o2 = o2
    w1 = w1
    \* CronLock
    Runs = {t1, t2, t3}
    Pods = {p1, p2}
    PodOf <- ThreeRuns
    Ttl = 1
    MaxDelay = 2
    MaxFailures = 1
    \* Deliveries
    Endpoints = {e1}
    MaxAttempts = 2
    MaxRows = 2
    Dispatchers = {d1}
    Jobs = {j1, j2}
    MaxCrashes = 1
    \* HookRunner
    Registered <- OnePlugin
    FailureThreshold = 2
    WindowTime = 1
    CooldownTime = 2
    HookCalls = {c1, c2, c3}
    \* PluginSwitch
    Fleet = {p1, p2}
    Plugins = {"plugin"}
    Admins = {a1, a2}
    MaxSwitches = 3
    MaxMishaps = 2
CHECK_DEADLOCK FALSE
INVARIANTS
    ServicesTypeOK
    AtMostOneHolder
PROPERTIES
    HolderKeepsLock
    LockedJobKeepsRunning
    ReservationsComeToAnEnd
    WorkIsTakenUp
    SuccessIsFinal
    BreakerOpensForCause
    HealthyIsUsed
    DisabledEverywhere
