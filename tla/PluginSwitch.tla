----------------------------- MODULE PluginSwitch -----------------------------
(***************************************************************************)
(* The operator's kill switch for plugins over several pods                *)
(* (PluginRuntimeStateService, PluginAdminController): a set in Redis, and *)
(* a mirror of it in every pod, where HookRunner looks.                    *)
(*                                                                         *)
(* Redis may fail a command, which then does nothing or reads the empty    *)
(* set, and a pod may restart with an empty mirror that it fills from      *)
(* Redis.                                                                  *)
(***************************************************************************)
EXTENDS Integers

CONSTANTS
    Fleet, Plugins,
    Admins,           \* requests served at the same time
    MaxSwitches,      \* bound: requests of operators
    MaxMishaps        \* bound: commands that Redis fails, restarts

ASSUME SwitchAssumption == MaxSwitches \in Nat /\ MaxMishaps \in Nat

VARIABLES
    remote,           \* shopverse:plugin:operator-disabled
    mirror,           \* HookRunner.disabledPlugins of each pod
    refresh,          \* sync of each pod: idle, reading, or the set it has read
    admin,            \* the command that each request still has to send
    switches, mishaps

switchVars == <<remote, mirror, refresh, admin, switches, mishaps>>

NoCommand == [op |-> "none"]

SwitchTypeOK ==
    /\ remote \subseteq Plugins
    /\ mirror \in [Fleet -> SUBSET Plugins]
    /\ refresh \in [Fleet -> {[stage |-> "idle"], [stage |-> "reading"]} \cup
                            [stage : {"read"}, members : SUBSET Plugins]]
    /\ admin \in [Admins -> {NoCommand} \cup [op : {"sadd", "srem"}, plugin : Plugins]]
    /\ switches \in 0..MaxSwitches
    /\ mishaps \in 0..MaxMishaps

SwitchInit ==
    /\ remote = {}
    /\ mirror = [p \in Fleet |-> {}]
    /\ refresh = [p \in Fleet |-> [stage |-> "idle"]]
    /\ admin = [a \in Admins |-> NoCommand]
    /\ switches = 0
    /\ mishaps = 0

Mishap == mishaps < MaxMishaps /\ mishaps' = mishaps + 1
Requested == switches < MaxSwitches /\ switches' = switches + 1

-----------------------------------------------------------------------------
\* disable and enable: the mirror of the pod that serves the request, ...
Disable(a, pod, plugin) ==
    /\ admin[a] = NoCommand
    /\ Requested
    /\ mirror' = [mirror EXCEPT ![pod] = @ \cup {plugin}]
    /\ admin' = [admin EXCEPT ![a] = [op |-> "sadd", plugin |-> plugin]]
    /\ UNCHANGED <<remote, refresh, mishaps>>

Enable(a, pod, plugin) ==
    /\ admin[a] = NoCommand
    /\ Requested
    /\ mirror' = [mirror EXCEPT ![pod] = @ \ {plugin}]
    /\ admin' = [admin EXCEPT ![a] = [op |-> "srem", plugin |-> plugin]]
    /\ UNCHANGED <<remote, refresh, mishaps>>

\* ... and then Redis, unless that fails.
SendCommand(a) ==
    /\ admin[a] # NoCommand
    /\ remote' = IF admin[a].op = "sadd" THEN remote \cup {admin[a].plugin}
                                         ELSE remote \ {admin[a].plugin}
    /\ admin' = [admin EXCEPT ![a] = NoCommand]
    /\ UNCHANGED <<mirror, refresh, switches, mishaps>>

LoseCommand(a) ==
    /\ admin[a] # NoCommand
    /\ Mishap
    /\ admin' = [admin EXCEPT ![a] = NoCommand]
    /\ UNCHANGED <<remote, mirror, refresh, switches>>

\* sync, every five seconds: it does not overlap itself.
StartSync(pod) ==
    /\ refresh[pod].stage = "idle"
    /\ refresh' = [refresh EXCEPT ![pod] = [stage |-> "reading"]]
    /\ UNCHANGED <<remote, mirror, admin, switches, mishaps>>

ReadMembers(pod) ==
    /\ refresh[pod].stage = "reading"
    /\ refresh' = [refresh EXCEPT ![pod] = [stage |-> "read", members |-> remote]]
    /\ UNCHANGED <<remote, mirror, admin, switches, mishaps>>

\* smembers answers an error with the empty set.
ReadNothing(pod) ==
    /\ refresh[pod].stage = "reading"
    /\ Mishap
    /\ refresh' = [refresh EXCEPT ![pod] = [stage |-> "read", members |-> {}]]
    /\ UNCHANGED <<remote, mirror, admin, switches>>

\* A pod that syncs once.
ApplyMembersOnce(pod) ==
    /\ refresh[pod].stage = "read"
    /\ mirror' = [mirror EXCEPT ![pod] = @ \cup refresh[pod].members]
    /\ refresh' = [refresh EXCEPT ![pod].members = {}]
    /\ UNCHANGED <<remote, admin, switches, mishaps>>

\* Additions only.
ApplyMembers(pod) ==
    /\ refresh[pod].stage = "read"
    /\ mirror' = [mirror EXCEPT ![pod] = @ \cup refresh[pod].members]
    /\ refresh' = [refresh EXCEPT ![pod] = [stage |-> "idle"]]
    /\ UNCHANGED <<remote, admin, switches, mishaps>>

\* A pod starts again; hydrate fills its mirror, by the same command.
Restart(pod) ==
    /\ Mishap
    /\ \E members \in {remote, {}} : mirror' = [mirror EXCEPT ![pod] = members]
    /\ refresh' = [refresh EXCEPT ![pod] = [stage |-> "idle"]]
    /\ UNCHANGED <<remote, admin, switches>>

Sync(pod) == StartSync(pod) \/ ReadMembers(pod) \/ ApplyMembers(pod)

SwitchNext ==
    \/ \E a \in Admins :
          \/ \E pod \in Fleet, p \in Plugins : Disable(a, pod, p) \/ Enable(a, pod, p)
          \/ SendCommand(a) \/ LoseCommand(a)
    \/ \E pod \in Fleet : Sync(pod) \/ ReadNothing(pod) \/ Restart(pod)

\* The timer of every pod goes on, and so do the requests.
SwitchFairness ==
    /\ \A pod \in Fleet : WF_switchVars(Sync(pod))
    /\ \A a \in Admins : WF_switchVars(SendCommand(a))
-----------------------------------------------------------------------------
\* plugin-runtime-state.service.ts:31: a plugin that stays in the set of Redis is in
\* the end skipped by every pod, whatever requests raced, and although pods restart
\* and Redis fails some commands.
DisabledEverywhere ==
    \A p \in Plugins, pod \in Fleet : <>[](p \in remote) => <>[](p \in mirror[pod])
=============================================================================
