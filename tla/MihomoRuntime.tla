--------------------------- MODULE MihomoRuntime ---------------------------
(***************************************************************************)
(* Subscriptions, their immutable configuration artifacts, the selection   *)
(* and the Mihomo process.  RuntimeManager serialises Start, Stop and      *)
(* Restart with its lock; requests that refresh, select, disable or delete *)
(* a subscription do not take it and run beside them.                      *)
(*                                                                         *)
(* An artifact is a version number; every version passes the core's        *)
(* self-test, those in broken fail to open their listeners.  What a node   *)
(* or a configuration contains is left out.                                *)
(***************************************************************************)
EXTENDS Naturals

CONSTANTS
  Subscriptions,
  Nothing,          \* the empty subscription id, no process
  MaxVersions,      \* bound: artifacts that are built
  MaxRequests,      \* bound: requests beside the manager's
  MaxMihomoFaults   \* bound: failing calls, ended requests, dead processes

VARIABLES
  subscriptions, \* mihomo_subscriptions: "none", "enabled" or "disabled"
  artifact,      \* version current.json of a subscription names, 0 without
  files,         \* configurations whose files are there
  broken,        \* versions whose listeners fail
  versions,      \* versions built so far
  selection,     \* mihomo_runtime_selection
  process,       \* the supervisor's manifest, and the process it names
  manager,       \* the call that holds RuntimeManager.mu
  request,       \* a request that does not take the lock
  requests,
  disturbed,     \* since the manager's call began the process it started has died,
                 \* or the files of the configuration that ran are deleted
  mihomoFaults

mihomoVars == <<subscriptions, artifact, files, broken, versions, selection, process,
                manager, request, requests, disturbed, mihomoFaults>>
catalogue == <<subscriptions, artifact, files, broken, versions>>

Configurations == [of : Subscriptions, version : Nat]

MihomoAssumption ==
  /\ Nothing \notin Subscriptions \cup Configurations
  /\ MaxVersions \in Nat /\ MaxRequests \in Nat /\ MaxMihomoFaults \in Nat
ASSUME MihomoAssumption

NoRequest == [at |-> "idle"]
Resting(result, old) == [at |-> "idle", result |-> result, old |-> old]

MihomoTypeOK ==
  /\ subscriptions \in [Subscriptions -> {"none", "enabled", "disabled"}]
  /\ artifact \in [Subscriptions -> 0 .. MaxVersions]
  /\ versions \in 0 .. MaxVersions /\ broken \subseteq 1 .. versions
  /\ files \subseteq [of : Subscriptions, version : 1 .. versions]
  /\ selection \in [selected : Subscriptions \cup {Nothing},
                    running : Subscriptions \cup {Nothing}]
  /\ process \in [of : Subscriptions, version : 1 .. versions] \cup {Nothing}
  /\ manager.at \in {"idle", "select", "write", "stop", "start", "record", "restore"}
  /\ request.at \in {"idle", "select", "write", "build", "replace", "delete",
                     "remove", "disable"}
  /\ requests \in 0 .. MaxRequests /\ mihomoFaults \in 0 .. MaxMihomoFaults
  /\ disturbed \in BOOLEAN

MihomoInit ==
  /\ subscriptions = [s \in Subscriptions |-> "enabled"]
  /\ artifact = [s \in Subscriptions |-> 0] /\ files = {} /\ broken = {} /\ versions = 0
  /\ selection = [selected |-> Nothing, running |-> Nothing]
  /\ process = Nothing
  /\ manager = Resting("none", Nothing) /\ request = NoRequest
  /\ requests = 0 /\ disturbed = FALSE /\ mihomoFaults = 0

-----------------------------------------------------------------------------
(* RuntimeManager.                                                         *)

(* statusLocked: the record follows the supervisor.                        *)
RunningOf == IF process = Nothing THEN Nothing ELSE process.of
MutantHealed == selection
Healed == [selection EXCEPT !.running = RunningOf]

Begin(op) ==
  /\ manager.at = "idle"
  /\ selection' = Healed
  /\ disturbed' = (process # Nothing /\ process \notin files)
  /\ manager' =
       CASE op = "Status" -> Resting("none", Nothing)
         [] op = "Stop" ->
              IF process = Nothing THEN Resting("none", Nothing)
                ELSE [at |-> "stop", op |-> op, old |-> Nothing]
         [] OTHER ->
              IF selection.selected = Nothing \/ (op = "Start" /\ process # Nothing)
                THEN Resting("none", Nothing)
                ELSE [at |-> "select", op |-> op, target |-> selection.selected,
                      ran |-> process # Nothing, old |-> Nothing]
  /\ UNCHANGED <<catalogue, process, request, requests, mihomoFaults>>

(* ConfigManager.Select reads and validates first, and writes later.       *)
Selectable(s) == subscriptions[s] = "enabled" /\ artifact[s] # 0

ManagerSelects ==
  /\ manager.at = "select"
  /\ manager' = IF Selectable(manager.target) THEN [manager EXCEPT !.at = "write"]
                  ELSE Resting("none", Nothing)
  /\ UNCHANGED <<catalogue, selection, process, request, requests, disturbed, mihomoFaults>>

ManagerWrites ==
  /\ manager.at = "write"
  /\ selection' = [selection EXCEPT !.selected = manager.target]
  /\ manager' = [manager EXCEPT !.old = process,
                   !.at = IF manager.ran THEN "stop" ELSE "start"]
  /\ UNCHANGED <<catalogue, process, request, requests, disturbed, mihomoFaults>>

ManagerStops ==
  /\ manager.at = "stop"
  /\ process' = Nothing
  /\ selection' = [selection EXCEPT !.running = Nothing]
  /\ manager' = IF manager.op = "Stop" THEN Resting("none", Nothing)
                  ELSE [manager EXCEPT !.at = "start"]
  /\ UNCHANGED <<catalogue, request, requests, disturbed, mihomoFaults>>

(* The end of a failing startLocked: a restart puts the old process back.  *)
StartFailed ==
  IF manager.op = "Restart" /\ manager.old # Nothing
    THEN [manager EXCEPT !.at = "restore"]
    ELSE Resting("none", Nothing)

Launchable(s) == artifact[s] \notin {0} \cup broken

ManagerStarts ==
  /\ manager.at = "start" /\ process = Nothing
  /\ IF Launchable(manager.target)
       THEN /\ process' = [of |-> manager.target, version |-> artifact[manager.target]]
            /\ manager' = [manager EXCEPT !.at = "record"]
       ELSE /\ manager' = StartFailed /\ UNCHANGED process
  /\ UNCHANGED <<catalogue, selection, request, requests, disturbed, mihomoFaults>>

(* The exact configuration that ran before, not the current one of its     *)
(* subscription.  Its files are gone if the subscription was deleted while *)
(* the process was not recorded.                                           *)
MutantOldConfig == [of |-> manager.old.of, version |-> artifact[manager.old.of]]
OldConfig == manager.old

ManagerRestores ==
  /\ manager.at = "restore" /\ process = Nothing
  /\ IF OldConfig \in files /\ OldConfig.version \notin broken
       THEN /\ process' = OldConfig
            /\ manager' = [at |-> "record", op |-> "restore",
                           target |-> OldConfig.of, old |-> manager.old]
       ELSE /\ manager' = Resting("failed", manager.old) /\ UNCHANGED process
  /\ UNCHANGED <<catalogue, selection, request, requests, disturbed, mihomoFaults>>

ManagerRecords ==
  /\ manager.at = "record"
  /\ selection' = [selection EXCEPT !.running = manager.target]
  /\ manager' = IF manager.op = "restore" THEN Resting("failed", manager.old)
                  ELSE Resting("none", Nothing)
  /\ UNCHANGED <<catalogue, process, request, requests, disturbed, mihomoFaults>>

(* The manager's request ends, or a call of it fails for good: what is left*)
(* to do fails, except that a start that cannot be recorded is stopped.    *)
ManagerInterrupted ==
  /\ manager.at # "idle" /\ mihomoFaults < MaxMihomoFaults
  /\ mihomoFaults' = mihomoFaults + 1
  /\ manager' = Resting("none", Nothing)
  /\ \/ manager.at # "record" /\ UNCHANGED process
     \/ manager.at = "record" /\ process' = Nothing
     \/ \* the supervisor stopped the process, the record was not cleared
        manager.at = "stop" /\ process' = Nothing
     \/ \* the supervisor started it, its answer was lost
        /\ manager.at = "start" /\ process = Nothing /\ Launchable(manager.target)
        /\ process' = [of |-> manager.target, version |-> artifact[manager.target]]
  /\ UNCHANGED <<catalogue, selection, request, requests, disturbed>>

(* Mihomo dies, or netd does, which takes it along.                        *)
MihomoDies ==
  /\ process # Nothing /\ mihomoFaults < MaxMihomoFaults
  /\ mihomoFaults' = mihomoFaults + 1
  /\ disturbed' = (disturbed \/ manager.at \in {"record", "idle"})
  /\ process' = Nothing
  /\ UNCHANGED <<catalogue, selection, manager, request, requests>>

-----------------------------------------------------------------------------
(* Requests without the lock.                                              *)

managerVars == <<process, manager, mihomoFaults>>

Ask(where, s) ==
  /\ request = NoRequest /\ requests < MaxRequests
  /\ subscriptions[s] # "none"
  /\ where \in {"delete", "disable"} => s \notin {selection.selected, selection.running}
  /\ request' = [at |-> where, of |-> s]
  /\ requests' = requests + 1
  /\ UNCHANGED <<catalogue, selection, managerVars, disturbed>>

Continue(where) ==
  request' = IF where = "idle" THEN NoRequest ELSE [request EXCEPT !.at = where]

(* BuildSubscription publishes a self-tested version before the nodes are  *)
(* written, and writes no nodes for a subscription that is gone by then.   *)
RefreshBuilds ==
  /\ request.at = "build" /\ versions < MaxVersions
  /\ versions' = versions + 1
  /\ artifact' = [artifact EXCEPT ![request.of] = versions + 1]
  /\ files' = files \cup {[of |-> request.of, version |-> versions + 1]}
  /\ broken' \in {broken, broken \cup {versions + 1}}
  /\ Continue("replace")
  /\ UNCHANGED <<subscriptions, selection, managerVars, requests, disturbed>>

RefreshReplaces ==
  /\ request.at = "replace"
  /\ Continue(IF subscriptions[request.of] # "none" /\ selection.selected = Nothing
                THEN "select" ELSE "idle")
  /\ UNCHANGED <<catalogue, selection, managerVars, requests, disturbed>>

RequestSelects ==
  /\ request.at = "select"
  /\ Continue(IF Selectable(request.of) THEN "write" ELSE "idle")
  /\ UNCHANGED <<catalogue, selection, managerVars, requests, disturbed>>

RequestWrites ==
  /\ request.at = "write" /\ Continue("idle")
  /\ selection' = [selection EXCEPT !.selected = request.of]
  /\ UNCHANGED <<catalogue, managerVars, requests, disturbed>>

(* The row is deleted first, the artifacts after it.                       *)
DeleteRow ==
  /\ request.at = "delete"
  /\ subscriptions' = [subscriptions EXCEPT ![request.of] = "none"]
  /\ Continue("remove")
  /\ UNCHANGED <<artifact, files, broken, versions, selection, managerVars, requests, disturbed>>

DeleteArtifacts ==
  /\ request.at = "remove" /\ Continue("idle")
  /\ artifact' = [artifact EXCEPT ![request.of] = 0]
  /\ files' = {f \in files : f.of # request.of}
  /\ disturbed' = (disturbed \/ \E c \in {process, manager.old} \ {Nothing} :
                                   c.of = request.of)
  /\ UNCHANGED <<subscriptions, broken, versions, selection, managerVars, requests>>

Disable ==
  /\ request.at = "disable" /\ Continue("idle")
  /\ subscriptions' = [subscriptions EXCEPT ![request.of] = "disabled"]
  /\ UNCHANGED <<artifact, files, broken, versions, selection, managerVars, requests, disturbed>>

MihomoNext ==
  \/ \E op \in {"Status", "Start", "Stop", "Restart"} : Begin(op)
  \/ ManagerSelects \/ ManagerWrites \/ ManagerStops \/ ManagerStarts
  \/ ManagerRestores \/ ManagerRecords \/ ManagerInterrupted \/ MihomoDies
  \/ \E s \in Subscriptions, where \in {"build", "select", "delete", "disable"} :
       Ask(where, s)
  \/ RefreshBuilds \/ RefreshReplaces \/ RequestSelects \/ RequestWrites
  \/ DeleteRow \/ DeleteArtifacts \/ Disable

MihomoSpec == MihomoInit /\ [][MihomoNext]_mihomoVars

-----------------------------------------------------------------------------
(* The record, which decides whether a subscription may be deleted or      *)
(* disabled, never names another subscription than the one that runs.      *)
RecordNamesTheProcess ==
  process # Nothing => selection.running \in {process.of, Nothing}

(* A restart whose new configuration does not start, and that is not cut   *)
(* short itself, has put back the exact configuration that ran before.     *)
(* The files of that configuration may be deleted until then, and what was *)
(* put back may die.                                                       *)
RestartKeepsService ==
  (manager.at = "idle" /\ manager.result = "failed" /\ ~ disturbed) =>
    process = manager.old

RuntimeIsSafe == MihomoTypeOK /\ RecordNamesTheProcess /\ RestartKeepsService
=============================================================================
