-------------------------- MODULE VowifiLifecycle --------------------------
(***************************************************************************)
(* Keeping the host-VoWiFi worker of every Line in step with what its      *)
(* administrator wants.                                                    *)
(*                                                                         *)
(*  - simplusd stores for each Line whether it should be active; one       *)
(*    mutex serialises Activate, Deactivate and the reconciliation that    *)
(*    runs every ten seconds;                                              *)
(*  - simplus-netd's supervisor (Local) runs a worker process per Line in  *)
(*    a network of its own: kernel objects named after the Line, recorded  *)
(*    in a manifest on disk from before they exist until they are gone;    *)
(*  - a Start request goes on by itself when its caller is gone, and every *)
(*    worker has a goroutine that reads its events, waits for it and       *)
(*    removes its network.                                                 *)
(*                                                                         *)
(* Every start makes a new instance.  An older one is only remembered      *)
(* while its goroutines run, so two slots for each Line are enough.        *)
(* netd's orderly shutdown is Stop calls followed by a crash.              *)
(***************************************************************************)
EXTENDS Naturals, FiniteSets

CONSTANTS
  Lines,
  Egresses,    \* egress mode and country
  None,        \* no network, no manifest, no Line
  Torn,        \* a runtime directory without a readable manifest
  MaxChanges,  \* bound: changes by users and of a Line's readiness
  MaxFaults    \* bound: failed commands, dead workers, lost calls, crashes

ASSUME ConstantsAssumption ==
  /\ None \notin Egresses \cup Lines \cup {Torn}
  /\ Torn \notin Egresses
  /\ MaxChanges \in Nat /\ MaxFaults \in Nat

VARIABLES
  desired,    \* vowifi_line_desires
  ready,      \* the Line's hardware and its egress are ready
  egress,     \* the egress configured for it
  app,        \* the call or pass that holds the service's mutex
  netd,       \* simplus-netd runs
  current,    \* Local.instances: the slot of a Line's instance, 0 if none
  instances,  \* every instance with a goroutine or in Local.instances
  network,    \* a Line's kernel objects, set up for an egress
  manifest,   \* its runtime directory
  changes,
  faults

adminVars  == << desired, ready, egress, changes >>
netdVars   == << netd, current, instances >>
kernelVars == << network, manifest >>

vars == << adminVars, app, netdVars, kernelVars, faults >>

Slots == {1, 2}

(* command: the process was started; stop: a Stop was requested; dirty:    *)
(* instance.cleanup holds an error; heard: its ready channel is closed.    *)
InstanceType ==
  [egress : Egresses \cup {None},
   state : {"starting", "working", "online", "stopping", "stopped", "failed"},
   online : BOOLEAN, command : BOOLEAN, stop : BOOLEAN, dirty : BOOLEAN,
   heard : BOOLEAN, done : BOOLEAN,
   worker : {"none", "alive", "signalled", "gone"},
   monitor : {"none", "reading", "cleaned", "uncleaned"},
   start : {"setup", "spawn", "waiting", "givenup", "discard", "failed", "started"},
   cancelled : BOOLEAN]

NoInstance ==
  [egress |-> None, state |-> "stopped", online |-> FALSE, command |-> FALSE,
   stop |-> FALSE, dirty |-> FALSE, heard |-> TRUE, done |-> TRUE,
   worker |-> "none", monitor |-> "none", start |-> "failed", cancelled |-> FALSE]

(* What the service is doing.  stops, restarts and starts are the Lines a  *)
(* pass still has to treat, next the one to start before any other, plan   *)
(* the egress each had when the call began.                                *)
Idle == [pc |-> "idle", line |-> None, slot |-> 0, next |-> None,
         stops |-> {}, restarts |-> {}, starts |-> {},
         plan |-> [l \in Lines |-> None]]

TypeOK ==
  /\ desired \in [Lines -> BOOLEAN]
  /\ ready \in [Lines -> BOOLEAN]
  /\ egress \in [Lines -> Egresses]
  /\ app \in [pc : {"idle", "pass", "stop", "start"}, line : Lines \cup {None},
              slot : Slots \cup {0}, next : Lines \cup {None},
              stops : SUBSET Lines, restarts : SUBSET Lines, starts : SUBSET Lines,
              plan : [Lines -> Egresses \cup {None}]]
  /\ app.pc \in {"stop", "start"} <=> app.line # None
  /\ app.pc \in {"stop", "start"} <=> app.slot # 0
  /\ netd \in BOOLEAN
  /\ current \in [Lines -> Slots \cup {0}]
  /\ instances \in [Lines -> [Slots -> InstanceType]]
  /\ network \in [Lines -> Egresses \cup {None}]
  /\ manifest \in [Lines -> Egresses \cup {None, Torn}]
  /\ changes \in 0 .. MaxChanges
  /\ faults \in 0 .. MaxFaults

Init ==
  /\ desired \in [Lines -> BOOLEAN]
  /\ ready = [l \in Lines |-> TRUE]
  /\ egress \in [Lines -> Egresses]
  /\ app = Idle
  /\ netd = TRUE
  /\ current = [l \in Lines |-> 0]
  /\ instances = [l \in Lines |-> [s \in Slots |-> NoInstance]]
  /\ network = [l \in Lines |-> None]
  /\ manifest = [l \in Lines |-> None]
  /\ changes = 0 /\ faults = 0

Change == changes < MaxChanges /\ changes' = changes + 1
Fault  == faults < MaxFaults /\ faults' = faults + 1

(* Operators named Mutant... are what a plausible bug would make of the    *)
(* operator that follows them; nothing of the specification uses them.     *)

-----------------------------------------------------------------------------
(* The supervisor's view of a Line                                         *)

Known(l)    == current[l] # 0
Instance(l) == instances[l][current[l]]
Active(i)   == i.state \notin {"stopped", "failed"}

(* Start refuses a Line whose instance is neither stopped nor failed.      *)
Running(l) == Known(l) /\ Active(Instance(l))

Alive(i) == i.worker \in {"alive", "signalled"}

(* A returned Start whose worker is cleaned up, or which never had one.    *)
Over(i) == i.done /\ i.start \in {"failed", "started"}

Update(l, s, i) == instances' = [instances EXCEPT ![l][s] = i]

(* Stop answers ErrNotRunning otherwise.                                   *)
Stoppable(l) == Known(l) /\ Instance(l).state # "stopped" /\ Instance(l).command

(* Stop marks the instance and sends SIGTERM, after 15 s SIGKILL.          *)
Stopping(i) ==
  [i EXCEPT !.stop = TRUE, !.state = "stopping", !.online = FALSE,
            !.worker = IF @ = "alive" THEN "signalled" ELSE @]

MutantAvailable(l) == netd /\ Known(l) /\ Instance(l).online

(* What Available, which decides about sending, makes of a Line's status.  *)
Available(l) == netd /\ Known(l) /\ Instance(l).online /\ Instance(l).state = "online"

-----------------------------------------------------------------------------
(* simplusd: users, environment and reconciliation                         *)

ReadinessChanges(l) ==
  /\ Change
  /\ ready' = [ready EXCEPT ![l] = ~@]
  /\ UNCHANGED << desired, egress, app, netdVars, kernelVars, faults >>

EgressChanges(l) ==
  /\ Change
  /\ \E e \in Egresses \ {egress[l]} : egress' = [egress EXCEPT ![l] = e]
  /\ UNCHANGED << desired, ready, app, netdVars, kernelVars, faults >>

(* The intent is stored before the supervisor is called.                   *)
Activate(l) ==
  /\ app.pc = "idle" /\ netd /\ ready[l]
  /\ Change
  /\ desired' = [desired EXCEPT ![l] = TRUE]
  /\ app' = [Idle EXCEPT !.pc = "pass", !.plan = egress, !.next = l]
  /\ UNCHANGED << ready, egress, netdVars, kernelVars, faults >>

Deactivate(l) ==
  /\ app.pc = "idle" /\ netd
  /\ Change
  /\ desired' = [desired EXCEPT ![l] = FALSE]
  /\ app' = [Idle EXCEPT !.pc = "pass", !.plan = egress, !.stops = {l}]
  /\ UNCHANGED << ready, egress, netdVars, kernelVars, faults >>

Wanted(l) == desired[l] /\ ready[l]

MutantToStop    == {l \in Lines : ~desired[l] /\ Known(l) /\ Instance(l).state # "stopped"}
MutantToRestart == {}
MutantToStart   == {l \in Lines : Wanted(l) /\ ~Known(l)}

ToStop    == {l \in Lines : ~Wanted(l) /\ Known(l) /\ Instance(l).state # "stopped"}
ToRestart == {l \in Lines : Wanted(l) /\ Running(l) /\ Instance(l).egress # egress[l]}
ToStart   == {l \in Lines : Wanted(l) /\ ~Running(l)}

(* Reconcile decides from one environment; what happens to the instances   *)
(* after that is not seen by this pass.                                    *)
Reconcile ==
  /\ app.pc = "idle" /\ netd
  /\ ToStop \cup ToRestart \cup ToStart # {}
  /\ app' = [Idle EXCEPT !.pc = "pass", !.plan = egress, !.stops = ToStop,
                         !.restarts = ToRestart, !.starts = ToStart]
  /\ UNCHANGED << adminVars, netdVars, kernelVars, faults >>

MutantAfterStop(l) ==
  [app EXCEPT !.pc = "pass", !.line = None, !.stops = @ \ {l}, !.restarts = @ \ {l},
              !.next = IF l \in app.restarts THEN l ELSE None]

(* A Stop is over; a Line that changed its egress is started next.         *)
AfterStop(l) ==
  [app EXCEPT !.pc = "pass", !.line = None, !.slot = 0, !.stops = @ \ {l},
              !.restarts = @ \ {l},
              !.next = IF l \in app.restarts THEN l ELSE None]

AfterStart(l) ==
  [app EXCEPT !.pc = "pass", !.line = None, !.slot = 0, !.starts = @ \ {l},
              !.next = None]

(* Stops come before starts.                                               *)
StopTurn(l) ==
  /\ app.pc = "pass" /\ app.next = None
  /\ IF app.stops # {} THEN l \in app.stops ELSE l \in app.restarts

StartTurn(l) ==
  /\ app.pc = "pass" /\ app.stops = {}
  /\ app.next = l \/ (app.next = None /\ l \in app.starts)

CallStop(l) ==
  /\ netd
  /\ StopTurn(l)
  /\ IF Stoppable(l)
       THEN /\ Update(l, current[l], Stopping(Instance(l)))
            /\ app' = [app EXCEPT !.pc = "stop", !.line = l, !.slot = current[l]]
       ELSE app' = AfterStop(l) /\ UNCHANGED instances
  /\ UNCHANGED << adminVars, netd, current, kernelVars, faults >>

(* Stop waits for the instance; an error of its cleanup ends the pass.     *)
StopReturns ==
  /\ app.pc = "stop" /\ netd
  /\ instances[app.line][app.slot].done
  /\ app' = IF instances[app.line][app.slot].dirty THEN Idle ELSE AfterStop(app.line)
  /\ UNCHANGED << adminVars, netdVars, kernelVars, faults >>

(* Stop gives up 3 s after SIGKILL, while the cleanup may take 15 s.       *)
StopTimesOut ==
  /\ app.pc = "stop" /\ netd
  /\ ~instances[app.line][app.slot].done
  /\ app' = Idle
  /\ UNCHANGED << adminVars, netdVars, kernelVars, faults >>

(* The answer of a Start: an error ends the pass.                          *)
StartAnswers ==
  /\ app.pc = "start" /\ netd
  /\ instances[app.line][app.slot].start \in {"failed", "started"}
  /\ app' = IF instances[app.line][app.slot].start = "failed" THEN Idle
            ELSE AfterStart(app.line)
  /\ UNCHANGED << adminVars, netdVars, kernelVars, faults >>

PassEnds ==
  /\ app.pc = "pass"
  /\ app.stops \cup app.restarts \cup app.starts = {} /\ app.next = None
  /\ app' = Idle
  /\ UNCHANGED << adminVars, netdVars, kernelVars, faults >>

(* simplusd stops, a browser leaves or the connection breaks: netd sees    *)
(* its request cancelled.                                                  *)
CallLost ==
  /\ app.pc # "idle"
  /\ Fault
  /\ app' = Idle
  /\ IF app.pc = "start"
       THEN Update(app.line, app.slot,
                   [instances[app.line][app.slot] EXCEPT !.cancelled = TRUE])
       ELSE UNCHANGED instances
  /\ UNCHANGED << adminVars, netd, current, kernelVars >>

-----------------------------------------------------------------------------
(* simplus-netd: Start                                                     *)

FreshInstance(l) ==
  [NoInstance EXCEPT !.egress = app.plan[l], !.state = "starting", !.heard = FALSE,
                     !.done = FALSE, !.start = "setup"]

(* The network of the instance that is replaced could not be removed.      *)
NeedsCleanup(l) == Known(l) /\ Instance(l).dirty

(* Under the mutex: refuse or replace the Line's instance, write the new   *)
(* manifest.  The caller takes ErrAlreadyRunning for success.              *)
CallStart(l) ==
  /\ netd
  /\ StartTurn(l)
  /\ IF Running(l)
       THEN app' = AfterStart(l) /\ UNCHANGED << current, instances, kernelVars >>
       ELSE \E s \in Slots \ {current[l]} :
              /\ Over(instances[l][s])
              /\ current' = [current EXCEPT ![l] = s]
              /\ instances' = [instances EXCEPT ![l][s] = FreshInstance(l)]
              /\ network' = IF NeedsCleanup(l) THEN [network EXCEPT ![l] = None] ELSE network
              /\ manifest' = [manifest EXCEPT ![l] = app.plan[l]]
              /\ app' = [app EXCEPT !.pc = "start", !.line = l, !.slot = s]
  /\ UNCHANGED << adminVars, netd, faults >>

CleanupStillFails(l) ==
  /\ netd
  /\ StartTurn(l) /\ ~Running(l) /\ NeedsCleanup(l)
  /\ Fault
  /\ app' = Idle
  /\ UNCHANGED << adminVars, netdVars, kernelVars >>

(* failStart; the directory is removed after the mutex is given back.      *)
FailedStart(i, remove) ==
  [i EXCEPT !.state = "failed", !.online = FALSE, !.heard = TRUE, !.done = TRUE,
            !.start = IF remove THEN "discard" ELSE "failed"]

(* Network.Setup, without the mutex: objects that are there already are an *)
(* error, and are left alone.                                              *)
SetupNetwork(l, s) ==
  /\ instances[l][s].start = "setup"
  /\ IF network[l] = None
       THEN /\ network' = [network EXCEPT ![l] = instances[l][s].egress]
            /\ Update(l, s, [instances[l][s] EXCEPT !.start = "spawn"])
       ELSE /\ Update(l, s, FailedStart(instances[l][s], TRUE))
            /\ UNCHANGED network
  /\ UNCHANGED << adminVars, app, netd, current, manifest, faults >>

(* Setup or the worker's start fails and so may the removal of what was    *)
(* set up; only then the manifest is kept.                                 *)
StartFails(l, s) ==
  /\ \/ instances[l][s].start = "setup" /\ network[l] = None
     \/ instances[l][s].start = "spawn"
  /\ Fault
  /\ \E removed \in BOOLEAN :
       /\ network' = [network EXCEPT ![l] = IF removed THEN None ELSE instances[l][s].egress]
       /\ Update(l, s, FailedStart(instances[l][s], removed))
  /\ UNCHANGED << adminVars, app, netd, current, manifest >>

DiscardDirectory(l, s) ==
  /\ instances[l][s].start = "discard"
  /\ manifest' = [manifest EXCEPT ![l] = None]
  /\ Update(l, s, [instances[l][s] EXCEPT !.start = "failed"])
  /\ UNCHANGED << adminVars, app, netd, current, network, faults >>

SpawnWorker(l, s) ==
  /\ instances[l][s].start = "spawn"
  /\ Update(l, s, [instances[l][s] EXCEPT !.command = TRUE, !.worker = "alive",
                                          !.monitor = "reading", !.start = "waiting"])
  /\ UNCHANGED << adminVars, app, netd, current, kernelVars, faults >>

(* The first event, or the end of the worker.                              *)
StartReturns(l, s) ==
  /\ instances[l][s].start = "waiting" /\ instances[l][s].heard
  /\ Update(l, s, [instances[l][s] EXCEPT
                     !.start = IF instances[l][s].state = "failed" THEN "failed" ELSE "started"])
  /\ UNCHANGED << adminVars, app, netd, current, kernelVars, faults >>

(* The caller is gone, or no event came within 5 s.                        *)
StartCancelled(l, s) ==
  /\ instances[l][s].start = "waiting" /\ instances[l][s].cancelled
  /\ Update(l, s, [instances[l][s] EXCEPT !.start = "givenup"])
  /\ UNCHANGED << adminVars, app, netd, current, kernelVars, faults >>

StartTimesOut(l, s) ==
  /\ instances[l][s].start = "waiting"
  /\ Fault
  /\ Update(l, s, [instances[l][s] EXCEPT !.start = "givenup"])
  /\ UNCHANGED << adminVars, app, netd, current, kernelVars >>

(* It then stops the Line's instance, whichever that is by now.            *)
StartStops(l, s) ==
  /\ instances[l][s].start = "givenup"
  /\ instances' = [instances EXCEPT ![l] = [t \in Slots |->
       LET i == IF Stoppable(l) /\ t = current[l] THEN Stopping(@[t]) ELSE @[t]
       IN IF t = s THEN [i EXCEPT !.start = "failed"] ELSE i]]
  /\ UNCHANGED << adminVars, app, netd, current, kernelVars, faults >>

-----------------------------------------------------------------------------
(* The worker and its monitor                                              *)

(* The monitor reads an event, which may have been written before the      *)
(* worker was stopped or died: it overwrites the state.                    *)
ReadEvent(l, s, online) ==
  /\ instances[l][s].monitor = "reading"
  /\ Update(l, s, [instances[l][s] EXCEPT
                     !.state = IF online THEN "online" ELSE "working",
                     !.online = online, !.heard = TRUE])
  /\ UNCHANGED << adminVars, app, netd, current, kernelVars, faults >>

WorkerStops(l, s) ==
  /\ instances[l][s].worker = "signalled"
  /\ Update(l, s, [instances[l][s] EXCEPT !.worker = "gone"])
  /\ UNCHANGED << adminVars, app, netd, current, kernelVars, faults >>

WorkerDies(l, s) ==
  /\ instances[l][s].worker = "alive"
  /\ Fault
  /\ Update(l, s, [instances[l][s] EXCEPT !.worker = "gone"])
  /\ UNCHANGED << adminVars, app, netd, current, kernelVars >>

MutantMonitorMay(i) == i.worker \in {"signalled", "gone"}

(* command.Wait has returned.                                              *)
MonitorMay(i) == i.worker = "gone"

MonitorCleans(l, s) ==
  /\ instances[l][s].monitor = "reading" /\ MonitorMay(instances[l][s])
  /\ network' = [network EXCEPT ![l] = None]
  /\ manifest' = [manifest EXCEPT ![l] = None]
  /\ Update(l, s, [instances[l][s] EXCEPT !.monitor = "cleaned"])
  /\ UNCHANGED << adminVars, app, netd, current, faults >>

MonitorCannotClean(l, s) ==
  /\ instances[l][s].monitor = "reading" /\ MonitorMay(instances[l][s])
  /\ Fault
  /\ Update(l, s, [instances[l][s] EXCEPT !.monitor = "uncleaned"])
  /\ UNCHANGED << adminVars, app, netd, current, kernelVars >>

(* A stopped instance keeps the online flag an event after Stop gave it.   *)
FinalStatus(i) ==
  CASE i.monitor = "uncleaned" -> [i EXCEPT !.dirty = TRUE, !.state = "failed", !.online = FALSE]
    [] i.monitor = "cleaned" /\ i.stop -> [i EXCEPT !.state = "stopped"]
    [] OTHER -> [i EXCEPT !.state = "failed", !.online = FALSE]

MonitorReports(l, s) ==
  /\ instances[l][s].monitor \in {"cleaned", "uncleaned"}
  /\ Update(l, s, [FinalStatus(instances[l][s]) EXCEPT
                     !.monitor = "none", !.heard = TRUE, !.done = TRUE])
  /\ UNCHANGED << adminVars, app, netd, current, kernelVars, faults >>

-----------------------------------------------------------------------------
(* Crash and restart of simplus-netd                                       *)

(* A runtime directory is being made or removed.                           *)
Rewriting(l) == \E s \in Slots : \/ instances[l][s].start \in {"setup", "discard"}
                                 \/ instances[l][s].monitor = "cleaned"

(* Workers die with netd (Pdeathsig), kernel objects and directories stay. *)
Crash(torn) ==
  /\ netd
  /\ Fault
  /\ netd' = FALSE
  /\ current' = [l \in Lines |-> 0]
  /\ instances' = [l \in Lines |-> [s \in Slots |-> NoInstance]]
  /\ manifest' = [l \in Lines |-> IF l \in torn THEN Torn ELSE manifest[l]]
  /\ app' = Idle
  /\ UNCHANGED << adminVars, network >>

(* cleanupStale: what a manifest records is removed before netd serves; an *)
(* unreadable one ends it, and the container starts it again.              *)
Restart ==
  /\ ~netd
  /\ \A l \in Lines : manifest[l] # Torn
  /\ netd' = TRUE
  /\ network' = [l \in Lines |-> IF manifest[l] = None THEN network[l] ELSE None]
  /\ manifest' = [l \in Lines |-> None]
  /\ UNCHANGED << adminVars, app, current, instances, faults >>

-----------------------------------------------------------------------------
StartSteps(l, s) ==
  \/ SetupNetwork(l, s) \/ DiscardDirectory(l, s) \/ SpawnWorker(l, s)
  \/ StartReturns(l, s) \/ StartCancelled(l, s) \/ StartStops(l, s)

MonitorSteps(l, s) ==
  WorkerStops(l, s) \/ MonitorCleans(l, s) \/ MonitorReports(l, s)

Next ==
  \/ \E l \in Lines :
       \/ ReadinessChanges(l) \/ EgressChanges(l) \/ Activate(l) \/ Deactivate(l)
       \/ CallStop(l) \/ CallStart(l) \/ CleanupStillFails(l)
       \/ \E s \in Slots :
            \/ StartSteps(l, s) \/ MonitorSteps(l, s)
            \/ StartFails(l, s) \/ StartTimesOut(l, s)
            \/ WorkerDies(l, s) \/ MonitorCannotClean(l, s)
            \/ \E online \in BOOLEAN : ReadEvent(l, s, online)
  \/ Reconcile \/ StopReturns \/ StopTimesOut \/ StartAnswers \/ PassEnds
  \/ CallLost
  \/ \E torn \in SUBSET {l \in Lines : Rewriting(l)} : Crash(torn)
  \/ Restart

Spec == Init /\ [][Next]_vars

(* A worker's first event comes: it emits one before anything else.        *)
FirstEvent(l, s) == ~instances[l][s].heard /\ \E online \in BOOLEAN : ReadEvent(l, s, online)

(* Goroutines and processes run on, passes start every ten seconds.  Maps  *)
(* are ranged over in random order, so no Line comes last in every pass.   *)
Fairness ==
  /\ \A l \in Lines : /\ SF_vars(CallStop(l)) /\ SF_vars(CallStart(l))
                      /\ \A s \in Slots : /\ WF_vars(StartSteps(l, s))
                                          /\ WF_vars(MonitorSteps(l, s))
                                          /\ WF_vars(FirstEvent(l, s))
  /\ WF_vars(Reconcile) /\ WF_vars(StopReturns) /\ WF_vars(StartAnswers)
  /\ WF_vars(PassEnds) /\ WF_vars(Restart)

FairSpec == Spec /\ Fairness

-----------------------------------------------------------------------------
(* Properties                                                              *)

(* A Line never has two workers, whatever starts, stops, cancelled         *)
(* requests and crashes follow each other.                                 *)
OneWorker ==
  \A l \in Lines : Cardinality({s \in Slots : Alive(instances[l][s])}) <= 1

(* A worker runs in the network that was set up for it: the clean-up of an *)
(* earlier instance never removes it, and no other egress replaces it.     *)
WorkerKeepsItsNetwork ==
  \A l \in Lines, s \in Slots :
    Alive(instances[l][s]) => network[l] = instances[l][s].egress

(* Messages are only given to a Line whose worker was started and whose    *)
(* monitor has not reported its end, though an event read after Stop       *)
(* leaves the online flag set: the worker may be signalled or dead by      *)
(* then, but until it is collected it has its own network, and the Line    *)
(* has no other worker.                                                    *)
AvailableNeedsWorker ==
  \A l \in Lines : Available(l) =>
    /\ Instance(l).worker # "none" /\ Instance(l).monitor # "none" /\ ~Instance(l).done
    /\ Instance(l).monitor = "reading" => network[l] = Instance(l).egress
    /\ \A s \in Slots \ {current[l]} : ~Alive(instances[l][s])

(* A restart of netd removes every network there was.                      *)
RestartCleansUp ==
  [][~netd /\ netd' => \A l \in Lines : network'[l] = None]_vars

(* Stop was called on an instance that had failed: it stays stopping.      *)
Stuck(l) == Known(l) /\ Instance(l).done /\ Instance(l).state = "stopping"

(* Its kernel objects are no longer on record: Setup and Restart fail to   *)
(* remove them.                                                            *)
Leaked(l) == network[l] # None /\ manifest[l] = None

(* netd ends at a runtime directory it cannot read, whenever it starts.    *)
Unstartable == \E l \in Lines : manifest[l] = Torn

Served(l) == Known(l) /\ Instance(l).worker = "alive" /\ Instance(l).egress = egress[l]

(* While netd runs and no network is leaked, an active Line that stays     *)
(* ready gets a worker with its present egress, after any failures.        *)
IntentIsMet == \A l \in Lines : []<>(Wanted(l) /\ netd /\ ~Leaked(l) => Served(l))

(* A pass ends at a stuck Line whose clean-up failed, and serves no other. *)
Unserviceable(l) ==
  Stuck(l) \/ Leaked(l) \/ Unstartable \/ \E k \in Lines : Stuck(k) /\ Instance(k).dirty

(* What holds: a Line is served unless one of these four defects hits it.  *)
ServiceableIsServed == \A l \in Lines : []<>(Wanted(l) => Served(l) \/ Unserviceable(l))

(* A Line that is not active, or not ready, loses its worker.              *)
UnwantedIsStopped ==
  \A l \in Lines : []<>(Wanted(l) \/ \A s \in Slots : ~Alive(instances[l][s]))
=============================================================================
