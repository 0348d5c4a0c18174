---------------------------- MODULE Netd_proofs ----------------------------
(* Theorems of VowifiLifecycle and of Mihomo, for any number of Lines,     *)
(* egresses, subscriptions, installations, changes and faults.             *)
EXTENDS VowifiLifecycle, Mihomo, FiniteSetTheorems, TLAPS

USE DEF adminVars, netdVars, kernelVars

-----------------------------------------------------------------------------
(* The inductive invariant.                                                *)

(* What the state of an instance says of its goroutines and its worker.    *)
Coherent(i) ==
  /\ ~Active(i) => i.done
  /\ i.done => ~Alive(i) /\ i.monitor = "none" /\ i.start \notin {"setup", "spawn"}
  /\ i.start \in {"setup", "spawn"} => i.worker = "none" /\ i.monitor = "none"
  /\ Alive(i) => i.monitor = "reading"
  /\ i.monitor # "none" => i.worker # "none"
  /\ i.state = "online" => i.monitor # "none"

(* A network was set up for the instance, and must not be touched.         *)
HasNetwork(i) == i.start = "spawn" \/ i.monitor = "reading"

(* Only the Line's present instance may have anything left to do to its    *)
(* network, and simplus-netd has no instances while it is down.            *)
InstancesAreCoherent ==
  /\ \A l \in Lines, s \in Slots :
       /\ Coherent(instances[l][s])
       /\ s # current[l] => instances[l][s].done
       /\ HasNetwork(instances[l][s]) => network[l] = instances[l][s].egress
  /\ ~netd => \A l \in Lines : current[l] = 0

-----------------------------------------------------------------------------
(* What a step makes of one instance.                                      *)

(* i becomes j: its egress stays, and what is over stays over.             *)
Becomes(i, j) == /\ j \in InstanceType /\ Coherent(j)
                 /\ j.egress = i.egress
                 /\ i.done => j.done

LEMMA Stops ==
  ASSUME NEW i \in InstanceType, Coherent(i)
  PROVE  Becomes(i, Stopping(i)) /\ (HasNetwork(Stopping(i)) => HasNetwork(i))
<1> DEFINE j == Stopping(i)
<1>1. j \in InstanceType
  <2> DEFINE signalled == IF i.worker = "alive" THEN "signalled" ELSE i.worker
  <2>1. signalled \in {"none", "alive", "signalled", "gone"}
    BY DEF InstanceType
  <2>2. j = [i EXCEPT !.stop = TRUE, !.state = "stopping", !.online = FALSE,
                      !.worker = signalled]
    BY DEF Stopping, InstanceType
  <2> HIDE DEF signalled, j
  <2>3. QED
    BY <2>1, <2>2 DEF InstanceType
<1>2. /\ j.egress = i.egress /\ j.done = i.done /\ j.monitor = i.monitor
      /\ j.start = i.start /\ j.state = "stopping"
      /\ j.worker = IF i.worker = "alive" THEN "signalled" ELSE i.worker
  BY DEF Stopping, InstanceType
<1> HIDE DEF j
<1>3. Coherent(j)
  BY <1>2 DEF Coherent, Active, Alive
<1>4. QED
  BY <1>1, <1>2, <1>3 DEF j, Becomes, HasNetwork

LEMMA FailsToStart ==
  ASSUME NEW i \in InstanceType, Coherent(i), i.start \in {"setup", "spawn"},
         NEW remove \in BOOLEAN
  PROVE  Becomes(i, FailedStart(i, remove)) /\ ~HasNetwork(FailedStart(i, remove))
BY DEF FailedStart, Becomes, InstanceType, Coherent, Active, Alive, HasNetwork

LEMMA Spawns ==
  ASSUME NEW i \in InstanceType, Coherent(i), i.start = "spawn"
  PROVE  Becomes(i, [i EXCEPT !.command = TRUE, !.worker = "alive",
                              !.monitor = "reading", !.start = "waiting"])
BY DEF Becomes, InstanceType, Coherent, Active, Alive

LEMMA StartProceeds ==
  ASSUME NEW i \in InstanceType, Coherent(i), i.start # "spawn", i.start # "setup",
         NEW next \in {"givenup", "failed", "started"}
  PROVE  LET j == [i EXCEPT !.start = next]
         IN  Becomes(i, j) /\ (HasNetwork(j) => HasNetwork(i))
BY DEF Becomes, InstanceType, Coherent, Active, Alive, HasNetwork

LEMMA SetsUp ==
  ASSUME NEW i \in InstanceType, Coherent(i), i.start = "setup"
  PROVE  Becomes(i, [i EXCEPT !.start = "spawn"])
BY DEF Becomes, InstanceType, Coherent, Active, Alive

LEMMA Cancels ==
  ASSUME NEW i \in InstanceType, Coherent(i)
  PROVE  LET j == [i EXCEPT !.cancelled = TRUE]
         IN  Becomes(i, j) /\ (HasNetwork(j) => HasNetwork(i))
<1> DEFINE j == [i EXCEPT !.cancelled = TRUE]
<1>1. j \in InstanceType
  BY DEF InstanceType
<1>2. /\ j.egress = i.egress /\ j.done = i.done /\ j.monitor = i.monitor
      /\ j.start = i.start /\ j.state = i.state /\ j.worker = i.worker
  BY DEF InstanceType
<1> HIDE DEF j
<1>3. Coherent(j)
  BY <1>2 DEF Coherent, Active, Alive
<1>4. QED
  BY <1>1, <1>2, <1>3 DEF j, Becomes, HasNetwork

LEMMA Reads ==
  ASSUME NEW i \in InstanceType, Coherent(i), i.monitor = "reading", NEW online \in BOOLEAN
  PROVE  Becomes(i, [i EXCEPT !.state = IF online THEN "online" ELSE "working",
                              !.online = online, !.heard = TRUE])
BY DEF Becomes, InstanceType, Coherent, Active, Alive

LEMMA Goes ==
  ASSUME NEW i \in InstanceType, Coherent(i), Alive(i)
  PROVE  LET j == [i EXCEPT !.worker = "gone"]
         IN  Becomes(i, j) /\ (HasNetwork(j) => HasNetwork(i))
BY DEF Becomes, InstanceType, Coherent, Active, Alive, HasNetwork

LEMMA Cleans ==
  ASSUME NEW i \in InstanceType, Coherent(i), i.monitor = "reading", i.worker = "gone",
         NEW how \in {"cleaned", "uncleaned"}
  PROVE  LET j == [i EXCEPT !.monitor = how]
         IN  Becomes(i, j) /\ ~HasNetwork(j)
BY DEF Becomes, InstanceType, Coherent, Active, Alive, HasNetwork

(* The monitor's last write to an instance.                                *)
LEMMA Ended ==
  ASSUME NEW i \in InstanceType
  PROVE  [i EXCEPT !.monitor = "none", !.heard = TRUE, !.done = TRUE] \in InstanceType
<1>1. ASSUME NEW k \in InstanceType
      PROVE  /\ [k EXCEPT !.monitor = "none"] \in InstanceType
             /\ [k EXCEPT !.heard = TRUE] \in InstanceType
             /\ [k EXCEPT !.done = TRUE] \in InstanceType
  <2>1. [k EXCEPT !.monitor = "none"] \in InstanceType
    BY DEF InstanceType
  <2>2. [k EXCEPT !.heard = TRUE] \in InstanceType
    BY DEF InstanceType
  <2>3. [k EXCEPT !.done = TRUE] \in InstanceType
    BY DEF InstanceType
  <2>4. QED
    BY <2>1, <2>2, <2>3
<1>2. [i EXCEPT !.monitor = "none", !.heard = TRUE, !.done = TRUE] =
        [[[i EXCEPT !.monitor = "none"] EXCEPT !.heard = TRUE] EXCEPT !.done = TRUE]
  BY DEF InstanceType
<1>3. QED
  BY <1>1, <1>2

LEMMA ReportsEnd ==
  ASSUME NEW i \in InstanceType, Coherent(i), i.monitor \in {"cleaned", "uncleaned"}
  PROVE  LET j == [FinalStatus(i) EXCEPT !.monitor = "none", !.heard = TRUE, !.done = TRUE]
         IN  Becomes(i, j) /\ ~HasNetwork(j)
<1> DEFINE f == FinalStatus(i)
           j == [f EXCEPT !.monitor = "none", !.heard = TRUE, !.done = TRUE]
<1>1. /\ f \in InstanceType /\ f.state \in {"failed", "stopped"}
      /\ f.egress = i.egress /\ f.worker = i.worker /\ f.start = i.start
  BY DEF FinalStatus, InstanceType
<1> HIDE DEF f
<1>2. /\ j \in InstanceType /\ j.done /\ j.monitor = "none"
      /\ j.egress = i.egress /\ j.worker = i.worker /\ j.start = i.start
      /\ j.state = f.state
  <2>1. j \in InstanceType
    BY <1>1, Ended
  <2>2. /\ j.done /\ j.monitor = "none" /\ j.egress = f.egress
        /\ j.worker = f.worker /\ j.start = f.start /\ j.state = f.state
    BY <1>1 DEF InstanceType
  <2> HIDE DEF j
  <2>3. QED
    BY <1>1, <2>1, <2>2
<1> HIDE DEF j
<1>3. i.start \notin {"setup", "spawn"} /\ ~Alive(i)
  BY DEF Coherent
<1>4. Coherent(j) /\ ~HasNetwork(j)
  BY <1>1, <1>2, <1>3 DEF Coherent, Active, Alive, HasNetwork
<1>5. QED
  BY <1>2, <1>4 DEF f, j, Becomes

LEMMA FreshIsCoherent ==
  ASSUME NEW l \in Lines, app.plan[l] \in Egresses \cup {None}
  PROVE  /\ FreshInstance(l) \in InstanceType /\ Coherent(FreshInstance(l))
         /\ ~HasNetwork(FreshInstance(l)) /\ ~FreshInstance(l).done
BY DEF FreshInstance, NoInstance, InstanceType, Coherent, Active, Alive, HasNetwork

LEMMA NothingIsCoherent ==
  /\ NoInstance \in InstanceType /\ Coherent(NoInstance)
  /\ NoInstance.done /\ ~HasNetwork(NoInstance)
BY DEF NoInstance, InstanceType, Coherent, Active, Alive, HasNetwork

-----------------------------------------------------------------------------
(* Types, part by part.                                                    *)

AppType ==
  [pc : {"idle", "pass", "stop", "start"}, line : Lines \cup {None},
   slot : Slots \cup {0}, next : Lines \cup {None},
   stops : SUBSET Lines, restarts : SUBSET Lines, starts : SUBSET Lines,
   plan : [Lines -> Egresses \cup {None}]]

AppOK(a) == /\ a \in AppType
            /\ a.pc \in {"stop", "start"} <=> a.line # None
            /\ a.pc \in {"stop", "start"} <=> a.slot # 0

AdminOK == /\ desired \in [Lines -> BOOLEAN] /\ ready \in [Lines -> BOOLEAN]
           /\ egress \in [Lines -> Egresses] /\ changes \in 0 .. MaxChanges

KernelOK == /\ network \in [Lines -> Egresses \cup {None}]
            /\ manifest \in [Lines -> Egresses \cup {None, Torn}]

NetdOK == /\ netd \in BOOLEAN /\ current \in [Lines -> Slots \cup {0}]
          /\ instances \in [Lines -> [Slots -> InstanceType]]

LEMMA TypeParts ==
  TypeOK <=> AdminOK /\ AppOK(app) /\ NetdOK /\ KernelOK /\ faults \in 0 .. MaxFaults
BY DEF TypeOK, AdminOK, AppOK, AppType, NetdOK, KernelOK

LEMMA TypePartsNext ==
  AdminOK' /\ AppOK(app') /\ NetdOK' /\ KernelOK' /\ faults' \in 0 .. MaxFaults => TypeOK'
BY DEF TypeOK, AdminOK, AppOK, AppType, NetdOK, KernelOK

LEMMA IdleIsTyped == AppOK(Idle)
BY DEF Idle, AppOK, AppType, Slots

LEMMA PassBegins ==
  ASSUME AdminOK, NEW l \in Lines, NEW stops \in SUBSET Lines,
         NEW restarts \in SUBSET Lines, NEW starts \in SUBSET Lines
  PROVE  /\ AppOK([Idle EXCEPT !.pc = "pass", !.plan = egress, !.next = l])
         /\ AppOK([Idle EXCEPT !.pc = "pass", !.plan = egress, !.stops = {l}])
         /\ AppOK([Idle EXCEPT !.pc = "pass", !.plan = egress, !.stops = stops,
                               !.restarts = restarts, !.starts = starts])
<1>1. egress \in [Lines -> Egresses \cup {None}]
  BY DEF AdminOK
<1>2. Idle \in AppType /\ Idle.line = None /\ Idle.slot = 0
  BY DEF Idle, AppType, Slots
<1> HIDE DEF Idle
<1>3. QED
  BY <1>1, <1>2 DEF AppOK, AppType, Slots

LEMMA PassGoesOn ==
  ASSUME AppOK(app), NEW l \in Lines
  PROVE  AppOK(AfterStop(l)) /\ AppOK(AfterStart(l))
BY DEF AfterStop, AfterStart, AppOK, AppType, Slots

LEMMA PassCalls ==
  ASSUME AppOK(app), NEW l \in Lines, NEW s \in Slots, NEW pc \in {"stop", "start"}
  PROVE  AppOK([app EXCEPT !.pc = pc, !.line = l, !.slot = s])
<1> DEFINE a == [app EXCEPT !.pc = pc, !.line = l, !.slot = s]
<1>1. l # None /\ s # 0
  BY ConstantsAssumption DEF Slots
<1>2. a \in AppType /\ a.pc = pc /\ a.line = l /\ a.slot = s
  BY DEF AppOK, AppType
<1> HIDE DEF a
<1>3. AppOK(a)
  BY <1>1, <1>2 DEF AppOK
<1>4. QED
  BY <1>3 DEF a

-----------------------------------------------------------------------------
(* What a step makes of the instances of all Lines.                        *)

LifecycleInv == TypeOK /\ InstancesAreCoherent

(* One instance changes, and the network only of one that is not over.     *)
LEMMA OneChanges ==
  ASSUME LifecycleInv, NEW l \in Lines, NEW s \in Slots, NEW j,
         Update(l, s, j), Becomes(instances[l][s], j),
         \A k \in Lines \ {l} : network'[k] = network[k],
         network'[l] = network[l] \/ ~instances[l][s].done,
         HasNetwork(j) => network'[l] = j.egress,
         UNCHANGED << netd, current >>
  PROVE  NetdOK' /\ InstancesAreCoherent'
<1>1. /\ instances \in [Lines -> [Slots -> InstanceType]]
      /\ current \in [Lines -> Slots \cup {0}] /\ netd \in BOOLEAN
  BY DEF LifecycleInv, TypeOK
<1>2. /\ instances'[l][s] = j
      /\ \A t \in Slots \ {s} : instances'[l][t] = instances[l][t]
      /\ \A k \in Lines \ {l} : instances'[k] = instances[k]
      /\ instances' \in [Lines -> [Slots -> InstanceType]]
  BY <1>1 DEF Update, Becomes
<1>3. NetdOK'
  BY <1>1, <1>2 DEF NetdOK
<1>4. ASSUME NEW k \in Lines, NEW t \in Slots
      PROVE  /\ Coherent(instances'[k][t])
             /\ t # current[k] => instances'[k][t].done
             /\ HasNetwork(instances'[k][t]) => network'[k] = instances'[k][t].egress
  <2>1. CASE k = l /\ t = s
    BY <1>2, <2>1 DEF Becomes, LifecycleInv, InstancesAreCoherent
  <2>2. CASE k = l /\ t # s
    <3>1. instances'[k][t] = instances[k][t]
      BY <1>2, <2>2
    <3>2. network'[l] = network[l] \/ instances[l][t].done
      BY <2>2 DEF LifecycleInv, InstancesAreCoherent
    <3>3. instances[l][t].done => ~HasNetwork(instances[l][t])
      BY DEF LifecycleInv, InstancesAreCoherent, Coherent, HasNetwork
    <3>4. QED
      BY <2>2, <3>1, <3>2, <3>3 DEF LifecycleInv, InstancesAreCoherent
  <2>3. CASE k # l
    BY <1>2, <2>3 DEF LifecycleInv, InstancesAreCoherent
  <2>4. QED
    BY <2>1, <2>2, <2>3
<1>5. InstancesAreCoherent'
  BY <1>4 DEF LifecycleInv, InstancesAreCoherent
<1>6. QED
  BY <1>3, <1>5

(* A Line that is not running has no instance with anything left to do.    *)
LEMMA NotRunningIsOver ==
  ASSUME LifecycleInv, NEW l \in Lines, ~Running(l), NEW s \in Slots
  PROVE  instances[l][s].done /\ ~HasNetwork(instances[l][s])
<1>1. instances[l][s].done
  <2>1. CASE s # current[l]
    BY <2>1 DEF LifecycleInv, InstancesAreCoherent
  <2>2. CASE s = current[l]
    BY <2>2 DEF Running, Known, Instance, LifecycleInv, InstancesAreCoherent, Coherent,
       Slots
  <2>3. QED
    BY <2>1, <2>2
<1>2. QED
  BY <1>1 DEF LifecycleInv, InstancesAreCoherent, Coherent, HasNetwork

(* Start replaces an instance that is over, and its network with it.       *)
LEMMA StartReplaces ==
  ASSUME LifecycleInv, NEW l \in Lines, CallStart(l)
  PROVE  TypeOK' /\ InstancesAreCoherent'
<1>1. /\ AdminOK /\ AppOK(app) /\ NetdOK /\ KernelOK /\ faults \in 0 .. MaxFaults
      /\ AdminOK'
  BY TypeParts DEF LifecycleInv, CallStart, AdminOK
<1>2. CASE Running(l)
  <2>1. UNCHANGED << netdVars, kernelVars, faults >> /\ app' = AfterStart(l)
    BY <1>2 DEF CallStart
  <2>2. NetdOK' /\ KernelOK' /\ faults' \in 0 .. MaxFaults /\ InstancesAreCoherent'
    BY <1>1, <2>1 DEF NetdOK, KernelOK, LifecycleInv, InstancesAreCoherent
  <2>3. QED
    BY <1>1, <2>1, <2>2, PassGoesOn, TypePartsNext
<1>3. CASE ~Running(l)
  <2>1. PICK s \in Slots :
          /\ current' = [current EXCEPT ![l] = s]
          /\ instances' = [instances EXCEPT ![l][s] = FreshInstance(l)]
          /\ app' = [app EXCEPT !.pc = "start", !.line = l, !.slot = s]
    BY <1>3 DEF CallStart
  <2>2. /\ network' = IF NeedsCleanup(l) THEN [network EXCEPT ![l] = None] ELSE network
        /\ manifest' = [manifest EXCEPT ![l] = app.plan[l]]
        /\ netd /\ netd' = netd /\ faults' = faults
    BY <1>3 DEF CallStart
  <2>3. app.plan[l] \in Egresses \cup {None}
    BY <1>1 DEF AppOK, AppType
  <2> DEFINE i == FreshInstance(l)
  <2>4. i \in InstanceType /\ Coherent(i) /\ ~HasNetwork(i)
    BY <2>3, FreshIsCoherent
  <2> HIDE DEF i
  <2>5. /\ instances'[l][s] = i
        /\ \A t \in Slots \ {s} : instances'[l][t] = instances[l][t]
        /\ \A k \in Lines \ {l} : instances'[k] = instances[k]
        /\ instances' \in [Lines -> [Slots -> InstanceType]]
    BY <1>1, <2>1, <2>4 DEF NetdOK, i
  <2>6. /\ current' \in [Lines -> Slots \cup {0}] /\ current'[l] = s
        /\ \A k \in Lines \ {l} : current'[k] = current[k]
    BY <1>1, <2>1 DEF NetdOK
  <2>7. KernelOK' /\ \A k \in Lines \ {l} : network'[k] = network[k]
    BY <1>1, <2>2, <2>3 DEF KernelOK
  <2>8. ASSUME NEW k \in Lines, NEW t \in Slots
        PROVE  /\ Coherent(instances'[k][t])
               /\ t # current'[k] => instances'[k][t].done
               /\ HasNetwork(instances'[k][t]) => network'[k] = instances'[k][t].egress
    <3>1. CASE k = l /\ t = s
      BY <2>4, <2>5, <2>6, <3>1
    <3>2. CASE k = l /\ t # s
      BY <1>3, <2>5, <3>2, NotRunningIsOver DEF LifecycleInv, InstancesAreCoherent
    <3>3. CASE k # l
      BY <2>5, <2>6, <2>7, <3>3 DEF LifecycleInv, InstancesAreCoherent
    <3>4. QED
      BY <3>1, <3>2, <3>3
  <2>9. InstancesAreCoherent'
    BY <2>2, <2>8 DEF InstancesAreCoherent
  <2>10. NetdOK' /\ faults' \in 0 .. MaxFaults
    BY <1>1, <2>2, <2>5, <2>6 DEF NetdOK
  <2>11. QED
    BY <1>1, <2>1, <2>7, <2>9, <2>10, PassCalls, TypePartsNext
<1>4. QED
  BY <1>2, <1>3

(* A Start that gives up stops the Line's instance, whichever it is.       *)
LEMMA GivenUpStops ==
  ASSUME LifecycleInv, NEW l \in Lines, NEW s \in Slots, StartStops(l, s)
  PROVE  NetdOK' /\ InstancesAreCoherent'
<1>1. NetdOK /\ UNCHANGED << netd, current, network >>
  BY TypeParts DEF LifecycleInv, StartStops
<1> DEFINE stopped(t) == IF Stoppable(l) /\ t = current[l] THEN Stopping(instances[l][t])
                         ELSE instances[l][t]
           after(t) == IF t = s THEN [stopped(t) EXCEPT !.start = "failed"] ELSE stopped(t)
<1>2. instances' = [instances EXCEPT ![l] = [t \in Slots |-> after(t)]]
  BY DEF StartStops
<1>3. ASSUME NEW t \in Slots
      PROVE  /\ Becomes(instances[l][t], after(t))
             /\ HasNetwork(after(t)) => HasNetwork(instances[l][t])
  <2>1. instances[l][t] \in InstanceType /\ Coherent(instances[l][t])
    BY <1>1 DEF NetdOK, LifecycleInv, InstancesAreCoherent
  <2>2. /\ Becomes(instances[l][t], stopped(t))
        /\ HasNetwork(stopped(t)) => HasNetwork(instances[l][t])
        /\ stopped(t).start = instances[l][t].start
    <3>1. Stopping(instances[l][t]).start = instances[l][t].start
      BY <2>1 DEF Stopping, InstanceType
    <3>2. QED
      BY <2>1, <3>1, Stops DEF Becomes
  <2>3. t = s => stopped(t).start = "givenup"
    BY <2>2 DEF StartStops
  <2> HIDE DEF stopped
  <2>4. CASE t = s
    <3>1. stopped(t) \in InstanceType /\ Coherent(stopped(t))
      BY <2>2 DEF Becomes
    <3>2. Becomes(stopped(t), after(t)) /\ (HasNetwork(after(t)) => HasNetwork(stopped(t)))
      BY <2>3, <2>4, <3>1, StartProceeds
    <3>3. QED
      BY <2>2, <3>2 DEF Becomes
  <2>5. CASE t # s
    BY <2>2, <2>5
  <2>6. QED
    BY <2>4, <2>5
<1> HIDE DEF after
<1>4. /\ \A t \in Slots : instances'[l][t] = after(t)
      /\ \A k \in Lines \ {l} : instances'[k] = instances[k]
  BY <1>1, <1>2 DEF NetdOK
<1>5. instances' \in [Lines -> [Slots -> InstanceType]]
  <2>1. [t \in Slots |-> after(t)] \in [Slots -> InstanceType]
    BY <1>3 DEF Becomes
  <2>2. QED
    BY <1>1, <1>2, <2>1 DEF NetdOK
<1>6. ASSUME NEW k \in Lines, NEW t \in Slots
      PROVE  /\ Coherent(instances'[k][t])
             /\ t # current[k] => instances'[k][t].done
             /\ HasNetwork(instances'[k][t]) => network[k] = instances'[k][t].egress
  <2>1. CASE k = l
    <3>1. instances'[k][t] = after(t)
      BY <1>4, <2>1
    <3>2. QED
      BY <1>3, <2>1, <3>1 DEF Becomes, LifecycleInv, InstancesAreCoherent
  <2>2. CASE k # l
    BY <1>4, <2>2 DEF LifecycleInv, InstancesAreCoherent
  <2>3. QED
    BY <2>1, <2>2
<1>7. InstancesAreCoherent'
  BY <1>1, <1>6 DEF LifecycleInv, InstancesAreCoherent
<1>8. QED
  BY <1>1, <1>5, <1>7 DEF NetdOK

-----------------------------------------------------------------------------
(* Every step.                                                             *)

LEMMA LifecycleInit == Init => LifecycleInv
<1> SUFFICES ASSUME Init PROVE LifecycleInv
  OBVIOUS
<1>1. instances = [l \in Lines |-> [s \in Slots |-> NoInstance]]
  BY DEF Init
<1>2. NetdOK
  BY <1>1, NothingIsCoherent DEF Init, NetdOK
<1>3. AdminOK /\ AppOK(app) /\ KernelOK /\ faults \in 0 .. MaxFaults
  BY IdleIsTyped, ConstantsAssumption DEF Init, AdminOK, KernelOK
<1>4. InstancesAreCoherent
  BY <1>1, NothingIsCoherent DEF Init, InstancesAreCoherent
<1>5. QED
  BY <1>2, <1>3, <1>4, TypeParts DEF LifecycleInv

LEMMA LifecycleNext == LifecycleInv /\ [Next]_vars => LifecycleInv'
<1> SUFFICES ASSUME LifecycleInv, [Next]_vars PROVE LifecycleInv'
  OBVIOUS
<1> DEFINE Kept == NetdOK' /\ InstancesAreCoherent'
<1>1. /\ AdminOK /\ AppOK(app) /\ NetdOK /\ KernelOK /\ faults \in 0 .. MaxFaults
      /\ InstancesAreCoherent
  BY TypeParts DEF LifecycleInv
<1>2. AdminOK' /\ AppOK(app') /\ Kept /\ KernelOK' /\ faults' \in 0 .. MaxFaults
        => LifecycleInv'
  BY TypePartsNext DEF LifecycleInv
<1>3. Fault \/ UNCHANGED faults => faults' \in 0 .. MaxFaults
  BY <1>1, ConstantsAssumption DEF Fault
<1>4. UNCHANGED adminVars => AdminOK'
  BY <1>1 DEF AdminOK
<1>5. UNCHANGED << netdVars, network >> => Kept
  BY <1>1 DEF NetdOK, InstancesAreCoherent
<1>6. UNCHANGED kernelVars => KernelOK'
  BY <1>1 DEF KernelOK
<1>7. Change => changes' \in 0 .. MaxChanges
  BY <1>1, ConstantsAssumption DEF Change, AdminOK
<1>8. \A l \in Lines, s \in Slots :
        instances[l][s] \in InstanceType /\ Coherent(instances[l][s])
  BY <1>1 DEF NetdOK, InstancesAreCoherent
<1>9. \A l \in Lines, s \in Slots :
        HasNetwork(instances[l][s]) => network[l] = instances[l][s].egress
  BY <1>1 DEF InstancesAreCoherent
(* A change of one instance that leaves the network alone.                 *)
<1>10. ASSUME NEW l \in Lines, NEW s \in Slots, NEW j,
              Update(l, s, j), Becomes(instances[l][s], j),
              HasNetwork(j) => HasNetwork(instances[l][s]),
              UNCHANGED << netd, current, network >>
       PROVE  Kept
  BY <1>9, <1>10, OneChanges DEF Becomes
<1>11. ASSUME NEW l \in Lines, ReadinessChanges(l) \/ EgressChanges(l) PROVE LifecycleInv'
  <2>1. /\ AdminOK' /\ UNCHANGED << app, netdVars, kernelVars, faults >>
    BY <1>1, <1>7, <1>11 DEF ReadinessChanges, EgressChanges, AdminOK
  <2>2. QED
    BY <1>1, <1>2, <1>3, <1>5, <1>6, <2>1
<1>12. ASSUME NEW l \in Lines, Activate(l) \/ Deactivate(l) PROVE LifecycleInv'
  <2>1. AdminOK' /\ UNCHANGED << netdVars, kernelVars, faults >>
    BY <1>1, <1>7, <1>12 DEF Activate, Deactivate, AdminOK
  <2>2. AppOK(app')
    BY <1>1, <1>12, PassBegins DEF Activate, Deactivate
  <2>3. QED
    BY <1>2, <1>3, <1>5, <1>6, <2>1, <2>2
<1>13. ASSUME Reconcile PROVE LifecycleInv'
  <2>1. UNCHANGED << adminVars, netdVars, kernelVars, faults >>
    BY <1>13 DEF Reconcile
  <2>2. PICK l \in Lines : TRUE
    BY <1>13 DEF Reconcile, ToStop, ToRestart, ToStart
  <2>3. ToStop \in SUBSET Lines /\ ToRestart \in SUBSET Lines /\ ToStart \in SUBSET Lines
    BY DEF ToStop, ToRestart, ToStart
  <2>4. AppOK(app')
    BY <1>1, <1>13, <2>2, <2>3, PassBegins DEF Reconcile
  <2>5. QED
    BY <1>2, <1>3, <1>4, <1>5, <1>6, <2>1, <2>4
<1>14. ASSUME NEW l \in Lines, CallStop(l) PROVE LifecycleInv'
  <2>1. UNCHANGED << adminVars, netd, current, kernelVars, faults >>
    BY <1>14 DEF CallStop
  <2>2. CASE Stoppable(l)
    <3>1. current[l] \in Slots
      BY <1>1, <2>2 DEF Stoppable, Known, NetdOK
    <3>2. Kept
      BY <1>8, <1>10, <1>14, <2>1, <2>2, <3>1, Stops DEF CallStop, Instance
    <3>3. AppOK(app')
      BY <1>1, <1>14, <2>2, <3>1, PassCalls DEF CallStop
    <3>4. QED
      BY <1>2, <1>3, <1>4, <1>6, <2>1, <3>2, <3>3
  <2>3. CASE ~Stoppable(l)
    <3>1. AppOK(app') /\ instances' = instances
      BY <1>1, <1>14, <2>3, PassGoesOn DEF CallStop
    <3>2. QED
      BY <1>2, <1>3, <1>4, <1>5, <1>6, <2>1, <3>1
  <2>4. QED
    BY <2>2, <2>3
<1>15. app.line # None => app.line \in Lines
  BY <1>1 DEF AppOK, AppType
<1>16. ASSUME StopReturns \/ StopTimesOut \/ StartAnswers \/ PassEnds PROVE LifecycleInv'
  <2>1. UNCHANGED << adminVars, netdVars, kernelVars, faults >>
    BY <1>16 DEF StopReturns, StopTimesOut, StartAnswers, PassEnds
  <2>2. app.pc \in {"stop", "start"} => app.line \in Lines
    BY <1>1, <1>15 DEF AppOK
  <2>3. AppOK(app')
    BY <1>1, <1>16, <2>2, IdleIsTyped, PassGoesOn DEF StopReturns, StopTimesOut,
       StartAnswers, PassEnds
  <2>4. QED
    BY <1>2, <1>3, <1>4, <1>5, <1>6, <2>1, <2>3
<1>17. ASSUME CallLost PROVE LifecycleInv'
  <2>1. UNCHANGED << adminVars, netd, current, kernelVars >> /\ Fault /\ app' = Idle
    BY <1>17 DEF CallLost
  <2>2. Kept
    <3>1. CASE app.pc = "start"
      <4>1. app.line \in Lines /\ app.slot \in Slots
        BY <1>1, <1>15, <3>1 DEF AppOK, AppType
      <4>2. QED
        BY <1>8, <1>10, <1>17, <2>1, <3>1, <4>1, Cancels DEF CallLost
    <3>2. CASE app.pc # "start"
      BY <1>5, <1>17, <2>1, <3>2 DEF CallLost
    <3>3. QED
      BY <3>1, <3>2
  <2>3. QED
    BY <1>2, <1>3, <1>4, <1>6, <2>1, <2>2, IdleIsTyped
<1>18. ASSUME NEW l \in Lines, CallStart(l) PROVE LifecycleInv'
  BY <1>18, StartReplaces DEF LifecycleInv
<1>19. ASSUME NEW l \in Lines, CleanupStillFails(l) PROVE LifecycleInv'
  <2>1. UNCHANGED << adminVars, netdVars, kernelVars >> /\ Fault /\ app' = Idle
    BY <1>19 DEF CleanupStillFails
  <2>2. QED
    BY <1>2, <1>3, <1>4, <1>5, <1>6, <2>1, IdleIsTyped
<1>20. ASSUME NEW l \in Lines, NEW s \in Slots, StartSteps(l, s) \/ StartFails(l, s)
                                                 \/ StartTimesOut(l, s)
       PROVE  LifecycleInv'
  <2> DEFINE i == instances[l][s]
  <2>1. i \in InstanceType /\ Coherent(i) /\ (i.done => i.start \notin {"setup", "spawn"})
    BY <1>8 DEF Coherent
  <2>2. UNCHANGED << adminVars, app, netd, current >> /\ (Fault \/ UNCHANGED faults)
    BY <1>20 DEF StartSteps, SetupNetwork, DiscardDirectory, SpawnWorker, StartReturns,
       StartCancelled, StartStops, StartFails, StartTimesOut
  <2>3. i.egress \in Egresses \cup {None}
    BY <2>1 DEF InstanceType
  <2>4. KernelOK'
    BY <1>1, <1>20, <2>3 DEF StartSteps, SetupNetwork, DiscardDirectory, SpawnWorker,
       StartReturns, StartCancelled, StartStops, StartFails, StartTimesOut, KernelOK
  <2>5. CASE SetupNetwork(l, s)
    <3>1. ASSUME network[l] = None PROVE Kept
      <4>1. /\ network' = [network EXCEPT ![l] = i.egress]
            /\ Update(l, s, [i EXCEPT !.start = "spawn"])
            /\ i.start = "setup"
        BY <2>5, <3>1 DEF SetupNetwork
      <4>2. network'[l] = i.egress /\ \A k \in Lines \ {l} : network'[k] = network[k]
        BY <1>1, <4>1 DEF KernelOK
      <4>3. QED
        BY <2>1, <2>2, <4>1, <4>2, SetsUp, OneChanges DEF Becomes
    <3>2. ASSUME network[l] # None PROVE Kept
      BY <1>10, <2>1, <2>2, <2>5, <3>2, FailsToStart DEF SetupNetwork
    <3>3. Kept
      BY <3>1, <3>2
    <3>4. QED
      BY <1>1, <1>2, <1>3, <1>4, <2>2, <2>4, <3>3
  <2>6. CASE StartFails(l, s)
    <3>1. PICK removed \in BOOLEAN :
            /\ network' = [network EXCEPT ![l] = IF removed THEN None ELSE i.egress]
            /\ Update(l, s, FailedStart(i, removed))
      BY <2>6 DEF StartFails
    <3>2. i.start \in {"setup", "spawn"}
      BY <2>6 DEF StartFails
    <3>3. \A k \in Lines \ {l} : network'[k] = network[k]
      BY <1>1, <3>1 DEF KernelOK
    <3>4. Becomes(i, FailedStart(i, removed)) /\ ~HasNetwork(FailedStart(i, removed))
      BY <2>1, <3>2, FailsToStart
    <3>5. Kept
      BY <2>1, <2>2, <3>1, <3>2, <3>3, <3>4, OneChanges
    <3>6. QED
      BY <1>1, <1>2, <1>3, <1>4, <2>2, <2>4, <3>5
  <2>7. CASE SpawnWorker(l, s)
    <3>1. /\ Update(l, s, [i EXCEPT !.command = TRUE, !.worker = "alive",
                                    !.monitor = "reading", !.start = "waiting"])
          /\ i.start = "spawn" /\ network' = network
      BY <2>7 DEF SpawnWorker
    <3>2. HasNetwork(i)
      BY <3>1 DEF HasNetwork
    <3>3. Kept
      BY <1>10, <2>1, <2>2, <3>1, <3>2, Spawns
    <3>4. QED
      BY <1>1, <1>2, <1>3, <1>4, <2>2, <2>4, <3>3
  <2>8. CASE \/ DiscardDirectory(l, s) \/ StartReturns(l, s) \/ StartCancelled(l, s)
             \/ StartTimesOut(l, s)
    <3>1. PICK next \in {"givenup", "failed", "started"} :
            Update(l, s, [i EXCEPT !.start = next])
      BY <2>8 DEF DiscardDirectory, StartReturns, StartCancelled, StartTimesOut
    <3>2. i.start \in {"discard", "waiting"} /\ network' = network
      BY <2>8 DEF DiscardDirectory, StartReturns, StartCancelled, StartTimesOut
    <3>3. Kept
      BY <1>10, <2>1, <2>2, <3>1, <3>2, StartProceeds
    <3>4. QED
      BY <1>1, <1>2, <1>3, <1>4, <2>2, <2>4, <3>3
  <2>9. CASE StartStops(l, s)
    BY <1>1, <1>2, <1>3, <1>4, <2>2, <2>4, <2>9, GivenUpStops
  <2>10. QED
    BY <1>20, <2>5, <2>6, <2>7, <2>8, <2>9 DEF StartSteps
<1>21. ASSUME NEW l \in Lines, NEW s \in Slots,
              \/ MonitorSteps(l, s) \/ WorkerDies(l, s) \/ MonitorCannotClean(l, s)
              \/ \E online \in BOOLEAN : ReadEvent(l, s, online)
       PROVE  LifecycleInv'
  <2> DEFINE i == instances[l][s]
  <2>1. i \in InstanceType /\ Coherent(i) /\ (i.monitor = "reading" => ~i.done)
    BY <1>8 DEF Coherent
  <2>2. UNCHANGED << adminVars, app, netd, current >> /\ (Fault \/ UNCHANGED faults)
    BY <1>21 DEF MonitorSteps, WorkerStops, MonitorCleans, MonitorReports, WorkerDies,
       MonitorCannotClean, ReadEvent
  <2>3. KernelOK'
    BY <1>1, <1>21 DEF MonitorSteps, WorkerStops, MonitorCleans, MonitorReports, WorkerDies,
       MonitorCannotClean, ReadEvent, KernelOK
  <2>4. CASE \E online \in BOOLEAN : ReadEvent(l, s, online)
    <3>1. PICK online \in BOOLEAN :
            Update(l, s, [i EXCEPT !.state = IF online THEN "online" ELSE "working",
                                   !.online = online, !.heard = TRUE])
      BY <2>4 DEF ReadEvent
    <3>2. i.monitor = "reading" /\ network' = network
      BY <2>4 DEF ReadEvent
    <3>3. HasNetwork(i)
      BY <3>2 DEF HasNetwork
    <3>4. Kept
      BY <1>10, <2>1, <2>2, <3>1, <3>2, <3>3, Reads
    <3>5. QED
      BY <1>1, <1>2, <1>3, <1>4, <2>2, <2>3, <3>4
  <2>5. CASE WorkerStops(l, s) \/ WorkerDies(l, s)
    <3>1. Update(l, s, [i EXCEPT !.worker = "gone"]) /\ Alive(i) /\ network' = network
      BY <2>5 DEF WorkerStops, WorkerDies, Alive
    <3>2. Kept
      BY <1>10, <2>1, <2>2, <3>1, Goes
    <3>3. QED
      BY <1>1, <1>2, <1>3, <1>4, <2>2, <2>3, <3>2
  <2>6. CASE MonitorCleans(l, s) \/ MonitorCannotClean(l, s)
    <3>1. PICK how \in {"cleaned", "uncleaned"} : Update(l, s, [i EXCEPT !.monitor = how])
      BY <2>6 DEF MonitorCleans, MonitorCannotClean
    <3>2. i.monitor = "reading" /\ i.worker = "gone"
      BY <2>6 DEF MonitorCleans, MonitorCannotClean, MonitorMay
    <3>3. \A k \in Lines \ {l} : network'[k] = network[k]
      BY <1>1, <2>6 DEF MonitorCleans, MonitorCannotClean, KernelOK
    <3>4. Becomes(i, [i EXCEPT !.monitor = how]) /\ ~HasNetwork([i EXCEPT !.monitor = how])
      BY <2>1, <3>2, Cleans
    <3>5. Kept
      BY <2>1, <2>2, <3>1, <3>2, <3>3, <3>4, OneChanges
    <3>6. QED
      BY <1>1, <1>2, <1>3, <1>4, <2>2, <2>3, <3>5
  <2>7. CASE MonitorReports(l, s)
    <3>1. /\ Update(l, s, [FinalStatus(i) EXCEPT !.monitor = "none", !.heard = TRUE,
                                                 !.done = TRUE])
          /\ i.monitor \in {"cleaned", "uncleaned"} /\ network' = network
      BY <2>7 DEF MonitorReports
    <3>2. Kept
      BY <1>10, <2>1, <2>2, <3>1, ReportsEnd
    <3>3. QED
      BY <1>1, <1>2, <1>3, <1>4, <2>2, <2>3, <3>2
  <2>8. QED
    BY <1>21, <2>4, <2>5, <2>6, <2>7 DEF MonitorSteps
<1>22. ASSUME NEW torn, Crash(torn) PROVE LifecycleInv'
  <2>1. /\ UNCHANGED << adminVars, network >> /\ Fault /\ app' = Idle
        /\ netd' = FALSE /\ current' = [l \in Lines |-> 0]
        /\ instances' = [l \in Lines |-> [s \in Slots |-> NoInstance]]
        /\ manifest' = [l \in Lines |-> IF l \in torn THEN Torn ELSE manifest[l]]
    BY <1>22 DEF Crash
  <2>2. NetdOK' /\ InstancesAreCoherent'
    BY <2>1, NothingIsCoherent DEF NetdOK, InstancesAreCoherent
  <2>3. KernelOK'
    BY <1>1, <2>1 DEF KernelOK
  <2>4. QED
    BY <1>2, <1>3, <1>4, <2>1, <2>2, <2>3, IdleIsTyped
<1>23. ASSUME Restart PROVE LifecycleInv'
  <2>1. /\ UNCHANGED << adminVars, app, current, instances, faults >>
        /\ ~netd /\ netd' = TRUE
        /\ network' = [l \in Lines |-> IF manifest[l] = None THEN network[l] ELSE None]
        /\ manifest' = [l \in Lines |-> None]
    BY <1>23 DEF Restart
  <2>2. \A l \in Lines, s \in Slots : instances[l][s].done /\ ~HasNetwork(instances[l][s])
    BY <1>1, <1>8, <2>1 DEF InstancesAreCoherent, Coherent, HasNetwork, Slots
  <2>3. NetdOK' /\ InstancesAreCoherent'
    BY <1>1, <1>8, <2>1, <2>2 DEF NetdOK, InstancesAreCoherent
  <2>4. KernelOK'
    BY <1>1, <2>1 DEF KernelOK
  <2>5. QED
    BY <1>1, <1>2, <1>3, <1>4, <2>1, <2>3, <2>4
<1>24. ASSUME UNCHANGED vars PROVE LifecycleInv'
  <2>1. UNCHANGED << adminVars, app, netdVars, kernelVars, faults >>
    BY <1>24 DEF vars
  <2>2. QED
    BY <1>1, <1>2, <1>3, <1>4, <1>5, <1>6, <2>1
<1>25. QED
  BY <1>11, <1>12, <1>13, <1>14, <1>16, <1>17, <1>18, <1>19, <1>20, <1>21, <1>22, <1>23,
     <1>24 DEF Next

LEMMA LifecycleInvariant == Spec => []LifecycleInv
BY LifecycleInit, LifecycleNext, PTL DEF Spec

-----------------------------------------------------------------------------
(* The theorems.                                                           *)

(* Every variable keeps its type, whatever is started, stopped, lost or    *)
(* crashes.                                                                *)
THEOREM LifecycleTypes == Spec => []TypeOK
<1>1. LifecycleInv => TypeOK
  BY DEF LifecycleInv
<1>2. QED
  BY <1>1, LifecycleInvariant, PTL

(* A worker that lives belongs to the Line's present instance.             *)
LEMMA OnlyPresentLives ==
  ASSUME LifecycleInv, NEW l \in Lines, NEW s \in Slots, Alive(instances[l][s])
  PROVE  s = current[l] /\ HasNetwork(instances[l][s])
BY DEF LifecycleInv, InstancesAreCoherent, Coherent, HasNetwork

(* A Line never has two workers, whatever starts, stops, cancelled         *)
(* requests and crashes follow each other (Local.Start, Local.Stop).       *)
THEOREM OneWorkerOnly == Spec => []OneWorker
<1>1. LifecycleInv => OneWorker
  <2> SUFFICES ASSUME LifecycleInv, NEW l \in Lines
               PROVE  Cardinality({s \in Slots : Alive(instances[l][s])}) <= 1
    BY DEF OneWorker
  <2> DEFINE living == {s \in Slots : Alive(instances[l][s])}
  <2>1. living \in SUBSET {current[l]}
    BY OnlyPresentLives
  <2>2. IsFiniteSet({current[l]}) /\ Cardinality({current[l]}) = 1
    BY FS_Singleton
  <2>3. Cardinality(living) <= Cardinality({current[l]})
    BY <2>1, <2>2, FS_Subset
  <2>4. QED
    BY <2>2, <2>3
<1>2. QED
  BY <1>1, LifecycleInvariant, PTL

(* A worker runs in the network that was set up for it: the clean-up of an *)
(* earlier instance never removes it, and no other egress replaces it      *)
(* (Local.Start, monitor).                                                 *)
THEOREM NetworkIsKept == Spec => []WorkerKeepsItsNetwork
<1>1. LifecycleInv => WorkerKeepsItsNetwork
  BY OnlyPresentLives DEF WorkerKeepsItsNetwork, LifecycleInv, InstancesAreCoherent
<1>2. QED
  BY <1>1, LifecycleInvariant, PTL

(* A Line messages are given to (Available) has a worker that was started  *)
(* and whose end, if it has come, its monitor has not reported: it may be  *)
(* signalled or dead.  Until it is collected it has the network that was   *)
(* set up for it, and the Line has no other worker.                        *)
THEOREM AvailableHasWorker == Spec => []AvailableNeedsWorker
<1>1. LifecycleInv => AvailableNeedsWorker
  <2> SUFFICES ASSUME LifecycleInv, NEW l \in Lines, Available(l)
      PROVE  /\ Instance(l).worker # "none" /\ Instance(l).monitor # "none"
             /\ ~Instance(l).done
             /\ Instance(l).monitor = "reading" => network[l] = Instance(l).egress
             /\ \A s \in Slots \ {current[l]} : ~Alive(instances[l][s])
    BY DEF AvailableNeedsWorker
  <2>1. current[l] \in Slots
    BY DEF Available, Known, LifecycleInv, TypeOK
  <2>2. /\ Coherent(Instance(l))
        /\ HasNetwork(Instance(l)) => network[l] = Instance(l).egress
    BY <2>1 DEF Instance, LifecycleInv, InstancesAreCoherent
  <2>3. \A s \in Slots \ {current[l]} : ~Alive(instances[l][s])
    BY OnlyPresentLives
  <2>4. QED
    BY <2>2, <2>3 DEF Available, Coherent, HasNetwork
<1>2. QED
  BY <1>1, LifecycleInvariant, PTL

-----------------------------------------------------------------------------
(* MihomoRuntime.                                                          *)

(* RuntimeManager's call, by what it still has to do.                       *)
MaybeConfiguration == Configurations \cup {Nothing}
AtWork == {"select", "write", "stop", "start", "record", "restore"}
Starting == [at : AtWork, op : {"Start", "Restart"}, target : Subscriptions, ran : BOOLEAN,
             old : MaybeConfiguration]
Restoring == [at : {"record"}, op : {"restore"}, target : Subscriptions,
              old : Configurations]
Managers == [at : {"idle"}, result : {"none", "failed"}, old : MaybeConfiguration]
              \cup [at : {"stop"}, op : {"Stop"}, old : {Nothing}] \cup Starting \cup Restoring
Requests ==
  {NoRequest} \cup [at : {"select", "write", "build", "replace", "delete", "remove", "disable"},
                    of : Subscriptions]

(* Between the stop and the record there is no process but the one that    *)
(* is about to be recorded.                                                *)
ManagerFits ==
  /\ manager.at \in {"start", "restore", "record"} \/
       (manager.at \in {"select", "write"} /\ ~manager.ran) => selection.running = Nothing
  /\ manager.at \in {"start", "restore"} \/
       (manager.at \in {"select", "write"} /\ ~manager.ran) => process = Nothing
  /\ manager.at = "record" => process = Nothing \/ process.of = manager.target

(* What runs works, as does what ran, and their files are there as long as *)
(* nothing disturbed the call.                                             *)
Works(c) == c # Nothing => c.version \notin broken /\ c.version <= versions
Kept(c) == c # Nothing => c \in files

ConfigurationsFit ==
  /\ Works(process)
  /\ \A s \in Subscriptions :
       /\ artifact[s] <= versions
       /\ artifact[s] # 0 => [of |-> s, version |-> artifact[s]] \in files
  /\ manager.at = "select" => manager.old = Nothing
  /\ manager.at \in {"write", "stop", "start", "restore", "record"} /\ manager.op # "Stop"
       => Works(manager.old)
  /\ ~disturbed /\ manager.at # "idle" => Kept(process)
  /\ ~disturbed /\ manager.at \in {"write", "stop", "start", "restore", "record"}
       /\ manager.op # "Stop" => Kept(manager.old)
  /\ manager.at = "restore" => manager.op = "Restart" /\ manager.old # Nothing
  /\ ~disturbed /\ manager.at = "record" /\ manager.op = "restore" => process = manager.old

RuntimeInv ==
  /\ MihomoTypeOK /\ process \in MaybeConfiguration
  /\ manager \in Managers /\ request \in Requests
  /\ RecordNamesTheProcess /\ RestartKeepsService
  /\ ManagerFits /\ ConfigurationsFit

LEMMA Rests ==
  ASSUME NEW r \in {"none", "failed"}, NEW c \in MaybeConfiguration
  PROVE  Resting(r, c) \in Managers
BY DEF Resting, Managers

LEMMA NothingRests == Resting("none", Nothing) \in Managers
BY Rests DEF MaybeConfiguration

LEMMA Moves ==
  ASSUME NEW b \in Starting, NEW p \in AtWork, NEW c \in MaybeConfiguration
  PROVE  [b EXCEPT !.at = p] \in Starting /\ [b EXCEPT !.old = c, !.at = p] \in Starting
BY DEF Starting

(* Where the manager stands says which call it is in.                      *)
LEMMA WhichCall ==
  ASSUME manager \in Managers
  PROVE  /\ manager.at \in {"select", "write", "start", "restore"} => manager \in Starting
         /\ manager.at = "stop" => manager.op = "Stop" \/ manager \in Starting
         /\ manager.at = "record" => manager \in Starting \cup Restoring
         /\ manager \in Starting => /\ manager.op \in {"Start", "Restart"}
                                   /\ manager.old \in MaybeConfiguration
                                   /\ manager.target \in Subscriptions
         /\ manager \in Restoring => /\ manager.op = "restore"
                                    /\ manager.old \in Configurations
                                    /\ manager.target \in Subscriptions
BY DEF Managers, Starting, Restoring

LEMMA RuntimeTyped == RuntimeInv /\ [MihomoNext]_mihomoVars => MihomoTypeOK'
<1> SUFFICES ASSUME RuntimeInv, [MihomoNext]_mihomoVars PROVE MihomoTypeOK'
  OBVIOUS
<1> USE DEF RuntimeInv, MihomoTypeOK, ConfigurationsFit
<1>1. ASSUME \E op \in {"Status", "Start", "Stop", "Restart"} : Begin(op) PROVE MihomoTypeOK'
  BY <1>1, MihomoAssumption DEF Begin, Healed, Resting, catalogue, RunningOf, MihomoAssumption
<1>2. ASSUME ManagerSelects PROVE MihomoTypeOK'
  BY <1>2, MihomoAssumption DEF ManagerSelects, Selectable, Resting, catalogue,
         MihomoAssumption, Managers, Starting, Restoring, AtWork
<1>3. ASSUME ManagerWrites PROVE MihomoTypeOK'
  BY <1>3, MihomoAssumption DEF ManagerWrites, catalogue, MihomoAssumption, Managers, Starting,
         Restoring, AtWork
<1>4. ASSUME ManagerStops PROVE MihomoTypeOK'
  BY <1>4, MihomoAssumption DEF ManagerStops, Resting, catalogue, MihomoAssumption, Managers,
         Starting, Restoring, AtWork
<1>5. ASSUME ManagerStarts PROVE MihomoTypeOK'
  BY <1>5, MihomoAssumption DEF ManagerStarts, Launchable, StartFailed, catalogue, Resting,
         MihomoAssumption, Managers, Starting, Restoring, AtWork
<1>6. ASSUME ManagerRestores PROVE MihomoTypeOK'
  BY <1>6, MihomoAssumption DEF ManagerRestores, OldConfig, Resting, catalogue,
         MihomoAssumption, Managers, Starting, Restoring, AtWork
<1>7. ASSUME ManagerRecords PROVE MihomoTypeOK'
  BY <1>7, MihomoAssumption DEF ManagerRecords, Resting, catalogue, MihomoAssumption, Managers,
         Starting, Restoring, AtWork
<1>8. ASSUME ManagerInterrupted PROVE MihomoTypeOK'
  BY <1>8, MihomoAssumption DEF ManagerInterrupted, Resting, Launchable, catalogue,
         MihomoAssumption, Managers, Starting, Restoring, AtWork
<1>9. ASSUME MihomoDies PROVE MihomoTypeOK'
  BY <1>9, MihomoAssumption DEF MihomoDies, catalogue, MihomoAssumption, Managers, Starting,
         Restoring, AtWork
<1>10. ASSUME \E s \in Subscriptions, where \in {"build", "select", "delete", "disable"} : Ask(where, s) PROVE MihomoTypeOK'
  BY <1>10, MihomoAssumption DEF Ask, NoRequest, catalogue, managerVars, MihomoAssumption
<1>11. ASSUME RefreshBuilds PROVE MihomoTypeOK'
  BY <1>11, MihomoAssumption DEF RefreshBuilds, Continue, managerVars, NoRequest,
         MihomoAssumption, Requests
<1>12. ASSUME RefreshReplaces PROVE MihomoTypeOK'
  BY <1>12, MihomoAssumption DEF RefreshReplaces, Continue, catalogue, managerVars, NoRequest,
         MihomoAssumption, Requests
<1>13. ASSUME RequestSelects PROVE MihomoTypeOK'
  BY <1>13, MihomoAssumption DEF RequestSelects, Continue, Selectable, catalogue, managerVars,
         NoRequest, MihomoAssumption, Requests
<1>14. ASSUME RequestWrites PROVE MihomoTypeOK'
  BY <1>14, MihomoAssumption DEF RequestWrites, Continue, catalogue, managerVars, NoRequest,
         MihomoAssumption, Requests
<1>15. ASSUME DeleteRow PROVE MihomoTypeOK'
  BY <1>15, MihomoAssumption DEF DeleteRow, Continue, managerVars, NoRequest, MihomoAssumption,
         Requests
<1>16. ASSUME DeleteArtifacts PROVE MihomoTypeOK'
  BY <1>16, MihomoAssumption DEF DeleteArtifacts, Continue, managerVars, NoRequest,
         MihomoAssumption, Requests
<1>17. ASSUME Disable PROVE MihomoTypeOK'
  BY <1>17, MihomoAssumption DEF Disable, Continue, managerVars, NoRequest, MihomoAssumption,
         Requests
<1>18. ASSUME UNCHANGED mihomoVars PROVE MihomoTypeOK'
  BY <1>18, MihomoAssumption DEF mihomoVars
<1>19. QED
  BY <1>1, <1>2, <1>3, <1>4, <1>5, <1>6, <1>7, <1>8, <1>9, <1>10, <1>11, <1>12, <1>13, <1>14,
     <1>15, <1>16, <1>17, <1>18 DEF MihomoNext

LEMMA ProcessTyped == RuntimeInv /\ [MihomoNext]_mihomoVars => (process \in MaybeConfiguration)'
<1> SUFFICES ASSUME RuntimeInv, [MihomoNext]_mihomoVars PROVE (process \in MaybeConfiguration)'
  OBVIOUS
<1> USE DEF RuntimeInv, MihomoTypeOK, MaybeConfiguration, Configurations, Managers, Starting,
       Restoring, AtWork
<1>1. ASSUME \E op \in {"Status", "Start", "Stop", "Restart"} : Begin(op) PROVE (process \in MaybeConfiguration)'
  BY <1>1 DEF Begin, Healed, Resting, catalogue, RunningOf
<1>2. ASSUME ManagerSelects PROVE (process \in MaybeConfiguration)'
  BY <1>2 DEF ManagerSelects, Selectable, Resting, catalogue
<1>3. ASSUME ManagerWrites PROVE (process \in MaybeConfiguration)'
  BY <1>3 DEF ManagerWrites, catalogue
<1>4. ASSUME ManagerStops PROVE (process \in MaybeConfiguration)'
  BY <1>4 DEF ManagerStops, Resting, catalogue
<1>5. ASSUME ManagerStarts PROVE (process \in MaybeConfiguration)'
  BY <1>5 DEF ManagerStarts, Launchable, StartFailed, catalogue, Resting
<1>6. ASSUME ManagerRestores PROVE (process \in MaybeConfiguration)'
  BY <1>6 DEF ManagerRestores, OldConfig, Resting, catalogue
<1>7. ASSUME ManagerRecords PROVE (process \in MaybeConfiguration)'
  BY <1>7 DEF ManagerRecords, Resting, catalogue
<1>8. ASSUME ManagerInterrupted PROVE (process \in MaybeConfiguration)'
  BY <1>8 DEF ManagerInterrupted, Resting, Launchable, catalogue
<1>9. ASSUME MihomoDies PROVE (process \in MaybeConfiguration)'
  BY <1>9 DEF MihomoDies, catalogue
<1>10. ASSUME \E s \in Subscriptions, where \in {"build", "select", "delete", "disable"} : Ask(where, s) PROVE (process \in MaybeConfiguration)'
  BY <1>10 DEF Ask, NoRequest, catalogue, managerVars
<1>11. ASSUME RefreshBuilds PROVE (process \in MaybeConfiguration)'
  BY <1>11 DEF RefreshBuilds, Continue, managerVars, NoRequest
<1>12. ASSUME RefreshReplaces PROVE (process \in MaybeConfiguration)'
  BY <1>12 DEF RefreshReplaces, Continue, catalogue, managerVars, NoRequest
<1>13. ASSUME RequestSelects PROVE (process \in MaybeConfiguration)'
  BY <1>13 DEF RequestSelects, Continue, Selectable, catalogue, managerVars, NoRequest
<1>14. ASSUME RequestWrites PROVE (process \in MaybeConfiguration)'
  BY <1>14 DEF RequestWrites, Continue, catalogue, managerVars, NoRequest
<1>15. ASSUME DeleteRow PROVE (process \in MaybeConfiguration)'
  BY <1>15 DEF DeleteRow, Continue, managerVars, NoRequest
<1>16. ASSUME DeleteArtifacts PROVE (process \in MaybeConfiguration)'
  BY <1>16 DEF DeleteArtifacts, Continue, managerVars, NoRequest
<1>17. ASSUME Disable PROVE (process \in MaybeConfiguration)'
  BY <1>17 DEF Disable, Continue, managerVars, NoRequest
<1>18. ASSUME UNCHANGED mihomoVars PROVE (process \in MaybeConfiguration)'
  BY <1>18 DEF mihomoVars
<1>19. QED
  BY <1>1, <1>2, <1>3, <1>4, <1>5, <1>6, <1>7, <1>8, <1>9, <1>10, <1>11, <1>12, <1>13, <1>14,
     <1>15, <1>16, <1>17, <1>18 DEF MihomoNext

LEMMA ManagerTyped == RuntimeInv /\ [MihomoNext]_mihomoVars => (manager \in Managers)'
<1> SUFFICES ASSUME RuntimeInv, [MihomoNext]_mihomoVars PROVE (manager \in Managers)'
  OBVIOUS
<1> USE DEF RuntimeInv
<1>1. ASSUME \E op \in {"Status", "Start", "Stop", "Restart"} : Begin(op) PROVE (manager \in Managers)'
  <2>1. PICK op \in {"Status", "Start", "Stop", "Restart"} : Begin(op)
    BY <1>1
  <2>2. selection.selected # Nothing => selection.selected \in Subscriptions
    BY DEF MihomoTypeOK
  <2>3. CASE manager' = Resting("none", Nothing)
    BY <2>3, NothingRests
  <2>4. CASE manager' = [at |-> "stop", op |-> op, old |-> Nothing] /\ op = "Stop"
    BY <2>4 DEF Managers
  <2>5. CASE /\ op \in {"Start", "Restart"} /\ selection.selected # Nothing
             /\ manager' = [at |-> "select", op |-> op, target |-> selection.selected,
                            ran |-> process # Nothing, old |-> Nothing]
    <3>1. (process # Nothing) \in BOOLEAN
      OBVIOUS
    <3>2. manager' \in Starting
      BY <2>2, <2>5, <3>1 DEF Starting, AtWork, MaybeConfiguration
    <3>3. QED
      BY <3>2 DEF Managers
  <2>6. QED
    BY <2>1, <2>3, <2>4, <2>5 DEF Begin
<1>2. ASSUME ManagerSelects PROVE (manager \in Managers)'
  <2>1. manager \in Starting
    BY <1>2, WhichCall DEF ManagerSelects
  <2>2. [manager EXCEPT !.at = "write"] \in Starting
    BY <2>1, Moves DEF AtWork, MaybeConfiguration
  <2>3. QED
    BY <1>2, <2>2, NothingRests DEF ManagerSelects, Managers
<1>3. ASSUME ManagerWrites PROVE (manager \in Managers)'
  <2>1. manager \in Starting
    BY <1>3, WhichCall DEF ManagerWrites
  <2>2. manager' \in Starting
    BY <1>3, <2>1, Moves DEF ManagerWrites, AtWork
  <2>3. QED
    BY <2>2 DEF Managers
<1>4. ASSUME ManagerStops PROVE (manager \in Managers)'
  <2>1. manager.op = "Stop" \/ manager \in Starting
    BY <1>4, WhichCall DEF ManagerStops
  <2>2. manager.op # "Stop" => [manager EXCEPT !.at = "start"] \in Starting
    BY <2>1, Moves DEF AtWork, MaybeConfiguration
  <2>3. QED
    BY <1>4, <2>2, NothingRests DEF ManagerStops, Managers
<1>5. ASSUME ManagerStarts PROVE (manager \in Managers)'
  <2>1. manager \in Starting
    BY <1>5, WhichCall DEF ManagerStarts
  <2>2. /\ [manager EXCEPT !.at = "record"] \in Starting
        /\ [manager EXCEPT !.at = "restore"] \in Starting
    BY <2>1, Moves DEF AtWork, MaybeConfiguration
  <2>3. QED
    BY <1>5, <2>2, NothingRests DEF ManagerStarts, StartFailed, Managers
<1>6. ASSUME ManagerRestores PROVE (manager \in Managers)'
  <2>1. manager \in Starting /\ manager.old \in Configurations
    BY <1>6, WhichCall DEF ManagerRestores, ConfigurationsFit, MaybeConfiguration
  <2>2. Resting("failed", manager.old) \in Managers
    BY <2>1, Rests DEF MaybeConfiguration
  <2>3. [at |-> "record", op |-> "restore", target |-> manager.old.of, old |-> manager.old]
          \in Restoring
    BY <2>1 DEF Restoring, Configurations
  <2>4. QED
    BY <1>6, <2>2, <2>3 DEF ManagerRestores, OldConfig, Managers
<1>7. ASSUME ManagerRecords PROVE (manager \in Managers)'
  <2>1. manager.op = "restore" => manager.old \in Configurations
    BY <1>7, WhichCall DEF ManagerRecords
  <2>2. manager.op = "restore" => Resting("failed", manager.old) \in Managers
    BY <2>1, Rests DEF MaybeConfiguration
  <2>3. QED
    BY <1>7, <2>2, NothingRests DEF ManagerRecords
<1>8. ASSUME ManagerInterrupted PROVE (manager \in Managers)'
  BY <1>8, NothingRests DEF ManagerInterrupted
<1>9. ASSUME MihomoDies PROVE (manager \in Managers)'
  BY <1>9 DEF MihomoDies, catalogue
<1>10. ASSUME \E s \in Subscriptions, where \in {"build", "select", "delete", "disable"} : Ask(where, s) PROVE (manager \in Managers)'
  BY <1>10 DEF Ask, NoRequest, catalogue, managerVars
<1>11. ASSUME RefreshBuilds PROVE (manager \in Managers)'
  BY <1>11 DEF RefreshBuilds, Continue, managerVars, NoRequest
<1>12. ASSUME RefreshReplaces PROVE (manager \in Managers)'
  BY <1>12 DEF RefreshReplaces, Continue, catalogue, managerVars, NoRequest
<1>13. ASSUME RequestSelects PROVE (manager \in Managers)'
  BY <1>13 DEF RequestSelects, Continue, Selectable, catalogue, managerVars, NoRequest
<1>14. ASSUME RequestWrites PROVE (manager \in Managers)'
  BY <1>14 DEF RequestWrites, Continue, catalogue, managerVars, NoRequest
<1>15. ASSUME DeleteRow PROVE (manager \in Managers)'
  BY <1>15 DEF DeleteRow, Continue, managerVars, NoRequest
<1>16. ASSUME DeleteArtifacts PROVE (manager \in Managers)'
  BY <1>16 DEF DeleteArtifacts, Continue, managerVars, NoRequest
<1>17. ASSUME Disable PROVE (manager \in Managers)'
  BY <1>17 DEF Disable, Continue, managerVars, NoRequest
<1>18. ASSUME UNCHANGED mihomoVars PROVE (manager \in Managers)'
  BY <1>18 DEF mihomoVars
<1>19. QED
  BY <1>1, <1>2, <1>3, <1>4, <1>5, <1>6, <1>7, <1>8, <1>9, <1>10, <1>11, <1>12, <1>13, <1>14,
     <1>15, <1>16, <1>17, <1>18 DEF MihomoNext

LEMMA RequestTyped == RuntimeInv /\ [MihomoNext]_mihomoVars => (request \in Requests)'
<1> SUFFICES ASSUME RuntimeInv, [MihomoNext]_mihomoVars PROVE (request \in Requests)'
  OBVIOUS
<1> USE DEF RuntimeInv, MihomoTypeOK, Requests
<1>1. ASSUME \E op \in {"Status", "Start", "Stop", "Restart"} : Begin(op) PROVE (request \in Requests)'
  BY <1>1 DEF Begin, Healed, Resting, catalogue, RunningOf
<1>2. ASSUME ManagerSelects PROVE (request \in Requests)'
  BY <1>2 DEF ManagerSelects, Selectable, Resting, catalogue
<1>3. ASSUME ManagerWrites PROVE (request \in Requests)'
  BY <1>3 DEF ManagerWrites, catalogue
<1>4. ASSUME ManagerStops PROVE (request \in Requests)'
  BY <1>4 DEF ManagerStops, Resting, catalogue
<1>5. ASSUME ManagerStarts PROVE (request \in Requests)'
  BY <1>5 DEF ManagerStarts, Launchable, StartFailed, catalogue, Resting
<1>6. ASSUME ManagerRestores PROVE (request \in Requests)'
  BY <1>6 DEF ManagerRestores, OldConfig, Resting, catalogue
<1>7. ASSUME ManagerRecords PROVE (request \in Requests)'
  BY <1>7 DEF ManagerRecords, Resting, catalogue
<1>8. ASSUME ManagerInterrupted PROVE (request \in Requests)'
  BY <1>8 DEF ManagerInterrupted, Resting, Launchable, catalogue
<1>9. ASSUME MihomoDies PROVE (request \in Requests)'
  BY <1>9 DEF MihomoDies, catalogue
<1>10. ASSUME \E s \in Subscriptions, where \in {"build", "select", "delete", "disable"} : Ask(where, s) PROVE (request \in Requests)'
  BY <1>10 DEF Ask, NoRequest, catalogue, managerVars
<1>11. ASSUME RefreshBuilds PROVE (request \in Requests)'
  BY <1>11 DEF RefreshBuilds, Continue, managerVars, NoRequest
<1>12. ASSUME RefreshReplaces PROVE (request \in Requests)'
  BY <1>12 DEF RefreshReplaces, Continue, catalogue, managerVars, NoRequest
<1>13. ASSUME RequestSelects PROVE (request \in Requests)'
  BY <1>13 DEF RequestSelects, Continue, Selectable, catalogue, managerVars, NoRequest
<1>14. ASSUME RequestWrites PROVE (request \in Requests)'
  BY <1>14 DEF RequestWrites, Continue, catalogue, managerVars, NoRequest
<1>15. ASSUME DeleteRow PROVE (request \in Requests)'
  BY <1>15 DEF DeleteRow, Continue, managerVars, NoRequest
<1>16. ASSUME DeleteArtifacts PROVE (request \in Requests)'
  BY <1>16 DEF DeleteArtifacts, Continue, managerVars, NoRequest
<1>17. ASSUME Disable PROVE (request \in Requests)'
  BY <1>17 DEF Disable, Continue, managerVars, NoRequest
<1>18. ASSUME UNCHANGED mihomoVars PROVE (request \in Requests)'
  BY <1>18 DEF mihomoVars
<1>19. QED
  BY <1>1, <1>2, <1>3, <1>4, <1>5, <1>6, <1>7, <1>8, <1>9, <1>10, <1>11, <1>12, <1>13, <1>14,
     <1>15, <1>16, <1>17, <1>18 DEF MihomoNext

LEMMA RecordKept == RuntimeInv /\ [MihomoNext]_mihomoVars => RecordNamesTheProcess'
<1> SUFFICES ASSUME RuntimeInv, [MihomoNext]_mihomoVars PROVE RecordNamesTheProcess'
  OBVIOUS
<1> USE DEF RuntimeInv, MihomoTypeOK, Managers, Starting, Restoring, AtWork, RecordNamesTheProcess,
       ManagerFits
<1>1. ASSUME \E op \in {"Status", "Start", "Stop", "Restart"} : Begin(op) PROVE RecordNamesTheProcess'
  BY <1>1 DEF Begin, Healed, Resting, catalogue, RunningOf
<1>2. ASSUME ManagerSelects PROVE RecordNamesTheProcess'
  BY <1>2 DEF ManagerSelects, Selectable, Resting, catalogue
<1>3. ASSUME ManagerWrites PROVE RecordNamesTheProcess'
  BY <1>3 DEF ManagerWrites, catalogue
<1>4. ASSUME ManagerStops PROVE RecordNamesTheProcess'
  BY <1>4 DEF ManagerStops, Resting, catalogue
<1>5. ASSUME ManagerStarts PROVE RecordNamesTheProcess'
  BY <1>5 DEF ManagerStarts, Launchable, StartFailed, catalogue, Resting
<1>6. ASSUME ManagerRestores PROVE RecordNamesTheProcess'
  BY <1>6 DEF ManagerRestores, OldConfig, Resting, catalogue
<1>7. ASSUME ManagerRecords PROVE RecordNamesTheProcess'
  BY <1>7 DEF ManagerRecords, Resting, catalogue
<1>8. ASSUME ManagerInterrupted PROVE RecordNamesTheProcess'
  BY <1>8 DEF ManagerInterrupted, Resting, Launchable, catalogue
<1>9. ASSUME MihomoDies PROVE RecordNamesTheProcess'
  BY <1>9 DEF MihomoDies, catalogue
<1>10. ASSUME \E s \in Subscriptions, where \in {"build", "select", "delete", "disable"} : Ask(where, s) PROVE RecordNamesTheProcess'
  BY <1>10 DEF Ask, NoRequest, catalogue, managerVars
<1>11. ASSUME RefreshBuilds PROVE RecordNamesTheProcess'
  BY <1>11 DEF RefreshBuilds, Continue, managerVars, NoRequest
<1>12. ASSUME RefreshReplaces PROVE RecordNamesTheProcess'
  BY <1>12 DEF RefreshReplaces, Continue, catalogue, managerVars, NoRequest
<1>13. ASSUME RequestSelects PROVE RecordNamesTheProcess'
  BY <1>13 DEF RequestSelects, Continue, Selectable, catalogue, managerVars, NoRequest
<1>14. ASSUME RequestWrites PROVE RecordNamesTheProcess'
  BY <1>14 DEF RequestWrites, Continue, catalogue, managerVars, NoRequest
<1>15. ASSUME DeleteRow PROVE RecordNamesTheProcess'
  BY <1>15 DEF DeleteRow, Continue, managerVars, NoRequest
<1>16. ASSUME DeleteArtifacts PROVE RecordNamesTheProcess'
  BY <1>16 DEF DeleteArtifacts, Continue, managerVars, NoRequest
<1>17. ASSUME Disable PROVE RecordNamesTheProcess'
  BY <1>17 DEF Disable, Continue, managerVars, NoRequest
<1>18. ASSUME UNCHANGED mihomoVars PROVE RecordNamesTheProcess'
  BY <1>18 DEF mihomoVars
<1>19. QED
  BY <1>1, <1>2, <1>3, <1>4, <1>5, <1>6, <1>7, <1>8, <1>9, <1>10, <1>11, <1>12, <1>13, <1>14,
     <1>15, <1>16, <1>17, <1>18 DEF MihomoNext

LEMMA RestartKept == RuntimeInv /\ [MihomoNext]_mihomoVars => RestartKeepsService'
<1> SUFFICES ASSUME RuntimeInv, [MihomoNext]_mihomoVars PROVE RestartKeepsService'
  OBVIOUS
<1> USE DEF RuntimeInv, MihomoTypeOK, Managers, Starting, Restoring, AtWork, RestartKeepsService,
       ManagerFits, ConfigurationsFit, Works, Kept
<1>1. ASSUME \E op \in {"Status", "Start", "Stop", "Restart"} : Begin(op) PROVE RestartKeepsService'
  BY <1>1 DEF Begin, Healed, Resting, catalogue, RunningOf
<1>2. ASSUME ManagerSelects PROVE RestartKeepsService'
  BY <1>2 DEF ManagerSelects, Selectable, Resting, catalogue
<1>3. ASSUME ManagerWrites PROVE RestartKeepsService'
  BY <1>3 DEF ManagerWrites, catalogue
<1>4. ASSUME ManagerStops PROVE RestartKeepsService'
  BY <1>4 DEF ManagerStops, Resting, catalogue
<1>5. ASSUME ManagerStarts PROVE RestartKeepsService'
  BY <1>5 DEF ManagerStarts, Launchable, StartFailed, catalogue, Resting
<1>6. ASSUME ManagerRestores PROVE RestartKeepsService'
  BY <1>6 DEF ManagerRestores, OldConfig, Resting, catalogue
<1>7. ASSUME ManagerRecords PROVE RestartKeepsService'
  BY <1>7 DEF ManagerRecords, Resting, catalogue
<1>8. ASSUME ManagerInterrupted PROVE RestartKeepsService'
  BY <1>8 DEF ManagerInterrupted, Resting, Launchable, catalogue
<1>9. ASSUME MihomoDies PROVE RestartKeepsService'
  BY <1>9 DEF MihomoDies, catalogue
<1>10. ASSUME \E s \in Subscriptions, where \in {"build", "select", "delete", "disable"} : Ask(where, s) PROVE RestartKeepsService'
  BY <1>10 DEF Ask, NoRequest, catalogue, managerVars
<1>11. ASSUME RefreshBuilds PROVE RestartKeepsService'
  BY <1>11 DEF RefreshBuilds, Continue, managerVars, NoRequest
<1>12. ASSUME RefreshReplaces PROVE RestartKeepsService'
  BY <1>12 DEF RefreshReplaces, Continue, catalogue, managerVars, NoRequest
<1>13. ASSUME RequestSelects PROVE RestartKeepsService'
  BY <1>13 DEF RequestSelects, Continue, Selectable, catalogue, managerVars, NoRequest
<1>14. ASSUME RequestWrites PROVE RestartKeepsService'
  BY <1>14 DEF RequestWrites, Continue, catalogue, managerVars, NoRequest
<1>15. ASSUME DeleteRow PROVE RestartKeepsService'
  BY <1>15 DEF DeleteRow, Continue, managerVars, NoRequest
<1>16. ASSUME DeleteArtifacts PROVE RestartKeepsService'
  BY <1>16 DEF DeleteArtifacts, Continue, managerVars, NoRequest
<1>17. ASSUME Disable PROVE RestartKeepsService'
  BY <1>17 DEF Disable, Continue, managerVars, NoRequest
<1>18. ASSUME UNCHANGED mihomoVars PROVE RestartKeepsService'
  BY <1>18 DEF mihomoVars
<1>19. QED
  BY <1>1, <1>2, <1>3, <1>4, <1>5, <1>6, <1>7, <1>8, <1>9, <1>10, <1>11, <1>12, <1>13, <1>14,
     <1>15, <1>16, <1>17, <1>18 DEF MihomoNext

LEMMA ManagerKept == RuntimeInv /\ [MihomoNext]_mihomoVars => ManagerFits'
<1> SUFFICES ASSUME RuntimeInv, [MihomoNext]_mihomoVars PROVE ManagerFits'
  OBVIOUS
<1> USE DEF RuntimeInv, MihomoTypeOK, Managers, Starting, Restoring, AtWork, RecordNamesTheProcess,
       ManagerFits
<1>1. ASSUME \E op \in {"Status", "Start", "Stop", "Restart"} : Begin(op) PROVE ManagerFits'
  <2>1. PICK op \in {"Status", "Start", "Stop", "Restart"} : Begin(op)
    BY <1>1
  <2>2. /\ selection'.running = IF process = Nothing THEN Nothing ELSE process.of
        /\ process' = process /\ disturbed' = (process # Nothing /\ process \notin files)
        /\ UNCHANGED catalogue
    BY <2>1 DEF Begin, Healed, RunningOf, MihomoTypeOK
  <2>3. CASE manager' = Resting("none", Nothing)
    BY <2>2, <2>3 DEF Resting, catalogue, ManagerFits
  <2>4. CASE manager' = [at |-> "stop", op |-> op, old |-> Nothing] /\ op = "Stop"
    BY <2>2, <2>4 DEF catalogue, ManagerFits
  <2>5. CASE /\ op \in {"Start", "Restart"} /\ selection.selected # Nothing
             /\ manager' = [at |-> "select", op |-> op, target |-> selection.selected,
                            ran |-> process # Nothing, old |-> Nothing]
    <3>1. /\ manager'.at = "select" /\ (~manager'.ran <=> process = Nothing)
          /\ manager'.old = Nothing /\ manager'.op = op
      BY <2>5
    <3>2. QED
      BY <2>2, <2>5, <3>1 DEF catalogue, ManagerFits
  <2>6. QED
    BY <2>1, <2>3, <2>4, <2>5 DEF Begin
<1>2. ASSUME ManagerSelects PROVE ManagerFits'
  BY <1>2 DEF ManagerSelects, Selectable, Resting, catalogue
<1>3. ASSUME ManagerWrites PROVE ManagerFits'
  BY <1>3 DEF ManagerWrites, catalogue
<1>4. ASSUME ManagerStops PROVE ManagerFits'
  BY <1>4 DEF ManagerStops, Resting, catalogue
<1>5. ASSUME ManagerStarts PROVE ManagerFits'
  BY <1>5 DEF ManagerStarts, Launchable, StartFailed, catalogue, Resting
<1>6. ASSUME ManagerRestores PROVE ManagerFits'
  BY <1>6 DEF ManagerRestores, OldConfig, Resting, catalogue
<1>7. ASSUME ManagerRecords PROVE ManagerFits'
  BY <1>7 DEF ManagerRecords, Resting, catalogue
<1>8. ASSUME ManagerInterrupted PROVE ManagerFits'
  BY <1>8 DEF ManagerInterrupted, Resting, Launchable, catalogue
<1>9. ASSUME MihomoDies PROVE ManagerFits'
  BY <1>9 DEF MihomoDies, catalogue
<1>10. ASSUME \E s \in Subscriptions, where \in {"build", "select", "delete", "disable"} : Ask(where, s) PROVE ManagerFits'
  BY <1>10 DEF Ask, NoRequest, catalogue, managerVars
<1>11. ASSUME RefreshBuilds PROVE ManagerFits'
  BY <1>11 DEF RefreshBuilds, Continue, managerVars, NoRequest
<1>12. ASSUME RefreshReplaces PROVE ManagerFits'
  BY <1>12 DEF RefreshReplaces, Continue, catalogue, managerVars, NoRequest
<1>13. ASSUME RequestSelects PROVE ManagerFits'
  BY <1>13 DEF RequestSelects, Continue, Selectable, catalogue, managerVars, NoRequest
<1>14. ASSUME RequestWrites PROVE ManagerFits'
  BY <1>14 DEF RequestWrites, Continue, catalogue, managerVars, NoRequest
<1>15. ASSUME DeleteRow PROVE ManagerFits'
  BY <1>15 DEF DeleteRow, Continue, managerVars, NoRequest
<1>16. ASSUME DeleteArtifacts PROVE ManagerFits'
  BY <1>16 DEF DeleteArtifacts, Continue, managerVars, NoRequest
<1>17. ASSUME Disable PROVE ManagerFits'
  BY <1>17 DEF Disable, Continue, managerVars, NoRequest
<1>18. ASSUME UNCHANGED mihomoVars PROVE ManagerFits'
  BY <1>18 DEF mihomoVars
<1>19. QED
  BY <1>1, <1>2, <1>3, <1>4, <1>5, <1>6, <1>7, <1>8, <1>9, <1>10, <1>11, <1>12, <1>13, <1>14,
     <1>15, <1>16, <1>17, <1>18 DEF MihomoNext

LEMMA ConfigurationsKept == RuntimeInv /\ [MihomoNext]_mihomoVars => ConfigurationsFit'
<1> SUFFICES ASSUME RuntimeInv, [MihomoNext]_mihomoVars PROVE ConfigurationsFit'
  OBVIOUS
<1> USE DEF RuntimeInv, MihomoTypeOK, Managers, Starting, Restoring, AtWork, Requests,
       MaybeConfiguration, Configurations, ManagerFits, ConfigurationsFit, Works, Kept
<1>1. ASSUME \E op \in {"Status", "Start", "Stop", "Restart"} : Begin(op) PROVE ConfigurationsFit'
  <2>1. PICK op \in {"Status", "Start", "Stop", "Restart"} : Begin(op)
    BY <1>1
  <2>2. /\ selection'.running = IF process = Nothing THEN Nothing ELSE process.of
        /\ process' = process /\ disturbed' = (process # Nothing /\ process \notin files)
        /\ UNCHANGED catalogue
    BY <2>1 DEF Begin, Healed, RunningOf, MihomoTypeOK
  <2>3. CASE manager' = Resting("none", Nothing)
    BY <2>2, <2>3 DEF Resting, catalogue, RuntimeInv, ConfigurationsFit, Works, Kept
  <2>4. CASE manager' = [at |-> "stop", op |-> op, old |-> Nothing] /\ op = "Stop"
    BY <2>2, <2>4 DEF catalogue, RuntimeInv, ConfigurationsFit, Works, Kept
  <2>5. CASE /\ op \in {"Start", "Restart"} /\ selection.selected # Nothing
             /\ manager' = [at |-> "select", op |-> op, target |-> selection.selected,
                            ran |-> process # Nothing, old |-> Nothing]
    <3>1. /\ manager'.at = "select" /\ (~manager'.ran <=> process = Nothing)
          /\ manager'.old = Nothing /\ manager'.op = op
      BY <2>5
    <3>2. QED
      BY <2>2, <2>5, <3>1 DEF catalogue, RuntimeInv, ConfigurationsFit, Works, Kept
  <2>6. QED
    BY <2>1, <2>3, <2>4, <2>5 DEF Begin
<1>2. ASSUME ManagerSelects PROVE ConfigurationsFit'
  <2>1. manager \in Starting
    BY <1>2, WhichCall DEF ManagerSelects, RuntimeInv
  <2>2. CASE manager' = Resting("none", Nothing)
    BY <1>2, <2>2 DEF ManagerSelects, Resting, catalogue
  <2>3. CASE manager' = [manager EXCEPT !.at = "write"]
    <3>1. manager'.at = "write" /\ manager'.op = manager.op /\ manager'.old = manager.old
      BY <2>1, <2>3 DEF Starting
    <3>2. manager.op \in {"Start", "Restart"} /\ manager.old = Nothing
      BY <1>2, <2>1 DEF ManagerSelects, Starting, RuntimeInv, ConfigurationsFit
    <3>3. QED
      BY <1>2, <3>1, <3>2 DEF ManagerSelects, catalogue
  <2>4. QED
    BY <1>2, <2>2, <2>3 DEF ManagerSelects
<1>3. ASSUME ManagerWrites PROVE ConfigurationsFit'
  BY <1>3 DEF ManagerWrites, catalogue
<1>4. ASSUME ManagerStops PROVE ConfigurationsFit'
  BY <1>4 DEF ManagerStops, Resting, catalogue
<1>5. ASSUME ManagerStarts PROVE ConfigurationsFit'
  <2>1. manager \in Starting /\ manager.target \in Subscriptions
        /\ manager.op \in {"Start", "Restart"}
    BY <1>5, WhichCall DEF ManagerStarts, RuntimeInv
  <2>2. CASE Launchable(manager.target)
    <3>1. /\ process' = [of |-> manager.target, version |-> artifact[manager.target]]
          /\ manager' = [manager EXCEPT !.at = "record"]
      BY <1>5, <2>2 DEF ManagerStarts
    <3>2. manager'.at = "record" /\ manager'.op = manager.op /\ manager'.old = manager.old
      BY <2>1, <3>1 DEF Starting
    <3>3. artifact[manager.target] \notin broken /\ artifact[manager.target] <= versions
          /\ process'.version = artifact[manager.target]
      BY <2>1, <2>2, <3>1 DEF Launchable, RuntimeInv, ConfigurationsFit
    <3>4. UNCHANGED <<files, broken, versions, artifact, disturbed>>
      BY <1>5 DEF ManagerStarts, catalogue
    <3>5. ~disturbed => process' \in files
      BY <1>5, <2>1, <2>2, <3>1 DEF Launchable, RuntimeInv, ConfigurationsFit
    <3>6. QED
      BY <1>5, <2>1, <3>2, <3>3, <3>4, <3>5 DEF ManagerStarts, RuntimeInv, ConfigurationsFit, Works, Kept
  <2>3. CASE ~Launchable(manager.target)
    <3>1. manager' = StartFailed /\ UNCHANGED <<process, files, broken, versions, artifact, disturbed>>
      BY <1>5, <2>3 DEF ManagerStarts, catalogue
    <3>2. CASE manager.op = "Restart" /\ manager.old # Nothing
      <4>1. manager' = [manager EXCEPT !.at = "restore"]
        BY <3>1, <3>2 DEF StartFailed
      <4>2. manager'.at = "restore" /\ manager'.op = manager.op /\ manager'.old = manager.old
        BY <2>1, <4>1 DEF Starting
      <4>3. QED
        BY <1>5, <2>1, <3>1, <3>2, <4>2 DEF ManagerStarts, RuntimeInv, ConfigurationsFit, Works, Kept
    <3>3. CASE ~(manager.op = "Restart" /\ manager.old # Nothing)
      BY <3>1, <3>3 DEF StartFailed, Resting, RuntimeInv, ConfigurationsFit, Works, Kept
    <3>4. QED
      BY <3>2, <3>3
  <2>4. QED
    BY <2>2, <2>3
<1>6. ASSUME ManagerRestores PROVE ConfigurationsFit'
  BY <1>6 DEF ManagerRestores, OldConfig, Resting, catalogue
<1>7. ASSUME ManagerRecords PROVE ConfigurationsFit'
  BY <1>7 DEF ManagerRecords, Resting, catalogue
<1>8. ASSUME ManagerInterrupted PROVE ConfigurationsFit'
  BY <1>8 DEF ManagerInterrupted, Resting, Launchable, catalogue
<1>9. ASSUME MihomoDies PROVE ConfigurationsFit'
  BY <1>9 DEF MihomoDies, catalogue
<1>10. ASSUME \E s \in Subscriptions, where \in {"build", "select", "delete", "disable"} : Ask(where, s) PROVE ConfigurationsFit'
  BY <1>10 DEF Ask, NoRequest, catalogue, managerVars
<1>11. ASSUME RefreshBuilds PROVE ConfigurationsFit'
  BY <1>11 DEF RefreshBuilds, Continue, managerVars, NoRequest
<1>12. ASSUME RefreshReplaces PROVE ConfigurationsFit'
  BY <1>12 DEF RefreshReplaces, Continue, catalogue, managerVars, NoRequest
<1>13. ASSUME RequestSelects PROVE ConfigurationsFit'
  BY <1>13 DEF RequestSelects, Continue, Selectable, catalogue, managerVars, NoRequest
<1>14. ASSUME RequestWrites PROVE ConfigurationsFit'
  BY <1>14 DEF RequestWrites, Continue, catalogue, managerVars, NoRequest
<1>15. ASSUME DeleteRow PROVE ConfigurationsFit'
  BY <1>15 DEF DeleteRow, Continue, managerVars, NoRequest
<1>16. ASSUME DeleteArtifacts PROVE ConfigurationsFit'
  <2>1. /\ artifact' = [artifact EXCEPT ![request.of] = 0]
        /\ files' = {f \in files : f.of # request.of}
        /\ disturbed' = (disturbed \/ \E c \in {process, manager.old} \ {Nothing} :
                                         c.of = request.of)
        /\ UNCHANGED <<broken, versions, process, manager>>
    BY <1>16 DEF DeleteArtifacts, managerVars
  <2>2. \A s \in Subscriptions :
          artifact'[s] <= versions' /\ (artifact'[s] # 0 =>
                                         [of |-> s, version |-> artifact'[s]] \in files')
    BY <2>1
  <2>3. \A c \in {process, manager.old} : ~disturbed' /\ Kept(c) => Kept(c)'
    BY <2>1 DEF Kept
  <2>4. ~disturbed' => ~disturbed
    BY <2>1
  <2>5. \A c : Works(c) => Works(c)'
    BY <2>1 DEF Works
  <2>6. QED
    BY <2>1, <2>2, <2>3, <2>4, <2>5 DEF ConfigurationsFit
<1>17. ASSUME Disable PROVE ConfigurationsFit'
  BY <1>17 DEF Disable, Continue, managerVars, NoRequest
<1>18. ASSUME UNCHANGED mihomoVars PROVE ConfigurationsFit'
  BY <1>18 DEF mihomoVars
<1>19. QED
  BY <1>1, <1>2, <1>3, <1>4, <1>5, <1>6, <1>7, <1>8, <1>9, <1>10, <1>11, <1>12, <1>13, <1>14,
     <1>15, <1>16, <1>17, <1>18 DEF MihomoNext

LEMMA RuntimeInvInit == MihomoInit => RuntimeInv
<1> SUFFICES ASSUME MihomoInit PROVE RuntimeInv
  OBVIOUS
<1> USE MihomoAssumption DEF MihomoAssumption
<1>1. MihomoTypeOK
  <2>1. /\ versions \in 0 .. MaxVersions /\ requests \in 0 .. MaxRequests
        /\ mihomoFaults \in 0 .. MaxMihomoFaults
    BY DEF MihomoInit
  <2>2. /\ subscriptions \in [Subscriptions -> {"none", "enabled", "disabled"}]
        /\ artifact \in [Subscriptions -> 0 .. MaxVersions]
    BY DEF MihomoInit
  <2>3. selection \in [selected : Subscriptions \cup {Nothing},
                      running : Subscriptions \cup {Nothing}]
    BY DEF MihomoInit
  <2>4. manager.at = "idle" /\ request.at = "idle"
    BY DEF MihomoInit, Resting, NoRequest
  <2>5. broken = {} /\ files = {} /\ process = Nothing /\ disturbed = FALSE
    BY DEF MihomoInit
  <2>6. QED
    BY <2>1, <2>2, <2>3, <2>4, <2>5 DEF MihomoTypeOK
<1>2. process \in MaybeConfiguration /\ manager \in Managers /\ request \in Requests
  BY NothingRests DEF MihomoInit, MaybeConfiguration, Requests
<1>3. RecordNamesTheProcess /\ RestartKeepsService
  BY DEF MihomoInit, RecordNamesTheProcess, RestartKeepsService, Resting
<1>4. ManagerFits /\ ConfigurationsFit
  BY DEF MihomoInit, ManagerFits, ConfigurationsFit, Works, Kept, Resting
<1>5. QED
  BY <1>1, <1>2, <1>3, <1>4 DEF RuntimeInv

(* The record follows the process, and a failed restart keeps the service. *)
LEMMA RuntimeHolds == MihomoSpec => []RuntimeIsSafe
<1>1. RuntimeInv /\ [MihomoNext]_mihomoVars => RuntimeInv'
  <2> SUFFICES ASSUME RuntimeInv, [MihomoNext]_mihomoVars PROVE RuntimeInv'
    OBVIOUS
  <2>1. MihomoTypeOK' /\ process' \in MaybeConfiguration'
    BY RuntimeTyped, ProcessTyped
  <2>2. (manager \in Managers)' /\ (request \in Requests)'
    BY ManagerTyped, RequestTyped
  <2>3. RecordNamesTheProcess' /\ RestartKeepsService'
    BY RecordKept, RestartKept
  <2>4. ManagerFits' /\ ConfigurationsFit'
    BY ManagerKept, ConfigurationsKept
  <2>5. QED
    BY <2>1, <2>2, <2>3, <2>4 DEF RuntimeInv
<1>2. RuntimeInv => RuntimeIsSafe
  BY DEF RuntimeInv, RuntimeIsSafe
<1>3. QED
  BY RuntimeInvInit, <1>1, <1>2, PTL DEF MihomoSpec

-----------------------------------------------------------------------------
(* CoreInstall.                                                            *)

(* A version only one request moved into place stays there, and was either *)
(* recorded or is about to be by that request.                             *)
Moved(i) == installing[i].at = "moved"
CoreFits ==
  /\ currentCore # NoCore => currentCore \in everCurrent
  /\ everCurrent \ doubled \subseteq binaries
  /\ \A i \in Installers : Moved(i) /\ installing[i].version \notin doubled =>
       /\ installing[i].version \in binaries \ everCurrent
       /\ \A j \in Installers \ {i} : Moved(j) => installing[j].version # installing[i].version

CoreInv == CoreTypeOK /\ FailedCanBeRepeated /\ CoreFits

LEMMA CoreTyped == CoreInv /\ [CoreNext]_coreVars => CoreTypeOK'
<1> SUFFICES ASSUME CoreInv, [CoreNext]_coreVars PROVE CoreTypeOK'
  OBVIOUS
<1> USE DEF CoreInv, CoreTypeOK
<1>1. ASSUME \E i \in Installers : \E v \in CoreVersions : Stage(i, v) PROVE CoreTypeOK'
  BY <1>1, CoreAssumption DEF Stage, NoInstall, CoreAssumption
<1>2. ASSUME \E i \in Installers : CheckVersion(i) PROVE CoreTypeOK'
  BY <1>2, CoreAssumption DEF CheckVersion, Ends, Installs, NoInstall, CoreAssumption
<1>3. ASSUME \E i \in Installers : MoveBinary(i) PROVE CoreTypeOK'
  <2>1. PICK i \in Installers : MoveBinary(i)
    BY <1>3
  <2>2. installing[i] \in [at : {"staged", "checked", "moved"}, version : CoreVersions]
    BY <2>1 DEF MoveBinary, NoInstall
  <2>3. [installing[i] EXCEPT !.at = "moved"]
          \in [at : {"staged", "checked", "moved"}, version : CoreVersions]
    BY <2>2
  <2>4. installing' = [installing EXCEPT ![i] = [installing[i] EXCEPT !.at = "moved"]]
    BY <2>1 DEF MoveBinary, Installs
  <2>5. installing' \in [Installers -> {NoInstall} \cup
                          [at : {"staged", "checked", "moved"}, version : CoreVersions]]
    BY <2>3, <2>4
  <2>6. QED
    BY <2>1, <2>2, <2>5 DEF MoveBinary
<1>4. ASSUME \E i \in Installers : WriteStatus(i) PROVE CoreTypeOK'
  BY <1>4, CoreAssumption DEF WriteStatus, Ends, NoInstall, CoreAssumption
<1>5. ASSUME \E i \in Installers : StatusFails(i) PROVE CoreTypeOK'
  BY <1>5, CoreAssumption DEF StatusFails, Ends, TakenBack, NoInstall, CoreAssumption
<1>6. ASSUME CoreCrashes PROVE CoreTypeOK'
  BY <1>6, CoreAssumption DEF CoreCrashes, NoInstall, CoreAssumption
<1>7. ASSUME UNCHANGED coreVars PROVE CoreTypeOK'
  BY <1>7, CoreAssumption DEF coreVars
<1>8. QED
  BY <1>1, <1>2, <1>3, <1>4, <1>5, <1>6, <1>7 DEF CoreNext

LEMMA CoreRepeats == CoreInv /\ [CoreNext]_coreVars => FailedCanBeRepeated'
<1> SUFFICES ASSUME CoreInv, [CoreNext]_coreVars PROVE FailedCanBeRepeated'
  OBVIOUS
<1> USE DEF CoreInv, CoreTypeOK, FailedCanBeRepeated
<1>1. ASSUME \E i \in Installers : \E v \in CoreVersions : Stage(i, v) PROVE FailedCanBeRepeated'
  BY <1>1, CoreAssumption DEF Stage, NoInstall, CoreAssumption
<1>2. ASSUME \E i \in Installers : CheckVersion(i) PROVE FailedCanBeRepeated'
  BY <1>2, CoreAssumption DEF CheckVersion, Ends, Installs, NoInstall, CoreAssumption
<1>3. ASSUME \E i \in Installers : MoveBinary(i) PROVE FailedCanBeRepeated'
  BY <1>3, CoreAssumption DEF MoveBinary, Installs, CoreAssumption
<1>4. ASSUME \E i \in Installers : WriteStatus(i) PROVE FailedCanBeRepeated'
  BY <1>4, CoreAssumption DEF WriteStatus, Ends, NoInstall, CoreAssumption
<1>5. ASSUME \E i \in Installers : StatusFails(i) PROVE FailedCanBeRepeated'
  BY <1>5, CoreAssumption DEF StatusFails, Ends, TakenBack, NoInstall, CoreAssumption
<1>6. ASSUME CoreCrashes PROVE FailedCanBeRepeated'
  BY <1>6, CoreAssumption DEF CoreCrashes, NoInstall, CoreAssumption
<1>7. ASSUME UNCHANGED coreVars PROVE FailedCanBeRepeated'
  BY <1>7, CoreAssumption DEF coreVars
<1>8. QED
  BY <1>1, <1>2, <1>3, <1>4, <1>5, <1>6, <1>7 DEF CoreNext

LEMMA CoreFit == CoreInv /\ [CoreNext]_coreVars => CoreFits'
<1> SUFFICES ASSUME CoreInv, [CoreNext]_coreVars PROVE CoreFits'
  OBVIOUS
<1> USE DEF CoreInv, CoreTypeOK, CoreFits, Moved
<1>1. ASSUME \E i \in Installers : \E v \in CoreVersions : Stage(i, v) PROVE CoreFits'
  BY <1>1, CoreAssumption DEF Stage, NoInstall, CoreAssumption
<1>2. ASSUME \E i \in Installers : CheckVersion(i) PROVE CoreFits'
  BY <1>2, CoreAssumption DEF CheckVersion, Ends, Installs, NoInstall, CoreAssumption
<1>3. ASSUME \E i \in Installers : MoveBinary(i) PROVE CoreFits'
  BY <1>3, CoreAssumption DEF MoveBinary, Installs, CoreAssumption
<1>4. ASSUME \E i \in Installers : WriteStatus(i) PROVE CoreFits'
  BY <1>4, CoreAssumption DEF WriteStatus, Ends, NoInstall, CoreAssumption
<1>5. ASSUME \E i \in Installers : StatusFails(i) PROVE CoreFits'
  BY <1>5, CoreAssumption DEF StatusFails, Ends, TakenBack, NoInstall, CoreAssumption
<1>6. ASSUME CoreCrashes PROVE CoreFits'
  BY <1>6, CoreAssumption DEF CoreCrashes, NoInstall, CoreAssumption
<1>7. ASSUME UNCHANGED coreVars PROVE CoreFits'
  BY <1>7, CoreAssumption DEF coreVars
<1>8. QED
  BY <1>1, <1>2, <1>3, <1>4, <1>5, <1>6, <1>7 DEF CoreNext

LEMMA CoreHolds == CoreSpec => []CoreIsSafe
<1>1. CoreInit => CoreInv
  BY CoreAssumption
     DEF CoreAssumption, CoreInit, CoreInv, CoreTypeOK, NoInstall, FailedCanBeRepeated,
         CoreFits, Moved
<1>2. CoreInv /\ [CoreNext]_coreVars => CoreInv'
  BY CoreTyped, CoreRepeats, CoreFit DEF CoreInv
<1>3. CoreInv => CoreIsSafe
  BY DEF CoreInv, CoreFits, CoreIsSafe, CurrentIsThere
<1>4. QED
  BY <1>1, <1>2, <1>3, PTL DEF CoreSpec

(* RuntimeManager's record never names another subscription than the one   *)
(* that runs.  A restart whose new configuration does not start and that   *)
(* is not cut short itself has put back the exact old one, unless its      *)
(* files were deleted or what was put back died.  CoreManager's            *)
(* current.json names a core that is there, unless two requests moved one  *)
(* version into place, and a failed installation can be repeated, unless a *)
(* crash struck between the move and current.json.                         *)
THEOREM MihomoHolds == MihomoSpec /\ CoreSpec => []MihomoIsSafe
BY RuntimeHolds, CoreHolds, PTL DEF MihomoIsSafe
=============================================================================
