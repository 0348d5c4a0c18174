----------------------------- MODULE DeviceGate -----------------------------
(***************************************************************************)
(* The agent's per-device gate, the monitor that publishes the hardware    *)
(* snapshot, and the operations that pass the gate: text messages (the     *)
(* SMS router), the RF switch, SIM authentication and probes.  Every       *)
(* operation carries the device generation its client saw (its fence); a   *)
(* text message also names the modem and the SIM, an authentication the    *)
(* SIM.                                                                    *)
(*                                                                         *)
(* The devices are external: what is plugged in changes at any time, and   *)
(* the monitor learns of it with its next scan.  A scan reads descriptors  *)
(* of the modem only; which SIM is in it shows only in a probe.            *)
(***************************************************************************)
EXTENDS Naturals, FiniteSets

CONSTANTS
  Operations,   \* goroutines of the agent's server
  Ports,        \* stable device ids: where a modem may be plugged in
  Modems, Sims,
  Nothing,      \* no modem
  GateEntries,  \* gateEntry objects
  NoGateEntry,
  MaxMoves      \* bound: times a modem or SIM is exchanged

(* An entry is an object on the heap: there is one for every goroutine.    *)
GateAssumption ==
  /\ Nothing \notin Modems
  /\ NoGateEntry \notin GateEntries
  /\ IsFiniteSet(Operations) /\ IsFiniteSet(GateEntries)
  /\ Cardinality(Operations) <= Cardinality(GateEntries)
  /\ MaxMoves \in Nat

ASSUME GateAssumption

VARIABLES
  gateMap,     \* OperationGate.entries
  refs,        \* references of each entry
  token,       \* whether the entry's channel holds its token
  operations,  \* what each goroutine is doing
  plugged,     \* the real devices: modem and SIM of each port
  published,   \* the monitor's snapshot: generation and modem of each port
  scan,        \* the scan a Refresh has read but not published, or NoScan
  moves

gateVars == <<gateMap, refs, token, operations, plugged, published, scan, moves>>
gateItself == <<gateMap, refs, token>>
deviceVars == <<plugged, published, scan, moves>>

NoScan == [p \in {} |-> Nothing]
Idle == [at |-> "idle"]
Kinds == {"message", "radio", "authentication", "probe"}
OperationSteps == {"requested", "waiting", "admitted", "fenced", "probed",
                   "dispatch", "leaving", "dropping"}
Underway == [at : OperationSteps, kind : Kinds, port : Ports, generation : Nat,
             modem : Modems, sim : Sims, entry : GateEntries \cup {NoGateEntry},
             moved : BOOLEAN, shown : BOOLEAN]
Devices == [modem : Modems \cup {Nothing}, sim : Sims]

GateTypeOK ==
  /\ gateMap \in [Ports -> GateEntries \cup {NoGateEntry}]
  /\ refs \in [GateEntries -> Nat]
  /\ token \in [GateEntries -> BOOLEAN]
  /\ operations \in [Operations -> Underway \cup {Idle}]
  /\ plugged \in [Ports -> Devices]
  /\ published \in [Ports -> [generation : Nat, modem : Modems \cup {Nothing}]]
  /\ scan = NoScan \/ scan \in [Ports -> Modems \cup {Nothing}]
  /\ moves \in 0 .. MaxMoves

(* One refresh has been published (Monitor.Run starts with one).           *)
GateInit ==
  /\ gateMap = [p \in Ports |-> NoGateEntry]
  /\ refs = [n \in GateEntries |-> 0]
  /\ token = [n \in GateEntries |-> FALSE]
  /\ operations = [o \in Operations |-> Idle]
  /\ plugged \in [Ports -> [modem : Modems, sim : Sims]]
  /\ published = [p \in Ports |-> [generation |-> 1,
                                   modem |-> plugged[p].modem]]
  /\ scan = NoScan
  /\ moves = 0

-----------------------------------------------------------------------------
(* The monitor.                                                            *)

(* External.  An operation past its probe notes that its device moved.     *)
Exchange(p, d) ==
  /\ moves < MaxMoves /\ moves' = moves + 1
  /\ d # plugged[p]
  /\ plugged' = [plugged EXCEPT ![p] = d]
  /\ operations' = [o \in Operations |->
       IF operations[o] # Idle /\ operations[o].port = p
            /\ operations[o].at \in {"probed", "dispatch"}
         THEN [operations[o] EXCEPT !.moved = TRUE] ELSE operations[o]]
  /\ UNCHANGED <<gateItself, published, scan>>

(* Refresh holds refreshMu: one scan at a time.                            *)
Scan == /\ scan = NoScan
        /\ scan' = [p \in Ports |-> plugged[p].modem]
        /\ UNCHANGED <<gateItself, operations, plugged, published, moves>>

(* A device that appears, or whose report differs, has a new generation;   *)
(* one that went away keeps its number for the next appearance.            *)
Report(p) ==
  LET old == published[p] IN
    [generation |-> IF scan[p] \notin {Nothing, old.modem}
                      THEN old.generation + 1 ELSE old.generation,
     modem |-> scan[p]]

(* An operation that is about to check again notes a new report.           *)
PublishScan ==
  /\ scan # NoScan
  /\ scan' = NoScan
  /\ published' = [p \in Ports |-> Report(p)]
  /\ operations' = [o \in Operations |->
       IF operations[o] # Idle /\ operations[o].at = "probed"
            /\ Report(operations[o].port) # published[operations[o].port]
         THEN [operations[o] EXCEPT !.shown = TRUE] ELSE operations[o]]
  /\ UNCHANGED <<gateItself, plugged, moves>>

-----------------------------------------------------------------------------
(* The gate.                                                               *)

Step(o, at) == operations' = [operations EXCEPT ![o].at = at]
IsAt(o, at) == operations[o] # Idle /\ operations[o].at = at

(* A client's request: the fence is what the snapshot shows now, the SIM   *)
(* what an earlier probe showed.                                           *)
Begin(o, kind, p, s) ==
  /\ operations[o] = Idle
  /\ published[p].modem # Nothing
  /\ operations' = [operations EXCEPT ![o] =
       [at |-> "requested", kind |-> kind, port |-> p,
        generation |-> published[p].generation,
        modem |-> published[p].modem, sim |-> s,
        entry |-> NoGateEntry, moved |-> FALSE, shown |-> FALSE]]
  /\ UNCHANGED <<gateItself, deviceVars>>

RequestMessage(o, p, s) == Begin(o, "message", p, s)
RequestRadio(o, p) == Begin(o, "radio", p, plugged[p].sim)
RequestProbe(o, p) == Begin(o, "probe", p, plugged[p].sim)

(* The service probes the device, in a turn of its own at the gate, and    *)
(* goes on only if it shows the SIM the client names.                      *)
RequestAuthentication(o, p, s) ==
  /\ plugged[p].modem # Nothing /\ plugged[p].sim = s
  /\ Begin(o, "authentication", p, s)

(* Acquire, under the mutex: find or create the entry, count a reference.  *)
(* A new entry is an object nobody holds.                                  *)
NewEntry == CHOOSE n \in GateEntries :
              refs[n] = 0 /\ \A p \in Ports : gateMap[p] # n

Join(o) ==
  /\ IsAt(o, "requested")
  /\ LET p == operations[o].port
         new == gateMap[p] = NoGateEntry
         n == IF new THEN NewEntry ELSE gateMap[p]
     IN /\ gateMap' = [gateMap EXCEPT ![p] = n]
        /\ token' = IF new THEN [token EXCEPT ![n] = TRUE] ELSE token
        /\ refs' = [refs EXCEPT ![n] = @ + 1]
        /\ operations' = [operations EXCEPT ![o].at = "waiting", ![o].entry = n]
  /\ UNCHANGED deviceVars

(* drop: the last reference removes the entry, if it is still the map's.   *)
MutantDrop(o) ==
  LET n == operations[o].entry  p == operations[o].port IN
    /\ refs' = [refs EXCEPT ![n] = @ - 1]
    /\ gateMap' = IF gateMap[p] = n
                    THEN [gateMap EXCEPT ![p] = NoGateEntry] ELSE gateMap

Drop(o) ==
  LET n == operations[o].entry  p == operations[o].port IN
    /\ refs' = [refs EXCEPT ![n] = @ - 1]
    /\ gateMap' = IF refs'[n] = 0 /\ gateMap[p] = n
                    THEN [gateMap EXCEPT ![p] = NoGateEntry] ELSE gateMap

Admit(o) ==
  /\ IsAt(o, "waiting")
  /\ token[operations[o].entry]
  /\ token' = [token EXCEPT ![operations[o].entry] = FALSE]
  /\ Step(o, "admitted")
  /\ UNCHANGED <<gateMap, refs, deviceVars>>

(* The client goes away while the operation waits.                         *)
Cancel(o) ==
  /\ IsAt(o, "waiting")
  /\ Drop(o)
  /\ operations' = [operations EXCEPT ![o] = Idle]
  /\ UNCHANGED <<token, deviceVars>>

ReturnToken(o) ==
  /\ IsAt(o, "leaving")
  /\ token' = [token EXCEPT ![operations[o].entry] = TRUE]
  /\ Step(o, "dropping")
  /\ UNCHANGED <<gateMap, refs, deviceVars>>

Leave(o) ==
  /\ IsAt(o, "dropping")
  /\ Drop(o)
  /\ operations' = [operations EXCEPT ![o] = Idle]
  /\ UNCHANGED <<token, deviceVars>>

-----------------------------------------------------------------------------
(* What an operation does inside the gate.                                 *)

Published(o) ==
  LET report == published[operations[o].port] IN
    report.modem # Nothing /\ report.generation = operations[o].generation

(* currentSnapshotDevice: the device may have changed in the queue.        *)
Fence(o) ==
  /\ IsAt(o, "admitted")
  /\ Step(o, IF Published(o) THEN "fenced" ELSE "leaving")
  /\ UNCHANGED <<gateItself, deviceVars>>

Asked(o) == plugged[operations[o].port]
Goes(o, kind, at) ==
  /\ IsAt(o, "fenced")
  /\ operations[o].kind = kind
  /\ Asked(o).modem # Nothing
  /\ Step(o, at)
  /\ UNCHANGED <<gateItself, deviceVars>>

(* A text message: a fresh probe shows the modem and the SIM it names.     *)
Named(o) == Asked(o) = [modem |-> operations[o].modem, sim |-> operations[o].sim]
ResolveMessage(o) == Goes(o, "message", "probed") /\ Named(o)

(* The RF switch: a complete probe, and no call (not modelled here).       *)
ResolveRadio(o) == Goes(o, "radio", "dispatch")

(* Authentication reads the SIM's identity again before it uses the SIM.   *)
ResolveAuthentication(o) ==
  Goes(o, "authentication", "dispatch") /\ Asked(o).sim = operations[o].sim

ResolveProbe(o) == Goes(o, "probe", "dispatch")

Refuse(o) ==
  /\ IsAt(o, "fenced")
  /\ Step(o, "leaving")
  /\ UNCHANGED <<gateItself, deviceVars>>

(* The router reads the snapshot again: a refresh does not pass the gate.  *)
MutantCheckAgain(o) ==
  /\ IsAt(o, "probed")
  /\ Step(o, "dispatch")
  /\ UNCHANGED <<gateItself, deviceVars>>

CheckAgain(o) ==
  /\ IsAt(o, "probed")
  /\ Step(o, IF Published(o) THEN "dispatch" ELSE "leaving")
  /\ UNCHANGED <<gateItself, deviceVars>>

(* The modem is asked; the adapter's answer does not matter here.          *)
Dispatch(o) ==
  /\ IsAt(o, "dispatch")
  /\ Step(o, "leaving")
  /\ UNCHANGED <<gateItself, deviceVars>>

OperationStep(o) ==
  \/ Join(o) \/ Admit(o) \/ Fence(o)
  \/ ResolveMessage(o) \/ ResolveRadio(o) \/ ResolveAuthentication(o)
  \/ ResolveProbe(o) \/ Refuse(o) \/ CheckAgain(o)
  \/ Dispatch(o) \/ ReturnToken(o) \/ Leave(o)

GateNext ==
  \/ \E p \in Ports, d \in Devices : Exchange(p, d)
  \/ Scan \/ PublishScan
  \/ \E o \in Operations :
       \/ \E p \in Ports, s \in Sims :
            RequestMessage(o, p, s) \/ RequestAuthentication(o, p, s)
       \/ \E p \in Ports : RequestRadio(o, p) \/ RequestProbe(o, p)
       \/ Cancel(o)
       \/ OperationStep(o)

GateSpec == GateInit /\ [][GateNext]_gateVars

-----------------------------------------------------------------------------

InGate(o) == operations[o] # Idle
               /\ operations[o].at \in {"admitted", "fenced", "probed",
                                        "dispatch", "leaving"}
Referring(n) == {o \in Operations : operations[o] # Idle
                                      /\ operations[o].entry = n}

(* Two operations never talk to one modem at a time, also when waiters     *)
(* give up, entries are removed and created again in between; a port       *)
(* without operations has no entry (operation_gate.go:15-17).              *)
OneInGate ==
  /\ \A o1, o2 \in Operations :
       InGate(o1) /\ InGate(o2) /\ operations[o1].port = operations[o2].port
         => o1 = o2
  /\ \A p \in Ports : gateMap[p] # NoGateEntry => Referring(gateMap[p]) # {}

(* A text message goes to the modem and SIM it names, an authentication    *)
(* to its SIM, unless they were exchanged after the check and before the   *)
(* dispatch; and a message never goes when a refresh had shown that before *)
(* the router looked again (sms.go:139-142).                               *)
ReachesTheNamed ==
  \A o \in Operations :
    IsAt(o, "dispatch") /\ ~operations[o].moved =>
      CASE operations[o].kind = "message"        -> Named(o)
        [] operations[o].kind = "authentication" ->
             Asked(o).sim = operations[o].sim
        [] OTHER -> TRUE
NoneKnownStale ==
  \A o \in Operations : IsAt(o, "dispatch") => ~operations[o].shown

GateIsSafe == GateTypeOK /\ OneInGate /\ ReachesTheNamed /\ NoneKnownStale
=============================================================================
