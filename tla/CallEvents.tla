----------------------------- MODULE CallEvents -----------------------------
(***************************************************************************)
(* Missed calls: the bridge beside a modem keeps the last calls in a ring  *)
(* in its memory, numbered from 1 in every boot; the call service sweeps   *)
(* the ring and writes each call to the history of the line that has the   *)
(* modem's SIM.                                                            *)
(*                                                                         *)
(* Bridge, modem and SIM are external.  The sweep sees the SIM of the      *)
(* moment: the topology's own delay is left out, in the code's favour.     *)
(* One device; a failing read ends the sweep and changes nothing.          *)
(***************************************************************************)
EXTENDS Naturals, Sequences, FiniteSets

CONSTANTS
  CallSims,      \* SIMs, each with its line
  RingSize,      \* callEventsCapacity
  NoCursor,
  MaxCallsIn,    \* bound: calls of one boot
  MaxBoots,      \* bound: restarts of the bridge
  MaxSwaps,      \* bound: SIM changes
  MaxStops       \* bound: crashes and failed writes of the service

ASSUME CallAssumption == /\ RingSize \in Nat \ {0}
                         /\ MaxCallsIn \in Nat /\ MaxBoots \in Nat
                         /\ MaxSwaps \in Nat /\ MaxStops \in Nat

VARIABLES
  boot,      \* the bridge's boot id
  ringing,   \* calls of this boot in order: SIM and whether the number is usable
  sim,       \* the SIM in the modem
  swaps,
  cursor,    \* call_event_cursors row of the device, or NoCursor
  sweep,     \* the sweep in progress
  history,   \* call_records
  passedBy,  \* calls of this boot left out because the SIM changed
  stops

callVars == <<boot, ringing, sim, swaps, cursor, sweep, history, passedBy, stops>>
bridge == <<boot, ringing, sim, swaps>>

NoSweep == [at |-> "none"]
Latest == Len(ringing)
Oldest == IF Latest > RingSize THEN Latest - RingSize + 1 ELSE IF Latest = 0 THEN 0 ELSE 1
Held == IF Latest = 0 THEN {} ELSE Oldest .. Latest
Events == [sim : CallSims, usable : BOOLEAN]

CallTypeOK ==
  /\ boot \in 1 .. MaxBoots + 1 /\ sim \in CallSims
  /\ ringing \in Seq(Events) /\ Len(ringing) <= MaxCallsIn
  /\ swaps \in 0 .. MaxSwaps /\ stops \in 0 .. MaxStops
  /\ cursor \in {NoCursor} \cup [boot : 1 .. boot, sim : CallSims,
                                 last : 0 .. MaxCallsIn]
  /\ history \subseteq [boot : 1 .. boot, sequence : 1 .. MaxCallsIn,
                        line : CallSims, sim : CallSims, first : BOOLEAN]
  /\ passedBy \subseteq 1 .. MaxCallsIn

CallInit ==
  /\ boot = 1 /\ ringing = << >> /\ sim \in CallSims /\ swaps = 0
  /\ cursor = NoCursor /\ sweep = NoSweep
  /\ history = {} /\ passedBy = {} /\ stops = 0

-----------------------------------------------------------------------------
(* External.                                                               *)

Ring(usable) ==
  /\ Latest < MaxCallsIn
  /\ ringing' = Append(ringing, [sim |-> sim, usable |-> usable])
  /\ UNCHANGED <<boot, sim, swaps, cursor, sweep, history, passedBy, stops>>

BridgeRestarts ==
  /\ boot <= MaxBoots
  /\ boot' = boot + 1 /\ ringing' = << >> /\ passedBy' = {}
  /\ UNCHANGED <<sim, swaps, cursor, sweep, history, stops>>

SwapSim(s) ==
  /\ swaps < MaxSwaps /\ s # sim
  /\ swaps' = swaps + 1 /\ sim' = s
  /\ UNCHANGED <<boot, ringing, cursor, sweep, history, passedBy, stops>>

-----------------------------------------------------------------------------

After == IF cursor = NoCursor THEN 0 ELSE cursor.last

(* One bounded read: the events after a position that the ring still holds *)
Read(after) == [boot |-> boot, latest |-> Latest, oldest |-> Oldest,
                events |-> {n \in Held : n > after},
                calls |-> ringing]

(* A new boot starts over; a new SIM skips what the ring holds.            *)
MutantPosition(report) == After
Position(report) ==
  IF cursor = NoCursor              THEN 0
  ELSE IF cursor.boot # report.boot THEN 0
  ELSE IF cursor.sim # sim          THEN report.latest
                                    ELSE cursor.last

Begin(report) ==
  /\ sweep' = [at |-> "record", line |-> sim, report |-> report,
               position |-> Position(report), first |-> cursor = NoCursor]
  /\ passedBy' = IF Position(report) > After /\ cursor # NoCursor
                      /\ cursor.boot = report.boot
                   THEN passedBy \cup (After + 1 .. Position(report))
                   ELSE passedBy

(* The position is sent before the boot is known; if it belongs to another *)
(* boot, the ring is read again from the start.                            *)
StartSweep ==
  /\ sweep = NoSweep
  /\ IF After = 0 \/ cursor.boot = boot
       THEN Begin(Read(After))
       ELSE sweep' = [at |-> "again"] /\ UNCHANGED passedBy
  /\ UNCHANGED <<bridge, cursor, history, stops>>

ReadAgain ==
  /\ sweep.at = "again"
  /\ Begin(Read(0))
  /\ UNCHANGED <<bridge, cursor, history, stops>>

Left == IF sweep.at = "record"
          THEN {n \in sweep.report.events : n > sweep.position} ELSE {}
Nearest == CHOOSE n \in Left : \A m \in Left : n <= m
Record == LET n == Nearest IN
  [boot |-> sweep.report.boot, sequence |-> n, line |-> sweep.line,
   sim |-> sweep.report.calls[n].sim, first |-> sweep.first]
Same(r) == {h \in history : h.boot = r.boot /\ h.sequence = r.sequence}

(* RecordObservedInboundCall: the id is derived from boot and sequence, so *)
(* a repeat finds its record.  An unusable number is passed over.          *)
RecordNext ==
  /\ sweep.at = "record" /\ Left # {}
  /\ IF sweep.report.calls[Nearest].usable
       THEN /\ \A h \in Same(Record) : h.line = sweep.line
            /\ history' = IF Same(Record) = {} THEN history \cup {Record}
                                               ELSE history
       ELSE UNCHANGED history
  /\ sweep' = [sweep EXCEPT !.position = Nearest]
  /\ UNCHANGED <<bridge, cursor, passedBy, stops>>

(* The record exists on another line: a conflict, which ends the sweep.    *)
RecordConflicts ==
  /\ sweep.at = "record" /\ Left # {}
  /\ sweep.report.calls[Nearest].usable
  /\ \E h \in Same(Record) : h.line # sweep.line
  /\ sweep' = NoSweep
  /\ UNCHANGED <<bridge, cursor, history, passedBy, stops>>

Saved == [boot |-> sweep.report.boot, sim |-> sweep.line,
          last |-> sweep.position]

SaveCursor ==
  /\ sweep.at = "record" /\ Left = {}
  /\ cursor' = Saved
  /\ sweep' = NoSweep
  /\ UNCHANGED <<bridge, history, passedBy, stops>>

(* The service stops, or a write fails: records stay, the cursor too.      *)
SweepStops ==
  /\ sweep # NoSweep
  /\ stops < MaxStops /\ stops' = stops + 1
  /\ sweep' = NoSweep
  /\ UNCHANGED <<bridge, cursor, history, passedBy>>

SweepStep == StartSweep \/ ReadAgain \/ RecordNext \/ RecordConflicts
               \/ SaveCursor

CallNext ==
  \/ \E usable \in BOOLEAN : Ring(usable)
  \/ BridgeRestarts
  \/ \E s \in CallSims : SwapSim(s)
  \/ SweepStep \/ SweepStops

CallSpec == CallInit /\ [][CallNext]_callVars

-----------------------------------------------------------------------------

InHistory(n) == \E h \in history : h.boot = boot /\ h.sequence = n

(* The cursor never passes a call silently: up to it, every call of this   *)
(* boot is in the history, unusable, passed by with its SIM, or was        *)
(* overwritten before it could be read, whatever stops, restarts or is     *)
(* exchanged in between (inbound.go:182-199).                              *)
NoneIsPassed ==
  /\ CallTypeOK
  /\ cursor # NoCursor /\ cursor.boot = boot =>
       /\ cursor.last <= Latest
       /\ \A n \in 1 .. cursor.last :
            InHistory(n) \/ n \in passedBy \/ ~ringing[n].usable \/ n < Oldest
=============================================================================
