----------------------------- MODULE VoiceCalls -----------------------------
(***************************************************************************)
(* The call records of the voice service: dialling, incoming calls and     *)
(* their transitions.  Each operation holds Service.mu from its first read *)
(* to its last write, but the requests of several users, a cancelled       *)
(* request and a restart fall between the two writes of a Dial.  Observed  *)
(* missed calls (CallEvents) are written as ended and never keep a Line    *)
(* busy.                                                                   *)
(*                                                                         *)
(* A request is [operation, line, number, direction]; the id of a call is  *)
(* its operation.  DTMF reads only.                                        *)
(***************************************************************************)
EXTENDS Naturals, FiniteSets

CONSTANTS
  VoiceLines,
  Requests,       \* call requests that may be made, repeated or confused
  MaxReadiness,   \* bound: changes of a Line's readiness
  MaxCallFaults   \* bound: failed or cancelled writes and restarts

ASSUME VoiceAssumption == MaxReadiness \in Nat /\ MaxCallFaults \in Nat

VARIABLES
  ready,      \* Lines that are ready and have CellularVoice
  admitted,   \* requests past requireLine, waiting for Service.mu
  mu,         \* the Dial that has created its record and holds mu
  calls,      \* call_records: request -> state and end reason
  ends,       \* the reason each ended call was first given
  readiness, callFaults

voiceVars == <<ready, admitted, mu, calls, ends, readiness, callFaults>>

Busy == {"incoming", "dialing", "active"}
Over == {"ended", "failed"}
CallFault == callFaults < MaxCallFaults /\ callFaults' = callFaults + 1

VoiceTypeOK ==
  /\ ready \subseteq VoiceLines /\ admitted \subseteq Requests
  /\ mu \subseteq Requests /\ Cardinality(mu) <= 1
  /\ DOMAIN calls \subseteq Requests
  /\ \A r \in DOMAIN calls : calls[r] \in Busy \cup Over
  /\ ends \subseteq Requests \X {"rejected", "hangup", "interrupted"}
  /\ readiness \in 0 .. MaxReadiness /\ callFaults \in 0 .. MaxCallFaults

VoiceInit ==
  /\ ready \in SUBSET VoiceLines
  /\ admitted = {} /\ mu = {} /\ calls = << >> /\ ends = {}
  /\ readiness = 0 /\ callFaults = 0

-----------------------------------------------------------------------------

(* External: the topology changes.                                         *)
ChangeReadiness(l) ==
  /\ readiness < MaxReadiness /\ readiness' = readiness + 1
  /\ ready' = IF l \in ready THEN ready \ {l} ELSE ready \cup {l}
  /\ UNCHANGED <<admitted, mu, calls, ends, callFaults>>

(* requireLine, before the lock: the Line may change until the lock is     *)
(* taken.                                                                  *)
Admit(r) ==
  /\ r \notin admitted
  /\ r.line \in ready
  /\ admitted' = admitted \cup {r}
  /\ UNCHANGED <<ready, mu, calls, ends, readiness, callFaults>>

(* replayOrBusy: a known operation is answered with its record, and with a *)
(* conflict if the request differs; else the Line must be free.            *)
Known(r) == {k \in DOMAIN calls : k.operation = r.operation}
LineBusy(line) == \E k \in DOMAIN calls : k.line = line /\ calls[k] \in Busy
MutantFree(line) == \A k \in DOMAIN calls : k.line = line => calls[k] # "active"
Free(line) == ~LineBusy(line)

Locked(r) == r \in admitted /\ mu = {}
Done(r) == admitted' = admitted \ {r}
Put(r, state) ==
  calls' = [k \in DOMAIN calls \cup {r} |-> IF k = r THEN state ELSE calls[k]]

(* A replay, a conflict, a busy Line, or an error before the first write.  *)
Refuse(r) ==
  /\ Locked(r)
  /\ Known(r) # {} \/ ~Free(r.line)
  /\ Done(r)
  /\ UNCHANGED <<ready, mu, calls, ends, readiness, callFaults>>

RequestFails(r) ==
  /\ Locked(r) /\ CallFault
  /\ Done(r)
  /\ UNCHANGED <<ready, mu, calls, ends, readiness>>

Incoming(r) ==
  /\ Locked(r) /\ r.direction = "inbound"
  /\ Known(r) = {} /\ Free(r.line)
  /\ Put(r, "incoming") /\ Done(r)
  /\ UNCHANGED <<ready, mu, ends, readiness, callFaults>>

Dial(r) ==
  /\ Locked(r) /\ r.direction = "outbound"
  /\ Known(r) = {} /\ Free(r.line)
  /\ Put(r, "dialing") /\ mu' = {r}
  /\ UNCHANGED <<ready, admitted, ends, readiness, callFaults>>

DialActive(r) ==
  /\ r \in mu
  /\ Put(r, "active") /\ mu' = {} /\ Done(r)
  /\ UNCHANGED <<ready, ends, readiness, callFaults>>

(* The second write fails: the record stays dialing.                       *)
DialUnfinished(r) ==
  /\ r \in mu /\ CallFault
  /\ mu' = {} /\ Done(r)
  /\ UNCHANGED <<ready, calls, ends, readiness>>

(* transition: the states it may leave, under the lock.                    *)
From(action) == [answer |-> {"incoming"}, reject |-> {"incoming"},
                 hangup |-> {"dialing", "active"}][action]

Answer(r) ==
  /\ r \in DOMAIN calls /\ mu = {}
  /\ calls[r] \in From("answer")
  /\ Put(r, "active")
  /\ UNCHANGED <<ready, admitted, mu, ends, readiness, callFaults>>

EndCall(r, action, reason) ==
  /\ r \in DOMAIN calls /\ mu = {}
  /\ calls[r] \in From(action)
  /\ Put(r, "ended") /\ ends' = ends \cup {<<r, reason>>}
  /\ UNCHANGED <<ready, admitted, mu, readiness, callFaults>>

(* ReconcileCalls in New: calls of the last run are failed.                *)
RestartVoice ==
  /\ CallFault
  /\ admitted' = {} /\ mu' = {}
  /\ calls' = [k \in DOMAIN calls |->
                 IF calls[k] \in Busy THEN "failed" ELSE calls[k]]
  /\ ends' = ends \cup ({k \in DOMAIN calls : calls[k] \in Busy}
                          \X {"interrupted"})
  /\ UNCHANGED <<ready, readiness>>

VoiceNext ==
  \/ \E l \in VoiceLines : ChangeReadiness(l)
  \/ \E r \in Requests :
       \/ Admit(r) \/ Refuse(r) \/ RequestFails(r)
       \/ Incoming(r) \/ Dial(r) \/ DialActive(r) \/ DialUnfinished(r)
       \/ Answer(r) \/ EndCall(r, "reject", "rejected")
       \/ EndCall(r, "hangup", "hangup")
  \/ RestartVoice

VoiceSpec == VoiceInit /\ [][VoiceNext]_voiceVars

-----------------------------------------------------------------------------

(* A Line has at most one call in progress, an operation one call, and a   *)
(* call one end with one reason, however requests, failed writes and       *)
(* restarts fall together (replayOrBusy, service.go:219-240).              *)
OneCallOnALine ==
  /\ VoiceTypeOK
  /\ \A k, m \in DOMAIN calls :
       calls[k] \in Busy /\ calls[m] \in Busy /\ k.line = m.line => k = m
  /\ \A k, m \in DOMAIN calls : k.operation = m.operation => k = m
  /\ \A k \in DOMAIN calls :
       Cardinality({e \in ends : e[1] = k}) = IF calls[k] \in Over THEN 1 ELSE 0
=============================================================================
