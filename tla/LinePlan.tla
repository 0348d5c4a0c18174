------------------------------ MODULE LinePlan ------------------------------
(***************************************************************************)
(* Managed modems and Lines over hardware that moves: modem.Service,       *)
(* line.Service, the inventory they read (AgentSource with its five-second *)
(* probe cache) and the records they keep.                                 *)
(*                                                                         *)
(* A request reads records, a snapshot and a probe one after another; the  *)
(* hardware may change, and another request may write, in between.  A port *)
(* is a device id of the agent.  The generation that a scan gives a device *)
(* is named by how often a modem was plugged in until then.  What a modem  *)
(* or a SIM is called is its fingerprint.                                  *)
(***************************************************************************)
EXTENDS Naturals, FiniteSets

CONSTANTS
  Clients,           \* requests that may run at once
  DevicePorts,
  Equipment,         \* modems; two with one IMEI are of one identity
  ImeiOf(_),         \* their identities, NoIdentity when it cannot be read
  Cards,             \* SIMs
  NoModem, NoCard, NoIdentity,
  Asked,             \* the kinds of request this instance looks at
  MaxExchanges,      \* bound: modems and SIMs plugged in or out
  MaxRequests        \* bound: requests

VARIABLES
  placed,       \* the modem in each port
  cards,        \* the SIM in each modem
  number,       \* how often a modem was plugged into each port
  published,    \* the agent's snapshot: modem and device generation of each port
  modemRecords, \* managed_modems: legacy port or identity
  lineRecords,  \* managed_lines: modem record and SIM
  probeCache,   \* AgentSource.probe with the generation it is of
  requests,     \* what each request has read and does next
  done,         \* history: what reached a modem, and for which record
  exchanges, asked

planVars == <<placed, cards, number, published, modemRecords, lineRecords, probeCache,
              requests, done, exchanges, asked>>
planRecords == <<modemRecords, lineRecords>>
world       == <<placed, cards, number, published, exchanges>>

ModemKinds == {"list", "add", "radio", "imei"}
LineKinds  == {"addLine", "send"}
Resting == [kind |-> "none"]
Blank == [p \in DevicePorts |-> [imei |-> NoIdentity, card |-> NoCard]]
NoCache == [numbers |-> <<>>, seen |-> Blank]
Here == [p \in DevicePorts |-> IF published[p].modem = NoModem THEN 0 ELSE published[p].number]
Identities == {ImeiOf(m) : m \in Equipment} \ {NoIdentity}

Ids == Nat \ {0}
ModemRecord == [id : Ids, port : DevicePorts \cup {NoModem},
                imei : Identities \cup {NoIdentity}]
LineRecord == [id : Ids, modem : Ids, card : Cards]
Running == {c \in Clients : requests[c] # Resting}
At(c, step) == c \in Running /\ requests[c].at = step

Observations == [imei : Identities \cup {NoIdentity}, card : Cards \cup {NoCard}]
Plans == [kind : ModemKinds \cup LineKinds, record : Nat, card : Cards \cup {NoCard},
          port : DevicePorts \cup {NoModem},
          at : {"lines", "modems", "snapshot", "cache", "probe", "promote", "act",
                "command"},
          modems : SUBSET ModemRecord, lines : SUBSET LineRecord,
          numbers : [DevicePorts -> Nat], left : SUBSET DevicePorts,
          seen : [DevicePorts -> Observations], target : Nat]
Probes == [numbers : [DevicePorts -> Nat], seen : [DevicePorts -> Observations]]

PlanAssumption ==
  /\ NoModem \notin Equipment \cup DevicePorts /\ NoCard \notin Cards
  /\ Asked \subseteq ModemKinds \cup LineKinds
  /\ MaxExchanges \in Nat /\ MaxRequests \in Nat
ASSUME PlanAssumption

PlanTypeOK ==
  /\ placed \in [DevicePorts -> Equipment \cup {NoModem}]
  /\ cards \in [Equipment -> Cards \cup {NoCard}]
  /\ number \in [DevicePorts -> Nat \ {0}]
  /\ published \in [DevicePorts -> [modem : Equipment \cup {NoModem}, number : Nat \ {0}]]
  /\ modemRecords \subseteq ModemRecord /\ lineRecords \subseteq LineRecord
  /\ IsFiniteSet(modemRecords) /\ IsFiniteSet(lineRecords)
  /\ probeCache \in Probes \cup {NoCache}
  /\ DOMAIN requests = Clients /\ \A c \in Clients : requests[c] \in Plans \cup {Resting}
  /\ exchanges \in 0 .. MaxExchanges /\ asked \in 0 .. MaxRequests

(* The agent has made its first scan.  Either nothing is recorded, or a    *)
(* Line of a modem, or a modem by the port it was in when the records were *)
(* migrated from version 18.                                               *)
PlanInit ==
  \E m \in Equipment, n \in Equipment, p \in DevicePorts :
    /\ m # n
    /\ placed = [x \in DevicePorts |-> IF x = p THEN m ELSE n]
    /\ cards \in [Equipment -> Cards \cup {NoCard}]
    /\ cards[m] # NoCard
    /\ \A e \in Equipment : cards[e] # NoCard <=> e \in {m, n}
    /\ cards[m] # cards[n]
    /\ number = [x \in DevicePorts |-> 1]
    /\ published = [x \in DevicePorts |-> [modem |-> placed[x], number |-> 1]]
    /\ \/ modemRecords = {} /\ lineRecords = {}
       \/ modemRecords = {[id |-> 1, port |-> p, imei |-> NoIdentity]}
          /\ lineRecords = {}
       \/ /\ ImeiOf(m) # NoIdentity
          /\ modemRecords = {[id |-> 1, port |-> NoModem, imei |-> ImeiOf(m)]}
          /\ lineRecords = {[id |-> 1, modem |-> 1, card |-> cards[m]]}
    /\ probeCache = NoCache
    /\ requests = [c \in Clients |-> Resting]
    /\ done = {} /\ exchanges = 0 /\ asked = 0

-----------------------------------------------------------------------------
(* The hardware, external.  The agent learns what is plugged in with its   *)
(* next scan, and nothing of SIMs.                                         *)
Place(m, p) ==
  /\ exchanges < MaxExchanges /\ exchanges' = exchanges + 1
  /\ placed[p] # m
  /\ placed' = [x \in DevicePorts |-> IF x = p THEN m ELSE
                  IF placed[x] = m /\ m # NoModem THEN NoModem ELSE placed[x]]
  /\ number' = [number EXCEPT ![p] = IF m = NoModem THEN @ ELSE @ + 1]
  /\ UNCHANGED <<cards, published, planRecords, probeCache, requests, done, asked>>

MoveCard(s, m) ==
  /\ exchanges < MaxExchanges /\ exchanges' = exchanges + 1
  /\ cards[m] # s
  /\ cards' = [e \in Equipment |-> IF e = m THEN s ELSE
                 IF cards[e] = s /\ s # NoCard THEN NoCard ELSE cards[e]]
  /\ UNCHANGED <<placed, number, published, planRecords, probeCache, requests, done, asked>>

(* Monitor.Refresh: a device that appears or that reports another modem    *)
(* than before has a new generation.                                       *)
Scanned ==
  [p \in DevicePorts |->
     IF placed[p] \in {NoModem, published[p].modem}
       THEN [published[p] EXCEPT !.modem = placed[p]]
       ELSE [modem |-> placed[p], number |-> number[p]]]

Scan ==
  /\ published # Scanned /\ published' = Scanned
  /\ UNCHANGED <<placed, cards, number, exchanges, planRecords, probeCache, requests, done,
                 asked>>

(* Five seconds pass.                                                      *)
CacheExpires == /\ probeCache # NoCache
                /\ probeCache' = NoCache
                /\ UNCHANGED <<world, planRecords, requests, done, asked>>

-----------------------------------------------------------------------------
(* A request.  Service.mu of each service admits one that writes.          *)

Serial(kind) == kind \notin {"list", "send"}
SameService(k1, k2) == {k1, k2} \subseteq ModemKinds \/ {k1, k2} \subseteq LineKinds

Ask(c, kind, record, port, card) ==
  /\ c \notin Running
  /\ kind \in Asked
  /\ asked < MaxRequests /\ asked' = asked + 1
  /\ Serial(kind) => \A d \in Running : ~ (Serial(requests[d].kind)
                                           /\ SameService(kind, requests[d].kind))
  /\ kind \in {"radio", "imei", "addLine"} => \E r \in modemRecords : r.id = record
  /\ kind = "send" => \E l \in lineRecords : l.id = record
  /\ requests' = [requests EXCEPT ![c] =
       [kind |-> kind, record |-> record, port |-> port, card |-> card,
        at |-> IF kind \in LineKinds THEN "lines" ELSE "modems",
        modems |-> {}, lines |-> {}, numbers |-> [p \in DevicePorts |-> 0],
        left |-> {}, seen |-> Blank, target |-> 0]]
  /\ UNCHANGED <<world, planRecords, probeCache, done>>

Does(c, request) == requests' = [requests EXCEPT ![c] = request]
Ends(c) == requests' = [requests EXCEPT ![c] = Resting]
OnlyRequests == UNCHANGED <<world, planRecords, probeCache, done, asked>>

ReadLines(c) ==
  /\ At(c, "lines")
  /\ Does(c, [requests[c] EXCEPT !.at = "modems", !.lines = lineRecords])
  /\ OnlyRequests

ReadModems(c) ==
  /\ At(c, "modems")
  /\ Does(c, [requests[c] EXCEPT !.at = "snapshot", !.modems = modemRecords])
  /\ OnlyRequests

TakeSnapshot(c) ==
  /\ At(c, "snapshot")
  /\ Does(c, [requests[c] EXCEPT !.at = "cache", !.numbers = Here])
  /\ OnlyRequests

(* cachedProbe: AgentSource.mu is held to the end of the probe.            *)
MutantCacheHit(c) == probeCache # NoCache
CacheHit(c) == probeCache.numbers = requests[c].numbers

(* NormalizeAndValidate: one SIM in two slots makes a snapshot invalid.    *)
ValidTopology(seen) == \A p, q \in DevicePorts :
  p # q /\ seen[p].card # NoCard => seen[p].card # seen[q].card

Resolves(c, seen) ==
  IF ValidTopology(seen)
    THEN Does(c, [requests[c] EXCEPT !.seen = seen, !.left = {},
                  !.at = IF requests[c].kind \in ModemKinds THEN "promote" ELSE "act"])
    ELSE Ends(c)

LookUp(c) ==
  /\ At(c, "cache")
  /\ \A d \in Clients : ~ At(d, "probe")
  /\ IF CacheHit(c)
       THEN Resolves(c, probeCache.seen)
       ELSE Does(c, [requests[c] EXCEPT !.at = "probe",
                  !.left = {p \in DevicePorts : requests[c].numbers[p] # 0}])
  /\ OnlyRequests

(* The modems are probed one after another.                                *)
ProbePort(c, p) ==
  /\ At(c, "probe") /\ p \in requests[c].left
  /\ Does(c, [requests[c] EXCEPT !.left = @ \ {p},
              !.seen[p] = IF placed[p] = NoModem THEN Blank[p]
                ELSE [imei |-> ImeiOf(placed[p]), card |-> cards[placed[p]]]])
  /\ OnlyRequests

(* A probe that failed or is of another snapshot identifies nothing.       *)
EndProbe(c) ==
  /\ At(c, "probe")
  /\ \/ /\ requests[c].left = {} /\ requests[c].numbers = Here
        /\ Resolves(c, requests[c].seen)
        /\ probeCache' = [numbers |-> Here, seen |-> requests[c].seen]
     \/ /\ requests[c].left # {} \/ requests[c].numbers # Here
        /\ Resolves(c, Blank)
        /\ UNCHANGED probeCache
  /\ UNCHANGED <<world, planRecords, done, asked>>

-----------------------------------------------------------------------------
(* Matching records and devices.                                           *)

Observed(c) == {p \in DevicePorts : requests[c].numbers[p] # 0}
ByEquipment(c, imei) == {p \in Observed(c) : requests[c].seen[p].imei = imei}
Unique(c, p) == /\ requests[c].seen[p].imei # NoIdentity
                /\ ByEquipment(c, requests[c].seen[p].imei) = {p}

(* At most one device: by identity, or by port while none is bound.        *)
ManagedObservation(c, r) ==
  IF r.imei = NoIdentity THEN {r.port} \cap Observed(c)
    ELSE {p \in Observed(c) : requests[c].seen[p].imei = r.imei /\ Unique(c, p)}

(* The Line's card is in the slot of its modem.                            *)
ResolvedLine(c, l) ==
  UNION {{p \in ManagedObservation(c, r) : requests[c].seen[p].card = l.card} :
           r \in {r \in requests[c].modems : r.id = l.modem}}

Promotable(c) ==
  {r \in requests[c].modems :
     /\ r.imei = NoIdentity /\ r.port \in Observed(c) /\ Unique(c, r.port)
     /\ \A x \in requests[c].modems : x.imei # requests[c].seen[r.port].imei}

(* promoteLegacyBindings, one record at a time.  The update is refused for *)
(* a record bound otherwise and by the unique index.                       *)
Promote(c) ==
  /\ At(c, "promote")
  /\ IF Promotable(c) = {}
       THEN Does(c, [requests[c] EXCEPT !.at = "act"]) /\ UNCHANGED modemRecords
       ELSE \E r \in Promotable(c) :
         LET imei == requests[c].seen[r.port].imei
             bound == [r EXCEPT !.port = NoModem, !.imei = imei]
             stored == {x \in modemRecords : x.id = r.id}
         IN IF \/ \E x \in stored : x.imei \notin {NoIdentity, imei}
               \/ \E x \in modemRecords \ stored : x.imei = imei
              THEN Ends(c) /\ UNCHANGED modemRecords
              ELSE /\ modemRecords' = (modemRecords \ stored) \cup {bound}
                   /\ Does(c, [requests[c] EXCEPT !.modems = (@ \ {r}) \cup {bound}])
  /\ UNCHANGED <<world, lineRecords, probeCache, done, asked>>

-----------------------------------------------------------------------------
(* What the requests do with it.                                           *)

(* No record is deleted.                                                   *)
NewId(used) == Cardinality(used) + 1

(* CreateManagedModem is refused by the unique index.                      *)
AddModem(c) ==
  /\ At(c, "act") /\ requests[c].kind = "add"
  /\ LET p == requests[c].port
         new == [id |-> NewId(modemRecords), port |-> NoModem,
                 imei |-> requests[c].seen[p].imei]
     IN IF /\ p \in Observed(c) /\ Unique(c, p)
           /\ \A r \in requests[c].modems : r.imei # new.imei /\ r.port # p
           /\ \A r \in modemRecords : r.imei # new.imei
          THEN modemRecords' = modemRecords \cup {new}
          ELSE UNCHANGED modemRecords
  /\ Ends(c)
  /\ UNCHANGED <<world, lineRecords, probeCache, done, asked>>

SameLine(l, k) == l.modem = k.modem /\ l.card = k.card

LineCandidate(c, new) == /\ ResolvedLine(c, new) # {}
                         /\ \A l \in requests[c].lines : ~ SameLine(l, new)

(* CreateManagedLine is refused by UNIQUE(modem, subscription).            *)
AddLine(c) ==
  /\ At(c, "act") /\ requests[c].kind = "addLine"
  /\ LET new == [id |-> NewId(lineRecords), modem |-> requests[c].record,
                 card |-> requests[c].card]
     IN IF LineCandidate(c, new) /\ \A l \in lineRecords : ~ SameLine(l, new)
          THEN lineRecords' = lineRecords \cup {new}
          ELSE UNCHANGED lineRecords
  /\ Ends(c)
  /\ UNCHANGED <<world, modemRecords, probeCache, done, asked>>

(* List, or a record that resolves to nothing: an answer and no command.   *)
Targets(c) ==
  IF requests[c].kind = "send"
    THEN UNION {ResolvedLine(c, l) : l \in {l \in requests[c].lines :
                                              l.id = requests[c].record}}
    ELSE UNION {ManagedObservation(c, r) : r \in {r \in requests[c].modems :
                                                    r.id = requests[c].record}}

Answers(c) ==
  /\ At(c, "act") /\ requests[c].kind \in {"list", "radio", "imei", "send"}
  /\ requests[c].kind = "list" \/ Targets(c) = {}
  /\ Ends(c) /\ OnlyRequests

(* A message is fenced by what the topology says (ResolveRuntimeIdentity,  *)
(* which wants an identified modem); the RF switch and the reading of the  *)
(* IMEI take a new snapshot for their fence.                               *)
Fence(c, p) ==
  IF requests[c].kind # "send" THEN Here[p]
    ELSE IF requests[c].seen[p].imei = NoIdentity THEN 0 ELSE requests[c].numbers[p]

Command(c) ==
  /\ At(c, "act") /\ requests[c].kind \in {"radio", "imei", "send"}
  /\ \E p \in Targets(c) :
       IF Fence(c, p) = 0 THEN Ends(c)
         ELSE Does(c, [requests[c] EXCEPT !.at = "command", !.port = p, !.target = Fence(c, p)])
  /\ OnlyRequests

(* The agent compares the device's generation and, for a message, both     *)
(* identities; ReadEquipmentIdentity compares its answer with the record.  *)
Confirmed(c, m) ==
  LET seen == requests[c].seen[requests[c].port]
      bound == {r.imei : r \in {r \in requests[c].modems : r.id = requests[c].record}}
  IN CASE requests[c].kind = "send" -> ImeiOf(m) = seen.imei /\ cards[m] = seen.card
       [] requests[c].kind = "imei" -> bound = {ImeiOf(m)}
       [] OTHER -> TRUE

Deliver(c) ==
  /\ At(c, "command")
  /\ LET p == requests[c].port
         m == placed[p]
     IN done' = IF Here[p] = requests[c].target /\ m # NoModem /\ Confirmed(c, m)
          THEN done \cup {[kind |-> requests[c].kind, record |-> requests[c].record,
                           imei |-> ImeiOf(m), card |-> cards[m],
                           replugged |-> number[p] # requests[c].numbers[p],
                           known |-> requests[c].modems]}
          ELSE done
  /\ Ends(c)
  /\ UNCHANGED <<world, planRecords, probeCache, asked>>

(* A statement or a call fails, or the client goes away.                   *)
GiveUp(c) == c \in Running /\ Ends(c) /\ OnlyRequests

PlanNext ==
  \/ \E p \in DevicePorts : \E m \in Equipment \cup {NoModem} : Place(m, p)
  \/ \E s \in Cards \cup {NoCard}, m \in Equipment : MoveCard(s, m)
  \/ Scan \/ CacheExpires
  \/ \E c \in Clients :
       \/ Ask(c, "list", 0, NoModem, NoCard)
       \/ \E p \in DevicePorts : Ask(c, "add", 0, p, NoCard)
       \/ \E kind \in {"radio", "imei", "send"}, i \in 1 .. MaxRequests + 1 :
            Ask(c, kind, i, NoModem, NoCard)
       \/ \E i \in 1 .. MaxRequests + 1, s \in Cards : Ask(c, "addLine", i, NoModem, s)
       \/ ReadLines(c) \/ ReadModems(c) \/ TakeSnapshot(c) \/ LookUp(c)
       \/ \E p \in DevicePorts : ProbePort(c, p)
       \/ EndProbe(c) \/ Promote(c)
       \/ AddModem(c) \/ AddLine(c) \/ Answers(c) \/ Command(c) \/ Deliver(c)
       \/ GiveUp(c)

PlanSpec == PlanInit /\ [][PlanNext]_planVars

-----------------------------------------------------------------------------
RecordOf(d) == {r \in d.known : r.id = d.record}

(* What a message of a Line goes out over is the Line's own SIM, and its   *)
(* own modem once that has an identity.                                    *)
MessagesKeepTheirLine ==
  \A d \in done, l \in lineRecords :
    d.kind = "send" /\ l.id = d.record =>
      /\ d.card = l.card
      /\ \A r \in d.known : r.id = l.modem => r.imei \in {NoIdentity, d.imei}

(* The RF switch reaches its modem, unless another one was plugged into    *)
(* the port after the scan the topology is of: nothing names the modem.    *)
RadioReachesItsModem ==
  \A d \in done : \A r \in RecordOf(d) :
    d.kind = "radio" => d.replugged \/ r.imei \in {NoIdentity, d.imei}

(* An IMEI that is shown is the record's, whatever was plugged since.      *)
ImeiIsItsModems ==
  \A d \in done : d.kind = "imei" => \A r \in RecordOf(d) : r.imei = d.imei

(* Two records never claim one modem, and two Lines of bound modems never  *)
(* resolve to one device.                                                  *)
NothingIsClaimedTwice ==
  /\ \A r, x \in modemRecords : r.imei = x.imei /\ r.imei # NoIdentity => r = x
  /\ \A c \in Clients : At(c, "act") => \A l, k \in requests[c].lines :
       l # k /\ (\A r \in requests[c].modems :
                   r.id \in {l.modem, k.modem} => r.imei # NoIdentity)
         => ResolvedLine(c, l) \cap ResolvedLine(c, k) = {}

PlanIsSafe == /\ PlanTypeOK
              /\ MessagesKeepTheirLine
              /\ RadioReachesItsModem
              /\ ImeiIsItsModems
              /\ NothingIsClaimedTwice
=============================================================================
