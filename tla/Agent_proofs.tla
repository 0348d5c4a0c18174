---------------------------- MODULE Agent_proofs ----------------------------
(* Theorems of the components of Agent: the device gate, the news of the   *)
(* hardware, radio commands and leases, the SIM, and conversations with a  *)
(* modem.  They are for any operations, devices, browsers, requests,       *)
(* holders, limits, cards and transports, and any number of exchanges,     *)
(* changes, restarts, commands and faults.                                 *)
EXTENDS Agent, FiniteSetTheorems, SequenceTheorems, WellFoundedInduction, TLAPS

-----------------------------------------------------------------------------
(* The device gate.                                                        *)

Joined(o) == operations[o] # Idle /\ operations[o].at # "requested"

(* An operation that has joined is at its device's entry, and no two       *)
(* devices share one.                                                      *)
EntriesAreKnown ==
  /\ \A o \in Operations : Joined(o) =>
       /\ operations[o].entry \in GateEntries
       /\ gateMap[operations[o].port] = operations[o].entry
  /\ \A o \in Operations : operations[o] # Idle /\ ~Joined(o) =>
       operations[o].entry = NoGateEntry
  /\ \A p, q \in Ports : gateMap[p] = gateMap[q] /\ gateMap[p] # NoGateEntry => p = q

(* An entry counts the operations at it, and is in the map only with one.  *)
ReferencesAreCounted ==
  /\ \A n \in GateEntries : refs[n] = Cardinality(Referring(n))
  /\ \A p \in Ports : gateMap[p] # NoGateEntry => Referring(gateMap[p]) # {}

(* The token is in the channel or with one operation.                      *)
TokenIsHeld ==
  /\ \A o \in Operations : InGate(o) => ~token[operations[o].entry]
  /\ \A o, q \in Operations :
       InGate(o) /\ InGate(q) /\ operations[o].entry = operations[q].entry => o = q

(* What was checked still holds or was noted; a report that differs from   *)
(* the one an operation was admitted on never shows its fence again.       *)
CheckIsKept(o) ==
  operations[o] # Idle =>
    /\ operations[o].generation <= published[operations[o].port].generation
    /\ operations[o].at = "probed" =>
         /\ operations[o].kind = "message"
         /\ operations[o].shown =>
              \/ published[operations[o].port].modem = Nothing
              \/ published[operations[o].port].generation > operations[o].generation
    /\ operations[o].at \in {"probed", "dispatch"} /\ ~operations[o].moved =>
         /\ operations[o].kind = "message" => Named(o)
         /\ operations[o].kind = "authentication" => Asked(o).sim = operations[o].sim
    /\ operations[o].at \notin {"probed", "leaving", "dropping"} => ~operations[o].shown
ChecksAreKept == \A o \in Operations : CheckIsKept(o)

(* The inductive invariant behind GateIsSafe.                              *)
GateInv == /\ GateTypeOK
           /\ EntriesAreKnown /\ ReferencesAreCounted /\ TokenIsHeld
           /\ ChecksAreKept

LEMMA GateConstants ==
  /\ Nothing \notin Modems /\ NoGateEntry \notin GateEntries
  /\ IsFiniteSet(Operations) /\ IsFiniteSet(GateEntries)
  /\ Cardinality(Operations) <= Cardinality(GateEntries)
  /\ MaxMoves \in Nat
BY GateAssumption DEF GateAssumption

LEMMA GateInvIsSafe == GateInv => GateIsSafe
<1> SUFFICES ASSUME GateInv PROVE GateIsSafe
  OBVIOUS
<1>1. OneInGate
  <2>1. \A o \in Operations : InGate(o) => Joined(o)
    BY DEF InGate, Joined
  <2>2. ASSUME NEW o \in Operations, NEW q \in Operations, InGate(o), InGate(q),
               operations[o].port = operations[q].port
        PROVE  o = q
    <3>1. operations[o].entry = operations[q].entry
      BY <2>1, <2>2 DEF GateInv, EntriesAreKnown
    <3>2. QED
      BY <2>2, <3>1 DEF GateInv, TokenIsHeld
  <2>3. QED
    BY <2>2 DEF GateInv, OneInGate, ReferencesAreCounted
<1>2. ReachesTheNamed
  BY DEF GateInv, ChecksAreKept, CheckIsKept, ReachesTheNamed, IsAt
<1>3. NoneKnownStale
  BY DEF GateInv, ChecksAreKept, CheckIsKept, NoneKnownStale, IsAt
<1>4. QED
  BY <1>1, <1>2, <1>3 DEF GateInv, GateIsSafe

LEMMA GateInvInit == GateInit => GateInv
<1> SUFFICES ASSUME GateInit PROVE GateInv
  OBVIOUS
<1>1. \A o \in Operations : operations[o] = Idle
  BY DEF GateInit
<1>2. GateTypeOK
  BY GateConstants DEF GateInit, GateTypeOK, Devices
<1>3. EntriesAreKnown /\ TokenIsHeld /\ ChecksAreKept
  BY <1>1 DEF EntriesAreKnown, TokenIsHeld, ChecksAreKept, CheckIsKept, Joined, InGate,
              GateInit
<1>4. ReferencesAreCounted
  <2>1. \A n : Referring(n) = {}
    BY <1>1 DEF Referring
  <2>2. QED
    BY <2>1, FS_EmptySet DEF GateInit, ReferencesAreCounted
<1>5. QED
  BY <1>2, <1>3, <1>4 DEF GateInv

-----------------------------------------------------------------------------
(* Records of operations.                                                  *)

LEMMA UnderwayIsNotIdle == \A u \in Underway : u # Idle
BY DEF Underway, Idle, OperationSteps

(* u and w differ at most in where the operation is and in what it noted.  *)
Alike(u, w) == /\ w.kind = u.kind /\ w.port = u.port /\ w.generation = u.generation
               /\ w.modem = u.modem /\ w.sim = u.sim
Noted(u, w) == w.moved = u.moved /\ w.shown = u.shown

LEMMA MovesOn ==
  ASSUME NEW u \in Underway, NEW at \in OperationSteps
  PROVE  LET w == [u EXCEPT !.at = at]
         IN  /\ w \in Underway /\ Alike(u, w) /\ Noted(u, w)
             /\ w.entry = u.entry /\ w.at = at
BY DEF Underway, Alike, Noted

LEMMA Stepped ==
  ASSUME GateTypeOK, NEW o \in Operations, operations[o] # Idle,
         NEW at \in OperationSteps, Step(o, at)
  PROVE  /\ operations' \in [Operations -> Underway \cup {Idle}]
         /\ operations[o] \in Underway /\ operations'[o] \in Underway
         /\ operations'[o] # Idle /\ operations'[o].at = at
         /\ Alike(operations[o], operations'[o]) /\ Noted(operations[o], operations'[o])
         /\ operations'[o].entry = operations[o].entry
         /\ \A q \in Operations : q # o => operations'[q] = operations[q]
<1>1. operations \in [Operations -> Underway \cup {Idle}] /\ operations[o] \in Underway
  BY DEF GateTypeOK
<1>2. /\ operations'[o] = [operations[o] EXCEPT !.at = at]
      /\ \A q \in Operations : q # o => operations'[q] = operations[q]
      /\ DOMAIN operations' = Operations
      /\ operations' = [q \in Operations |-> operations'[q]]
  BY <1>1 DEF Step
<1>3. /\ operations'[o] \in Underway /\ operations'[o].at = at
      /\ Alike(operations[o], operations'[o]) /\ Noted(operations[o], operations'[o])
      /\ operations'[o].entry = operations[o].entry
  BY <1>1, <1>2, MovesOn
<1>4. operations' \in [Operations -> Underway \cup {Idle}]
  BY <1>1, <1>2, <1>3
<1>5. QED
  BY <1>1, <1>2, <1>3, <1>4, UnderwayIsNotIdle

-----------------------------------------------------------------------------
(* Steps that leave the gate alone, and steps that leave the devices alone. *)

LEMMA GateUntouched ==
  ASSUME GateInv, UNCHANGED gateItself,
         \A o \in Operations :
           /\ operations'[o] = Idle <=> operations[o] = Idle
           /\ operations[o] # Idle =>
                /\ operations'[o].entry = operations[o].entry
                /\ operations'[o].port = operations[o].port
           /\ Joined(o)' <=> Joined(o)
           /\ InGate(o)' => InGate(o)
  PROVE  EntriesAreKnown' /\ ReferencesAreCounted' /\ TokenIsHeld'
<1>1. gateMap' = gateMap /\ refs' = refs /\ token' = token
  BY DEF gateItself
<1>2. \A n : Referring(n)' = Referring(n)
  BY DEF Referring
<1>3. EntriesAreKnown'
  BY <1>1 DEF GateInv, EntriesAreKnown, Joined
<1>4. ReferencesAreCounted'
  BY <1>1, <1>2 DEF GateInv, ReferencesAreCounted
<1>5. TokenIsHeld'
  <2>1. \A o \in Operations : InGate(o) => operations[o] # Idle
    BY DEF InGate
  <2>2. QED
    BY <1>1, <2>1 DEF GateInv, TokenIsHeld
<1>6. QED
  BY <1>3, <1>4, <1>5

LEMMA DevicesUntouched ==
  ASSUME GateInv, UNCHANGED deviceVars, NEW o \in Operations,
         \A q \in Operations : q # o => operations'[q] = operations[q],
         CheckIsKept(o)'
  PROVE  ChecksAreKept'
<1>1. plugged' = plugged /\ published' = published
  BY DEF deviceVars
<1>2. ASSUME NEW q \in Operations, q # o PROVE CheckIsKept(q)'
  <2>1. CheckIsKept(q)
    BY DEF GateInv, ChecksAreKept
  <2>2. QED
    BY <1>1, <1>2, <2>1 DEF CheckIsKept, Named, Asked
<1>3. QED
  BY <1>2 DEF ChecksAreKept

(* An operation that goes on to a step before or after its checks.         *)
LEMMA PlainStep ==
  ASSUME GateInv, NEW o \in Operations, operations[o] # Idle, UNCHANGED deviceVars,
         NEW at \in OperationSteps \ {"probed", "dispatch"},
         operations'[o] # Idle, operations'[o].at = at,
         Alike(operations[o], operations'[o]), Noted(operations[o], operations'[o]),
         at \in {"leaving", "dropping"} \/ operations[o].at \notin {"probed", "leaving", "dropping"}
  PROVE  CheckIsKept(o)'
<1>1. published' = published
  BY DEF deviceVars
<1>2. CheckIsKept(o)
  BY DEF GateInv, ChecksAreKept
<1>3. QED
  BY <1>1, <1>2 DEF CheckIsKept, Alike, Noted

-----------------------------------------------------------------------------
(* The devices: an exchange, a scan, a report.                             *)

LEMMA ExchangeKeepsGate ==
  ASSUME GateInv, NEW p \in Ports, NEW d \in Devices, Exchange(p, d)
  PROVE  GateInv'
<1> DEFINE Moves(o) == /\ operations[o] # Idle /\ operations[o].port = p
                       /\ operations[o].at \in {"probed", "dispatch"}
<1>1. /\ UNCHANGED gateItself /\ published' = published /\ scan' = scan
      /\ plugged' = [plugged EXCEPT ![p] = d]
      /\ moves < MaxMoves /\ moves' = moves + 1
      /\ operations' = [o \in Operations |->
           IF Moves(o) THEN [operations[o] EXCEPT !.moved = TRUE] ELSE operations[o]]
  BY DEF Exchange
<1> HIDE DEF Moves
<1>2. ASSUME NEW o \in Operations
      PROVE  /\ operations'[o] \in Underway \cup {Idle}
             /\ operations'[o] = Idle <=> operations[o] = Idle
             /\ operations[o] # Idle =>
                  /\ operations[o] \in Underway /\ operations'[o] \in Underway
                  /\ Alike(operations[o], operations'[o])
                  /\ operations'[o].at = operations[o].at
                  /\ operations'[o].entry = operations[o].entry
                  /\ operations'[o].shown = operations[o].shown
                  /\ operations'[o].moved = (operations[o].moved \/ Moves(o))
  <2>1. operations[o] \in Underway \cup {Idle}
    BY DEF GateInv, GateTypeOK
  <2>2. CASE Moves(o)
    <3>1. operations[o] \in Underway /\ operations[o] # Idle
      BY <2>1, <2>2 DEF Moves
    <3>2. operations'[o] = [operations[o] EXCEPT !.moved = TRUE]
      BY <1>1, <2>2
    <3>3. /\ operations'[o] \in Underway /\ Alike(operations[o], operations'[o])
          /\ operations'[o].at = operations[o].at /\ operations'[o].moved = TRUE
          /\ operations'[o].entry = operations[o].entry
          /\ operations'[o].shown = operations[o].shown
      BY <3>1, <3>2 DEF Underway, Alike
    <3>4. QED
      BY <2>2, <3>1, <3>3, UnderwayIsNotIdle
  <2>3. CASE ~Moves(o)
    <3>1. operations'[o] = operations[o]
      BY <1>1, <2>3
    <3>2. operations[o] \in Underway => operations[o].moved \in BOOLEAN
      BY DEF Underway
    <3>3. QED
      BY <2>1, <2>3, <3>1, <3>2 DEF Alike
  <2>4. QED
    BY <2>2, <2>3
<1>3. GateTypeOK'
  <2>1. operations' \in [Operations -> Underway \cup {Idle}]
    BY <1>1, <1>2
  <2>2. moves' \in 0 .. MaxMoves
    BY <1>1, GateConstants DEF GateInv, GateTypeOK
  <2>3. plugged' \in [Ports -> Devices]
    BY <1>1 DEF GateInv, GateTypeOK
  <2>4. QED
    BY <1>1, <2>1, <2>2, <2>3 DEF GateInv, GateTypeOK, gateItself
<1>4. EntriesAreKnown' /\ ReferencesAreCounted' /\ TokenIsHeld'
  <2>1. \A o \in Operations : (Joined(o)' <=> Joined(o)) /\ (InGate(o)' => InGate(o))
    BY <1>2 DEF Joined, InGate
  <2>2. QED
    BY <1>1, <1>2, <2>1, GateUntouched DEF Alike
<1>5. ASSUME NEW o \in Operations, operations'[o] # Idle PROVE CheckIsKept(o)'
  <2>1. CheckIsKept(o)
    BY DEF GateInv, ChecksAreKept
  <2>2. /\ operations[o] # Idle /\ operations[o] \in Underway
        /\ Alike(operations[o], operations'[o])
        /\ operations'[o].at = operations[o].at
        /\ operations'[o].shown = operations[o].shown
        /\ operations'[o].moved = (operations[o].moved \/ Moves(o))
    BY <1>2, <1>5
  <2>3. operations[o].port \in Ports
    BY <2>2 DEF Underway
  <2>4. ASSUME operations'[o].at \in {"probed", "dispatch"}, ~operations'[o].moved
        PROVE  plugged'[operations[o].port] = plugged[operations[o].port]
    <3>1. operations[o].port # p
      BY <2>2, <2>4 DEF Moves
    <3>2. QED
      BY <1>1, <2>3, <3>1 DEF GateInv, GateTypeOK
  <2>5. ASSUME operations'[o].at \in {"probed", "dispatch"}, ~operations'[o].moved
        PROVE  /\ operations'[o].kind = "message" => Named(o)'
               /\ operations'[o].kind = "authentication" => (Asked(o).sim = operations[o].sim)'
    <3>1. Asked(o)' = Asked(o)
      BY <2>2, <2>4, <2>5 DEF Asked, Alike
    <3>2. /\ operations[o].kind = "message" => Named(o)
          /\ operations[o].kind = "authentication" => Asked(o).sim = operations[o].sim
      BY <2>1, <2>2, <2>5 DEF CheckIsKept
    <3>3. QED
      BY <2>2, <3>1, <3>2 DEF Named, Alike
  <2>6. QED
    BY <1>1, <2>1, <2>2, <2>5 DEF CheckIsKept, Alike
<1>6. QED
  BY <1>3, <1>4, <1>5 DEF GateInv, ChecksAreKept, CheckIsKept

LEMMA ScanKeepsGate == GateInv /\ Scan => GateInv'
<1> SUFFICES ASSUME GateInv, Scan PROVE GateInv'
  OBVIOUS
<1>1. /\ UNCHANGED gateItself
      /\ UNCHANGED <<operations, plugged, published, moves>>
      /\ scan' = [p \in Ports |-> plugged[p].modem]
  BY DEF Scan
<1>2. scan' \in [Ports -> Modems \cup {Nothing}]
  BY <1>1 DEF GateInv, GateTypeOK, Devices
<1>3. GateTypeOK'
  BY <1>1, <1>2 DEF GateInv, GateTypeOK, gateItself
<1>4. EntriesAreKnown' /\ ReferencesAreCounted' /\ TokenIsHeld'
  BY <1>1, GateUntouched DEF Joined, InGate
<1>5. ChecksAreKept'
  BY <1>1 DEF GateInv, ChecksAreKept, CheckIsKept, Named, Asked
<1>6. QED
  BY <1>3, <1>4, <1>5 DEF GateInv

(* A report counts on or repeats the last one, and counts on when a device *)
(* appears where there was none.                                           *)
LEMMA Reported ==
  ASSUME GateTypeOK, scan # NoScan, NEW p \in Ports
  PROVE  /\ Report(p) \in [generation : Nat, modem : Modems \cup {Nothing}]
         /\ published[p].generation \in Nat /\ Report(p).generation \in Nat
         /\ Report(p).generation >= published[p].generation
         /\ Report(p) # published[p] =>
              \/ Report(p).modem = Nothing
              \/ Report(p).generation > published[p].generation
         /\ published[p].modem = Nothing =>
              \/ Report(p).modem = Nothing
              \/ Report(p).generation > published[p].generation
<1>1. /\ published[p] \in [generation : Nat, modem : Modems \cup {Nothing}]
      /\ scan[p] \in Modems \cup {Nothing}
  BY DEF GateTypeOK
<1>2. /\ Report(p).modem = scan[p]
      /\ Report(p).generation = IF scan[p] \notin {Nothing, published[p].modem}
                                  THEN published[p].generation + 1
                                  ELSE published[p].generation
      /\ Report(p) = [generation |-> Report(p).generation, modem |-> Report(p).modem]
  BY DEF Report
<1>3. published[p] = [generation |-> published[p].generation, modem |-> published[p].modem]
      /\ published[p].generation \in Nat
  BY <1>1
<1> HIDE DEF Report
<1>4. CASE scan[p] \notin {Nothing, published[p].modem}
  BY <1>1, <1>2, <1>3, <1>4
<1>5. CASE scan[p] = Nothing
  BY <1>1, <1>2, <1>3, <1>5
<1>6. CASE scan[p] # Nothing /\ scan[p] = published[p].modem
  <2>1. Report(p) = published[p]
    BY <1>2, <1>3, <1>6
  <2>2. QED
    BY <1>1, <1>3, <1>6, <2>1
<1>7. QED
  BY <1>4, <1>5, <1>6

LEMMA PublishKeepsGate == GateInv /\ PublishScan => GateInv'
<1> SUFFICES ASSUME GateInv, PublishScan PROVE GateInv'
  OBVIOUS
<1> DEFINE Shows(o) == /\ operations[o] # Idle /\ operations[o].at = "probed"
                       /\ Report(operations[o].port) # published[operations[o].port]
<1>1. /\ UNCHANGED gateItself /\ plugged' = plugged /\ moves' = moves
      /\ scan # NoScan /\ scan' = NoScan
      /\ published' = [p \in Ports |-> Report(p)]
      /\ operations' = [o \in Operations |->
           IF Shows(o) THEN [operations[o] EXCEPT !.shown = TRUE] ELSE operations[o]]
  BY DEF PublishScan
<1> HIDE DEF Shows
<1>2. ASSUME NEW o \in Operations
      PROVE  /\ operations'[o] \in Underway \cup {Idle}
             /\ operations'[o] = Idle <=> operations[o] = Idle
             /\ operations[o] # Idle =>
                  /\ operations[o] \in Underway /\ operations'[o] \in Underway
                  /\ Alike(operations[o], operations'[o])
                  /\ operations'[o].at = operations[o].at
                  /\ operations'[o].entry = operations[o].entry
                  /\ operations'[o].moved = operations[o].moved
                  /\ operations'[o].shown = (operations[o].shown \/ Shows(o))
  <2>1. operations[o] \in Underway \cup {Idle}
    BY DEF GateInv, GateTypeOK
  <2>2. CASE Shows(o)
    <3>1. operations[o] \in Underway /\ operations[o] # Idle
      BY <2>1, <2>2 DEF Shows
    <3>2. operations'[o] = [operations[o] EXCEPT !.shown = TRUE]
      BY <1>1, <2>2
    <3>3. /\ operations'[o] \in Underway /\ Alike(operations[o], operations'[o])
          /\ operations'[o].at = operations[o].at /\ operations'[o].shown = TRUE
          /\ operations'[o].entry = operations[o].entry
          /\ operations'[o].moved = operations[o].moved
      BY <3>1, <3>2 DEF Underway, Alike
    <3>4. QED
      BY <2>2, <3>1, <3>3, UnderwayIsNotIdle
  <2>3. CASE ~Shows(o)
    <3>1. operations'[o] = operations[o]
      BY <1>1, <2>3
    <3>2. operations[o] \in Underway => operations[o].shown \in BOOLEAN
      BY DEF Underway
    <3>3. QED
      BY <2>1, <2>3, <3>1, <3>2 DEF Alike
  <2>4. QED
    BY <2>2, <2>3
<1>3. GateTypeOK'
  <2>1. operations' \in [Operations -> Underway \cup {Idle}]
    BY <1>1, <1>2
  <2>2. published' \in [Ports -> [generation : Nat, modem : Modems \cup {Nothing}]]
    BY <1>1, Reported DEF GateInv
  <2>3. QED
    BY <1>1, <2>1, <2>2 DEF GateInv, GateTypeOK, gateItself
<1>4. EntriesAreKnown' /\ ReferencesAreCounted' /\ TokenIsHeld'
  <2>1. \A o \in Operations : (Joined(o)' <=> Joined(o)) /\ (InGate(o)' => InGate(o))
    BY <1>2 DEF Joined, InGate
  <2>2. QED
    BY <1>1, <1>2, <2>1, GateUntouched DEF Alike
<1>5. ASSUME NEW o \in Operations, operations'[o] # Idle PROVE CheckIsKept(o)'
  <2>1. CheckIsKept(o)
    BY DEF GateInv, ChecksAreKept
  <2>2. /\ operations[o] # Idle /\ operations[o] \in Underway
        /\ Alike(operations[o], operations'[o])
        /\ operations'[o].at = operations[o].at
        /\ operations'[o].moved = operations[o].moved
        /\ operations'[o].shown = (operations[o].shown \/ Shows(o))
    BY <1>2, <1>5
  <2> DEFINE p == operations[o].port
             n == operations[o].generation
  <2>3. p \in Ports /\ n \in Nat /\ operations'[o].port = p /\ operations'[o].generation = n
    BY <2>2 DEF Underway, Alike
  <2>4. published'[p] = Report(p)
    BY <1>1, <2>3
  <2>5. n <= published[p].generation
    BY <2>1, <2>2 DEF CheckIsKept
  <2>6. Shows(o) => Report(p) # published[p] /\ operations[o].at = "probed"
    BY DEF Shows
  <2>7. operations[o].at = "probed" /\ operations[o].shown =>
          published[p].modem = Nothing \/ published[p].generation > n
    BY <2>1, <2>2 DEF CheckIsKept
  <2> HIDE DEF p, n
  <2>8. n <= published'[p].generation
    BY <1>1, <2>3, <2>4, <2>5, Reported DEF GateInv
  <2>9. operations'[o].at = "probed" /\ operations'[o].shown =>
          published'[p].modem = Nothing \/ published'[p].generation > n
    <3> SUFFICES ASSUME operations'[o].at = "probed", operations'[o].shown
                 PROVE  published'[p].modem = Nothing \/ published'[p].generation > n
      OBVIOUS
    <3>1. CASE Shows(o)
      BY <1>1, <2>3, <2>4, <2>5, <2>6, <3>1, Reported DEF GateInv
    <3>2. CASE operations[o].shown
      BY <1>1, <2>2, <2>3, <2>4, <2>5, <2>7, <3>2, Reported DEF GateInv
    <3>3. QED
      BY <2>2, <3>1, <3>2
  <2>10. Asked(o)' = Asked(o) /\ (Named(o)' <=> Named(o))
    BY <1>1, <2>2 DEF Asked, Named, Alike
  <2>11. operations'[o].at # "probed" => (operations'[o].shown <=> operations[o].shown)
    BY <2>2, <2>6
  <2>12. /\ operations'[o].kind = operations[o].kind /\ operations'[o].sim = operations[o].sim
         /\ operations'[o].at = operations[o].at /\ operations'[o].moved = operations[o].moved
    BY <2>2 DEF Alike
  <2>13. QED
    BY <2>1, <2>2, <2>3, <2>8, <2>9, <2>10, <2>11, <2>12 DEF CheckIsKept
<1>6. QED
  BY <1>3, <1>4, <1>5 DEF GateInv, ChecksAreKept, CheckIsKept

-----------------------------------------------------------------------------
(* Inside the gate: the entry is not touched.                              *)

LEMMA InsideKeepsGate ==
  ASSUME GateInv, NEW o \in Operations, operations[o] # Idle,
         NEW at \in OperationSteps, Step(o, at), UNCHANGED <<gateItself, deviceVars>>,
         operations[o].at \in {"admitted", "fenced", "probed", "dispatch"},
         at \in {"fenced", "probed", "dispatch", "leaving"},
         CheckIsKept(o)'
  PROVE  GateInv'
<1>1. GateTypeOK
  BY DEF GateInv
<1>2. GateTypeOK'
  BY <1>1, Stepped DEF GateTypeOK, gateItself, deviceVars
<1>3. ASSUME NEW q \in Operations
      PROVE  /\ operations'[q] = Idle <=> operations[q] = Idle
             /\ operations[q] # Idle =>
                  /\ operations'[q].entry = operations[q].entry
                  /\ operations'[q].port = operations[q].port
             /\ Joined(q)' <=> Joined(q)
             /\ InGate(q)' => InGate(q)
  <2>1. CASE q = o
    BY <1>1, <2>1, Stepped DEF Joined, InGate, Alike
  <2>2. CASE q # o
    BY <1>1, <2>2, Stepped DEF Joined, InGate
  <2>3. QED
    BY <2>1, <2>2
<1>4. EntriesAreKnown' /\ ReferencesAreCounted' /\ TokenIsHeld'
  BY <1>3, GateUntouched
<1>5. ChecksAreKept'
  BY <1>1, Stepped, DevicesUntouched
<1>6. QED
  BY <1>2, <1>4, <1>5 DEF GateInv

LEMMA FenceKeepsGate ==
  ASSUME GateInv, NEW o \in Operations, Fence(o) \/ Refuse(o) \/ Dispatch(o)
  PROVE  GateInv'
<1>1. PICK at \in {"fenced", "leaving"} : Step(o, at)
  BY DEF Fence, Refuse, Dispatch
<1>2. /\ operations[o] # Idle
      /\ operations[o].at \in {"admitted", "fenced", "dispatch"}
      /\ UNCHANGED gateItself /\ UNCHANGED deviceVars
  BY DEF Fence, Refuse, Dispatch, IsAt
<1>3. at \in OperationSteps /\ GateTypeOK
  BY DEF OperationSteps, GateInv
<1>4. CheckIsKept(o)'
  BY <1>1, <1>2, <1>3, Stepped, PlainStep
<1>5. QED
  BY <1>1, <1>2, <1>3, <1>4, InsideKeepsGate

(* The checks with the device itself.                                      *)
LEMMA ResolveKeepsGate ==
  ASSUME GateInv, NEW o \in Operations,
         \/ ResolveMessage(o) \/ ResolveRadio(o)
         \/ ResolveAuthentication(o) \/ ResolveProbe(o)
  PROVE  GateInv'
<1>1. /\ IsAt(o, "fenced") /\ UNCHANGED gateItself /\ UNCHANGED deviceVars
      /\ \/ operations[o].kind = "message" /\ Step(o, "probed") /\ Named(o)
         \/ operations[o].kind = "authentication" /\ Step(o, "dispatch")
              /\ Asked(o).sim = operations[o].sim
         \/ operations[o].kind \in {"radio", "probe"} /\ Step(o, "dispatch")
  BY DEF ResolveMessage, ResolveRadio, ResolveAuthentication, ResolveProbe, Goes
<1>2. PICK at \in {"probed", "dispatch"} :
        /\ Step(o, at)
        /\ operations[o].kind = "message" => Named(o)
        /\ operations[o].kind = "authentication" => Asked(o).sim = operations[o].sim
        /\ at = "probed" => operations[o].kind = "message"
  <2>1. CASE operations[o].kind = "message" /\ Step(o, "probed") /\ Named(o)
    BY <2>1
  <2>2. CASE operations[o].kind = "authentication" /\ Step(o, "dispatch")
               /\ Asked(o).sim = operations[o].sim
    BY <2>2
  <2>3. CASE operations[o].kind \in {"radio", "probe"} /\ Step(o, "dispatch")
    BY <2>3
  <2>4. QED
    BY <1>1, <2>1, <2>2, <2>3
<1>3. operations[o] # Idle /\ operations[o].at = "fenced" /\ at \in OperationSteps /\ GateTypeOK
  BY <1>1 DEF IsAt, OperationSteps, GateInv
<1>4. /\ operations'[o] # Idle /\ operations'[o].at = at
      /\ Alike(operations[o], operations'[o]) /\ Noted(operations[o], operations'[o])
  BY <1>2, <1>3, Stepped
<1>5. /\ plugged' = plugged /\ published' = published
      /\ ~operations[o].shown
      /\ operations[o].generation <= published[operations[o].port].generation
  BY <1>1, <1>3 DEF deviceVars, GateInv, ChecksAreKept, CheckIsKept
<1>6. Asked(o)' = Asked(o) /\ (Named(o)' <=> Named(o))
  BY <1>4, <1>5 DEF Asked, Named, Alike
<1>7. CheckIsKept(o)'
  BY <1>2, <1>4, <1>5, <1>6 DEF CheckIsKept, Alike, Noted
<1>8. QED
  BY <1>1, <1>2, <1>3, <1>7, InsideKeepsGate

(* The router looks again: a report that was shown is seen.                *)
LEMMA CheckAgainKeepsGate ==
  ASSUME GateInv, NEW o \in Operations, CheckAgain(o)
  PROVE  GateInv'
<1>1. /\ operations[o] # Idle /\ operations[o].at = "probed"
      /\ UNCHANGED gateItself /\ UNCHANGED deviceVars /\ GateTypeOK
      /\ Step(o, IF Published(o) THEN "dispatch" ELSE "leaving")
  BY DEF CheckAgain, IsAt, GateInv
<1>2. CASE ~Published(o)
  <2>1. Step(o, "leaving") /\ "leaving" \in OperationSteps
    BY <1>1, <1>2 DEF OperationSteps
  <2>2. CheckIsKept(o)'
    BY <1>1, <2>1, Stepped, PlainStep
  <2>3. QED
    BY <1>1, <2>1, <2>2, InsideKeepsGate
<1>3. CASE Published(o)
  <2>1. Step(o, "dispatch") /\ "dispatch" \in OperationSteps
    BY <1>1, <1>3 DEF OperationSteps
  <2>2. /\ operations'[o] # Idle /\ operations'[o].at = "dispatch"
        /\ Alike(operations[o], operations'[o]) /\ Noted(operations[o], operations'[o])
        /\ operations[o] \in Underway
    BY <1>1, <2>1, Stepped
  <2>3. /\ plugged' = plugged /\ published' = published /\ CheckIsKept(o)
    BY <1>1 DEF deviceVars, GateInv, ChecksAreKept
  <2>4. ~operations[o].shown
    <3>1. /\ published[operations[o].port].modem # Nothing
          /\ published[operations[o].port].generation = operations[o].generation
      BY <1>3 DEF Published
    <3>2. operations[o].generation \in Nat
      BY <2>2 DEF Underway
    <3>3. QED
      BY <1>1, <2>3, <3>1, <3>2 DEF CheckIsKept
  <2>5. Asked(o)' = Asked(o) /\ (Named(o)' <=> Named(o))
    BY <2>2, <2>3 DEF Asked, Named, Alike
  <2>6. CheckIsKept(o)'
    BY <1>1, <2>2, <2>3, <2>4, <2>5 DEF CheckIsKept, Alike, Noted
  <2>7. QED
    BY <1>1, <2>1, <2>6, InsideKeepsGate
<1>4. QED
  BY <1>2, <1>3

-----------------------------------------------------------------------------
(* At the gate: a request, a reference, the token.                         *)

LEMMA BeginKeepsGate ==
  ASSUME GateInv, NEW o \in Operations, NEW kind \in Kinds, NEW p \in Ports, NEW s \in Sims,
         Begin(o, kind, p, s)
  PROVE  GateInv'
<1> DEFINE u == [at |-> "requested", kind |-> kind, port |-> p,
                 generation |-> published[p].generation, modem |-> published[p].modem,
                 sim |-> s, entry |-> NoGateEntry, moved |-> FALSE, shown |-> FALSE]
<1>1. /\ operations[o] = Idle /\ published[p].modem # Nothing
      /\ operations' = [operations EXCEPT ![o] = u]
      /\ UNCHANGED gateItself /\ UNCHANGED deviceVars
      /\ gateMap' = gateMap /\ refs' = refs /\ token' = token
  BY DEF Begin, gateItself
<1>2. published[p] \in [generation : Nat, modem : Modems \cup {Nothing}]
  BY DEF GateInv, GateTypeOK
<1>3. u \in Underway
  BY <1>1, <1>2 DEF Underway, OperationSteps
<1>4. /\ u # Idle /\ u.at = "requested" /\ u.entry = NoGateEntry /\ u.port = p /\ ~u.shown
      /\ u.generation = published[p].generation /\ u.generation \in Nat
  BY <1>2, <1>3, UnderwayIsNotIdle
<1> HIDE DEF u
<1>5. /\ operations'[o] = u
      /\ \A q \in Operations : q # o => operations'[q] = operations[q]
      /\ operations' \in [Operations -> Underway \cup {Idle}]
  BY <1>1, <1>3 DEF GateInv, GateTypeOK
<1>6. GateTypeOK'
  BY <1>1, <1>5 DEF GateInv, GateTypeOK, deviceVars
<1>7. \A n \in GateEntries : Referring(n)' = Referring(n)
  BY <1>1, <1>4, <1>5, GateConstants DEF Referring
<1>8. ~InGate(o)' /\ ~Joined(o)'
  BY <1>4, <1>5 DEF InGate, Joined
<1>9. EntriesAreKnown'
  BY <1>1, <1>4, <1>5, <1>8 DEF GateInv, EntriesAreKnown, Joined
<1>10. ReferencesAreCounted'
  BY <1>1, <1>7 DEF GateInv, GateTypeOK, ReferencesAreCounted
<1>11. TokenIsHeld'
  BY <1>1, <1>5, <1>8 DEF GateInv, TokenIsHeld, InGate
<1>12. CheckIsKept(o)'
  BY <1>1, <1>4, <1>5 DEF CheckIsKept, deviceVars
<1>13. ChecksAreKept'
  BY <1>1, <1>5, <1>12, DevicesUntouched
<1>14. QED
  BY <1>6, <1>9, <1>10, <1>11, <1>13 DEF GateInv

LEMMA RequestKeepsGate ==
  ASSUME GateInv, NEW o \in Operations, NEW p \in Ports, NEW s \in Sims,
         \/ RequestMessage(o, p, s) \/ RequestAuthentication(o, p, s)
         \/ RequestRadio(o, p) \/ RequestProbe(o, p)
  PROVE  GateInv'
<1>1. plugged[p].sim \in Sims
  BY DEF GateInv, GateTypeOK, Devices
<1>2. \/ Begin(o, "message", p, s) \/ Begin(o, "authentication", p, s)
      \/ Begin(o, "radio", p, plugged[p].sim) \/ Begin(o, "probe", p, plugged[p].sim)
  BY DEF RequestMessage, RequestAuthentication, RequestRadio, RequestProbe
<1>3. {"message", "authentication", "radio", "probe"} \subseteq Kinds
  BY DEF Kinds
<1>4. QED
  BY <1>1, <1>2, <1>3, BeginKeepsGate

(* There is an entry for a new map: every other goroutine has one at most. *)
LEMMA EntryIsFree ==
  ASSUME GateInv, NEW o \in Operations, ~Joined(o)
  PROVE  /\ NewEntry \in GateEntries /\ refs[NewEntry] = 0
         /\ \A p \in Ports : gateMap[p] # NewEntry
<1> DEFINE J == {q \in Operations : Joined(q)}
           e == [q \in J |-> operations[q].entry]
           U == {e[q] : q \in J}
<1>1. IsFiniteSet(J) /\ Cardinality(J) < Cardinality(GateEntries)
  <2>1. J \in SUBSET (Operations \ {o})
    OBVIOUS
  <2>2. /\ IsFiniteSet(Operations \ {o})
        /\ Cardinality(Operations \ {o}) = Cardinality(Operations) - 1
    BY GateConstants, FS_RemoveElement
  <2>3. IsFiniteSet(J) /\ Cardinality(J) <= Cardinality(Operations \ {o})
    BY <2>1, <2>2, FS_Subset
  <2>4. /\ Cardinality(Operations) \in Nat /\ Cardinality(GateEntries) \in Nat
        /\ Cardinality(J) \in Nat
    BY <2>3, GateConstants, FS_CardinalityType
  <2>5. QED
    BY <2>2, <2>3, <2>4, GateConstants
<1>2. IsFiniteSet(U) /\ Cardinality(U) <= Cardinality(J)
  <2>1. e \in Surjection(J, U)
    BY DEF Surjection
  <2>2. QED
    BY <1>1, <2>1, FS_Surjection
<1>3. PICK n \in GateEntries : n \notin U
  <2>1. SUFFICES ASSUME GateEntries \subseteq U PROVE FALSE
    OBVIOUS
  <2>2. Cardinality(GateEntries) <= Cardinality(U)
    BY <1>2, <2>1, FS_Subset
  <2>3. /\ Cardinality(GateEntries) \in Nat /\ Cardinality(U) \in Nat
        /\ Cardinality(J) \in Nat
    BY <1>1, <1>2, GateConstants, FS_CardinalityType
  <2>4. QED
    BY <1>1, <1>2, <2>2, <2>3
<1>4. Referring(n) = {}
  <2>1. \A q \in Operations : operations[q] # Idle /\ operations[q].entry = n => Joined(q)
    BY GateConstants DEF GateInv, EntriesAreKnown
  <2>2. \A q \in Operations : Joined(q) => operations[q].entry # n
    BY <1>3
  <2>3. QED
    BY <2>1, <2>2 DEF Referring
<1>5. refs[n] = 0 /\ \A p \in Ports : gateMap[p] # n
  BY <1>4, GateConstants, FS_EmptySet DEF GateInv, ReferencesAreCounted
<1>6. QED
  BY <1>5 DEF NewEntry

LEMMA JoinKeepsGate ==
  ASSUME GateInv, NEW o \in Operations, Join(o)
  PROVE  GateInv'
<1> DEFINE port == operations[o].port
           new == gateMap[port] = NoGateEntry
           entry == IF new THEN NewEntry ELSE gateMap[port]
<1>1. /\ operations[o] # Idle /\ operations[o].at = "requested"
      /\ gateMap' = [gateMap EXCEPT ![port] = entry]
      /\ token' = IF new THEN [token EXCEPT ![entry] = TRUE] ELSE token
      /\ refs' = [refs EXCEPT ![entry] = @ + 1]
      /\ operations' = [operations EXCEPT ![o].at = "waiting", ![o].entry = entry]
      /\ UNCHANGED deviceVars
  BY DEF Join, IsAt
<1>2. /\ operations[o] \in Underway /\ port \in Ports /\ ~Joined(o)
      /\ operations[o].entry = NoGateEntry
      /\ gateMap[port] \in GateEntries \cup {NoGateEntry}
  BY <1>1 DEF GateInv, GateTypeOK, Underway, Joined, EntriesAreKnown
<1>3. /\ entry \in GateEntries
      /\ new => refs[entry] = 0 /\ \A q \in Ports : gateMap[q] # entry
      /\ ~new => gateMap[port] = entry
  BY <1>2, EntryIsFree
<1>P. PICK p \in Ports : p = port
  BY <1>2
<1>N. PICK n \in GateEntries : n = entry
  BY <1>3
<1>R. /\ gateMap' = [gateMap EXCEPT ![p] = n]
      /\ token' = IF new THEN [token EXCEPT ![n] = TRUE] ELSE token
      /\ refs' = [refs EXCEPT ![n] = @ + 1]
      /\ operations' = [operations EXCEPT ![o].at = "waiting", ![o].entry = n]
      /\ new <=> gateMap[p] = NoGateEntry
      /\ new => refs[n] = 0 /\ \A q \in Ports : gateMap[q] # n
      /\ ~new => gateMap[p] = n
      /\ operations[o].port = p
  BY <1>1, <1>3, <1>P, <1>N
<1> HIDE DEF entry, new, port
<1>4. /\ operations'[o] = [operations[o] EXCEPT !.at = "waiting", !.entry = n]
      /\ \A q \in Operations : q # o => operations'[q] = operations[q]
      /\ DOMAIN operations' = Operations
      /\ operations' = [q \in Operations |-> operations'[q]]
  BY <1>R DEF GateInv, GateTypeOK
<1>5. /\ operations'[o] \in Underway /\ operations'[o].at = "waiting"
      /\ Alike(operations[o], operations'[o]) /\ Noted(operations[o], operations'[o])
      /\ operations'[o].entry = n
  BY <1>2, <1>3, <1>4 DEF Underway, OperationSteps, Alike, Noted
<1>6. operations'[o] # Idle /\ operations'[o].port = p
  BY <1>5, <1>R, UnderwayIsNotIdle DEF Alike
<1>7. GateTypeOK'
  <2>1. operations' \in [Operations -> Underway \cup {Idle}]
    BY <1>4, <1>5 DEF GateInv, GateTypeOK
  <2>2. refs' \in [GateEntries -> Nat] /\ token' \in [GateEntries -> BOOLEAN]
    BY <1>R DEF GateInv, GateTypeOK
  <2>3. gateMap' \in [Ports -> GateEntries \cup {NoGateEntry}]
    BY <1>R DEF GateInv, GateTypeOK
  <2>4. QED
    BY <1>1, <2>1, <2>2, <2>3 DEF GateInv, GateTypeOK, deviceVars
<1>8. gateMap'[p] = n /\ \A q \in Ports : q # p => gateMap'[q] = gateMap[q]
  BY <1>R DEF GateInv, GateTypeOK
<1>9. n # NoGateEntry
  BY GateConstants
<1>10. ASSUME NEW q \in Operations, q # o
       PROVE  /\ Joined(q)' <=> Joined(q)
              /\ InGate(q)' <=> InGate(q)
              /\ Joined(q) /\ operations[q].port = p => ~new /\ operations[q].entry = n
              /\ Joined(q) /\ operations[q].entry = n => ~new
  <2>1. (Joined(q)' <=> Joined(q)) /\ (InGate(q)' <=> InGate(q))
    BY <1>4, <1>10 DEF Joined, InGate
  <2>2. Joined(q) => /\ operations[q].entry \in GateEntries
                     /\ gateMap[operations[q].port] = operations[q].entry
                     /\ operations[q].port \in Ports
    BY DEF GateInv, EntriesAreKnown, GateTypeOK, Joined, Underway
  <2>3. QED
    BY <1>R, <2>1, <2>2, GateConstants
<1>11. EntriesAreKnown'
  <2>1. ASSUME NEW q \in Operations, Joined(q)'
        PROVE  /\ operations'[q].entry \in GateEntries
               /\ gateMap'[operations'[q].port] = operations'[q].entry
    <3>1. CASE q = o
      BY <1>5, <1>6, <1>8, <3>1
    <3>2. CASE q # o
      <4>1. /\ Joined(q) /\ operations'[q] = operations[q]
            /\ operations[q].entry \in GateEntries /\ operations[q].port \in Ports
            /\ gateMap[operations[q].port] = operations[q].entry
        BY <1>4, <1>10, <2>1, <3>2
        DEF GateInv, EntriesAreKnown, GateTypeOK, Joined, Underway
      <4>2. QED
        BY <1>8, <1>10, <3>2, <4>1
    <3>3. QED
      BY <3>1, <3>2
  <2>2. ASSUME NEW q \in Operations, operations'[q] # Idle, ~Joined(q)'
        PROVE  operations'[q].entry = NoGateEntry
    <3>1. q # o
      BY <1>5, <1>6, <2>2 DEF Joined
    <3>2. QED
      BY <1>4, <1>10, <2>2, <3>1 DEF GateInv, EntriesAreKnown
  <2>3. ASSUME NEW q \in Ports, NEW r \in Ports, gateMap'[q] = gateMap'[r],
               gateMap'[q] # NoGateEntry
        PROVE  q = r
    <3>1. \A x \in Ports : x # p => gateMap[x] # n
      BY <1>R, <1>9 DEF GateInv, EntriesAreKnown
    <3>2. QED
      BY <1>8, <2>3, <3>1 DEF GateInv, EntriesAreKnown
  <2>4. QED
    BY <2>1, <2>2, <2>3 DEF EntriesAreKnown
<1>12. /\ Referring(n)' = Referring(n) \cup {o} /\ o \notin Referring(n)
       /\ \A m \in GateEntries : m # n => Referring(m)' = Referring(m)
  <2>1. ASSUME NEW m \in GateEntries
        PROVE  o \notin Referring(m) /\ (o \in Referring(m)' <=> m = n)
    BY <1>2, <1>5, <1>6, GateConstants DEF Referring
  <2>2. ASSUME NEW m \in GateEntries, NEW q \in Operations, q # o
        PROVE  q \in Referring(m)' <=> q \in Referring(m)
    BY <1>4, <2>2 DEF Referring
  <2>3. \A m : Referring(m) \subseteq Operations /\ Referring(m)' \subseteq Operations
    BY DEF Referring
  <2>4. QED
    BY <2>1, <2>2, <2>3
<1>13. ReferencesAreCounted'
  <2>1. refs'[n] = refs[n] + 1 /\ \A m \in GateEntries : m # n => refs'[m] = refs[m]
    BY <1>R DEF GateInv, GateTypeOK
  <2>2. IsFiniteSet(Referring(n))
    BY GateConstants, FS_Subset, Referring(n) \in SUBSET Operations DEF Referring
  <2>3. Cardinality(Referring(n) \cup {o}) = Cardinality(Referring(n)) + 1
    BY <1>12, <2>2, FS_AddElement
  <2>4. \A m \in GateEntries : refs'[m] = Cardinality(Referring(m)')
    BY <1>12, <2>1, <2>3 DEF GateInv, ReferencesAreCounted
  <2>5. ASSUME NEW q \in Ports, gateMap'[q] # NoGateEntry
        PROVE  Referring(gateMap[q])' # {}
    <3>1. CASE gateMap'[q] = n
      BY <1>12, <3>1
    <3>2. CASE gateMap'[q] # n
      <4>1. PICK m \in GateEntries : m = gateMap[q] /\ m = gateMap'[q] /\ m # n
        BY <1>8, <2>5, <3>2 DEF GateInv, GateTypeOK
      <4>2. Referring(m)' = Referring(m) /\ Referring(m) # {}
        BY <1>12, <4>1, GateConstants DEF GateInv, ReferencesAreCounted
      <4>3. QED
        BY <4>1, <4>2
    <3>3. QED
      BY <3>1, <3>2
  <2>6. QED
    BY <2>4, <2>5 DEF ReferencesAreCounted
<1>14. TokenIsHeld'
  <2>1. ~InGate(o)' /\ ~InGate(o)
    BY <1>1, <1>5 DEF InGate
  <2>2. ASSUME NEW q \in Operations, InGate(q)' PROVE ~token'[operations'[q].entry]
    <3>1. q # o /\ InGate(q) /\ operations'[q] = operations[q] /\ Joined(q)
      BY <1>4, <1>10, <2>1, <2>2 DEF InGate, Joined
    <3>2. ~token[operations[q].entry] /\ operations[q].entry \in GateEntries
      BY <3>1 DEF GateInv, TokenIsHeld, EntriesAreKnown
    <3>3. new => operations[q].entry # n
      BY <1>10, <3>1
    <3>4. QED
      BY <1>R, <3>1, <3>2, <3>3 DEF GateInv, GateTypeOK
  <2>3. QED
    BY <1>4, <1>10, <2>1, <2>2 DEF GateInv, TokenIsHeld
<1>15. ChecksAreKept'
  <2>1. CheckIsKept(o)'
    <3>1. "waiting" \in OperationSteps \ {"probed", "dispatch"}
      BY DEF OperationSteps
    <3>2. QED
      BY <1>1, <1>5, <1>6, <3>1, PlainStep
  <2>2. QED
    BY <1>1, <1>4, <2>1, DevicesUntouched
<1>16. QED
  BY <1>7, <1>11, <1>13, <1>14, <1>15 DEF GateInv

(* The token goes to one waiter, and comes back.                           *)
LEMMA TokenKeepsGate ==
  ASSUME GateInv, NEW o \in Operations, Admit(o) \/ ReturnToken(o)
  PROVE  GateInv'
<1> DEFINE n == operations[o].entry
<1>1. PICK at \in {"admitted", "dropping"} :
        /\ Step(o, at) /\ operations[o] # Idle
        /\ UNCHANGED <<gateMap, refs, deviceVars>>
        /\ \/ at = "admitted" /\ operations[o].at = "waiting" /\ token[n]
           \/ at = "dropping" /\ operations[o].at = "leaving"
        /\ token' = [token EXCEPT ![n] = (at = "dropping")]
  BY DEF Admit, ReturnToken, IsAt
<1>2. at \in OperationSteps \ {"probed", "dispatch"} /\ GateTypeOK
  BY DEF OperationSteps, GateInv
<1>3. Joined(o) /\ n \in GateEntries
  BY <1>1 DEF GateInv, EntriesAreKnown, Joined
<1>4. /\ operations' \in [Operations -> Underway \cup {Idle}]
      /\ operations'[o] # Idle /\ operations'[o].at = at
      /\ Alike(operations[o], operations'[o]) /\ Noted(operations[o], operations'[o])
      /\ operations'[o].entry = n
      /\ \A q \in Operations : q # o => operations'[q] = operations[q]
  BY <1>1, <1>2, Stepped
<1> HIDE DEF n
<1>5. GateTypeOK'
  <2>1. token' \in [GateEntries -> BOOLEAN]
    BY <1>1, <1>2 DEF GateTypeOK
  <2>2. QED
    BY <1>1, <1>2, <1>4, <2>1 DEF GateTypeOK, deviceVars
<1>6. Joined(o)' /\ operations'[o].port = operations[o].port
  BY <1>1, <1>4 DEF Joined, Alike
<1>7. \A q \in Operations : Joined(q)' <=> Joined(q)
  BY <1>3, <1>4, <1>6 DEF Joined
<1>8. \A m : Referring(m)' = Referring(m)
  BY <1>1, <1>4 DEF Referring, n
<1>9. EntriesAreKnown'
  <2>1. \A q \in Operations :
          /\ operations'[q].entry = operations[q].entry
          /\ operations'[q].port = operations[q].port
          /\ operations'[q] = Idle <=> operations[q] = Idle
    BY <1>1, <1>4, <1>6 DEF n
  <2>2. QED
    BY <1>1, <1>7, <2>1 DEF GateInv, EntriesAreKnown
<1>10. ReferencesAreCounted'
  BY <1>1, <1>8 DEF GateInv, ReferencesAreCounted
<1>11. ASSUME NEW q \in Operations, q # o, InGate(q)'
       PROVE  InGate(q) /\ operations'[q] = operations[q] /\ operations[q].entry # n
  <2>1. InGate(q) /\ operations'[q] = operations[q]
    BY <1>4, <1>11 DEF InGate
  <2>2. operations[q].entry # n
    <3>1. CASE at = "admitted"
      BY <1>1, <2>1, <3>1 DEF GateInv, TokenIsHeld, n
    <3>2. CASE at = "dropping"
      <4>1. InGate(o)
        BY <1>1, <3>2 DEF InGate
      <4>2. QED
        BY <1>11, <2>1, <4>1 DEF GateInv, TokenIsHeld, n
    <3>3. QED
      BY <3>1, <3>2
  <2>3. QED
    BY <2>1, <2>2
<1>12. TokenIsHeld'
  <2>1. ASSUME NEW q \in Operations, InGate(q)' PROVE ~token'[operations'[q].entry]
    <3>1. CASE q = o
      <4>1. at = "admitted"
        BY <1>1, <1>4, <2>1, <3>1 DEF InGate
      <4>2. token'[n] = FALSE
        BY <1>1, <1>2, <1>3, <4>1 DEF GateTypeOK
      <4>3. QED
        BY <1>4, <3>1, <4>2
    <3>2. CASE q # o
      <4>1. InGate(q) /\ operations'[q] = operations[q] /\ operations[q].entry # n
        BY <1>11, <2>1, <3>2
      <4>2. ~token[operations[q].entry] /\ operations[q].entry \in GateEntries
        BY <4>1 DEF GateInv, TokenIsHeld, EntriesAreKnown, InGate, Joined
      <4>3. QED
        BY <1>1, <1>2, <4>1, <4>2 DEF GateTypeOK
    <3>3. QED
      BY <3>1, <3>2
  <2>2. ASSUME NEW q \in Operations, NEW r \in Operations, InGate(q)', InGate(r)',
               operations'[q].entry = operations'[r].entry
        PROVE  q = r
    <3>1. CASE q # o /\ r # o
      BY <1>11, <2>2, <3>1 DEF GateInv, TokenIsHeld
    <3>2. CASE q = o \/ r = o
      BY <1>4, <1>11, <2>2, <3>2
    <3>3. QED
      BY <3>1, <3>2
  <2>3. QED
    BY <2>1, <2>2 DEF TokenIsHeld
<1>13. ChecksAreKept'
  <2>1. CheckIsKept(o)'
    BY <1>1, <1>2, <1>4, PlainStep
  <2>2. QED
    BY <1>1, <1>4, <2>1, DevicesUntouched
<1>14. QED
  BY <1>5, <1>9, <1>10, <1>12, <1>13 DEF GateInv

(* Whoever leaves drops its reference, and the last one the entry.         *)
LEMMA LeaveKeepsGate ==
  ASSUME GateInv, NEW o \in Operations, Cancel(o) \/ Leave(o)
  PROVE  GateInv'
<1>0. operations[o] # Idle /\ operations[o].at \in {"waiting", "dropping"} /\ Joined(o)
  BY DEF Cancel, Leave, IsAt, Joined
<1>P. PICK p \in Ports : p = operations[o].port
  BY <1>0 DEF GateInv, GateTypeOK, Underway
<1>N. PICK n \in GateEntries : n = operations[o].entry
  BY <1>0 DEF GateInv, EntriesAreKnown
<1>1. /\ operations[o] # Idle
      /\ refs' = [refs EXCEPT ![n] = @ - 1]
      /\ gateMap' = IF refs'[n] = 0 /\ gateMap[p] = n
                      THEN [gateMap EXCEPT ![p] = NoGateEntry] ELSE gateMap
      /\ operations' = [operations EXCEPT ![o] = Idle]
      /\ token' = token /\ UNCHANGED deviceVars
  BY <1>0, <1>P, <1>N DEF Cancel, Leave, Drop
<1>2. gateMap[p] = n /\ ~InGate(o)
  BY <1>0, <1>P, <1>N DEF GateInv, EntriesAreKnown, InGate
<1>3. /\ operations'[o] = Idle
      /\ \A q \in Operations : q # o => operations'[q] = operations[q]
      /\ operations' \in [Operations -> Underway \cup {Idle}]
  BY <1>1 DEF GateInv, GateTypeOK
<1>4. /\ Referring(n)' = Referring(n) \ {o} /\ o \in Referring(n)
      /\ \A m \in GateEntries : m # n => Referring(m)' = Referring(m)
  BY <1>1, <1>3, <1>N DEF Referring
<1>5. /\ refs'[n] = Cardinality(Referring(n)') /\ refs'[n] \in Nat
      /\ IsFiniteSet(Referring(n)')
  <2>1. IsFiniteSet(Referring(n))
    BY GateConstants, FS_Subset, Referring(n) \in SUBSET Operations DEF Referring
  <2>2. /\ IsFiniteSet(Referring(n) \ {o})
        /\ Cardinality(Referring(n) \ {o}) = Cardinality(Referring(n)) - 1
    BY <1>4, <2>1, FS_RemoveElement
  <2>3. refs'[n] = refs[n] - 1 /\ refs[n] = Cardinality(Referring(n))
    BY <1>1, <1>2 DEF GateInv, GateTypeOK, ReferencesAreCounted
  <2>4. Cardinality(Referring(n) \ {o}) \in Nat
    BY <2>2, FS_CardinalityType
  <2>5. QED
    BY <1>4, <2>2, <2>3, <2>4
<1>6. /\ refs' \in [GateEntries -> Nat]
      /\ \A m \in GateEntries : m # n => refs'[m] = refs[m]
  BY <1>1, <1>2, <1>5 DEF GateInv, GateTypeOK
<1>7. /\ gateMap' \in [Ports -> GateEntries \cup {NoGateEntry}]
      /\ \A q \in Ports : q # p => gateMap'[q] = gateMap[q]
      /\ gateMap'[p] = IF Referring(n)' = {} THEN NoGateEntry ELSE n
  <2>1. refs'[n] = 0 <=> Referring(n)' = {}
    BY <1>5, FS_EmptySet
  <2>2. QED
    BY <1>1, <1>2, <2>1 DEF GateInv, GateTypeOK
<1>8. GateTypeOK'
  BY <1>1, <1>3, <1>6, <1>7 DEF GateInv, GateTypeOK, deviceVars
<1>9. ASSUME NEW q \in Operations, operations'[q] # Idle
      PROVE  /\ q # o /\ operations[q] # Idle /\ operations'[q] = operations[q]
             /\ Joined(q)' <=> Joined(q)
  BY <1>3, <1>9 DEF Joined
<1>10. EntriesAreKnown'
  <2>1. ASSUME NEW q \in Operations, Joined(q)'
        PROVE  /\ operations'[q].entry \in GateEntries
               /\ gateMap'[operations'[q].port] = operations'[q].entry
    <3>1. /\ q # o /\ operations'[q] = operations[q] /\ Joined(q) /\ operations[q] # Idle
      BY <1>9, <2>1 DEF Joined
    <3>2. /\ operations[q].entry \in GateEntries /\ operations[q].port \in Ports
          /\ gateMap[operations[q].port] = operations[q].entry
      BY <3>1 DEF GateInv, EntriesAreKnown, GateTypeOK, Joined, Underway
    <3>3. CASE operations[q].port = p
      <4>1. operations[q].entry = n
        BY <1>2, <3>2, <3>3
      <4>2. q \in Referring(n)'
        BY <3>1, <4>1 DEF Referring
      <4>3. QED
        BY <1>7, <3>1, <3>2, <3>3, <4>1, <4>2
    <3>4. CASE operations[q].port # p
      BY <1>7, <3>1, <3>2, <3>4
    <3>5. QED
      BY <3>3, <3>4
  <2>2. ASSUME NEW q \in Operations, operations'[q] # Idle, ~Joined(q)'
        PROVE  operations'[q].entry = NoGateEntry
    BY <1>9, <2>2 DEF GateInv, EntriesAreKnown
  <2>3. ASSUME NEW q \in Ports, NEW r \in Ports, gateMap'[q] = gateMap'[r],
               gateMap'[q] # NoGateEntry
        PROVE  q = r
    <3>1. gateMap'[q] = gateMap[q] /\ gateMap'[r] = gateMap[r]
      BY <1>2, <1>7, <2>3
    <3>2. QED
      BY <2>3, <3>1 DEF GateInv, EntriesAreKnown
  <2>4. QED
    BY <2>1, <2>2, <2>3 DEF EntriesAreKnown
<1>11. ReferencesAreCounted'
  <2>1. \A m \in GateEntries : refs'[m] = Cardinality(Referring(m)')
    BY <1>4, <1>5, <1>6 DEF GateInv, ReferencesAreCounted
  <2>2. ASSUME NEW q \in Ports, gateMap'[q] # NoGateEntry
        PROVE  Referring(gateMap[q])' # {}
    <3>1. CASE q = p
      BY <1>7, <2>2, <3>1
    <3>2. CASE q # p
      <4>1. PICK m \in GateEntries : m = gateMap[q] /\ m = gateMap'[q]
        BY <1>7, <2>2, <3>2 DEF GateInv, GateTypeOK
      <4>2. m # n
        BY <1>2, <2>2, <3>2, <4>1 DEF GateInv, EntriesAreKnown
      <4>3. Referring(m)' = Referring(m) /\ Referring(m) # {}
        BY <1>4, <4>1, <4>2, GateConstants DEF GateInv, ReferencesAreCounted
      <4>4. QED
        BY <4>1, <4>3
    <3>3. QED
      BY <3>1, <3>2
  <2>3. QED
    BY <2>1, <2>2 DEF ReferencesAreCounted
<1>12. TokenIsHeld'
  <2>1. \A q \in Operations : InGate(q)' => InGate(q) /\ operations'[q] = operations[q]
    BY <1>3 DEF InGate
  <2>2. QED
    BY <1>1, <2>1 DEF GateInv, TokenIsHeld
<1>13. ChecksAreKept'
  BY <1>1, <1>3, DevicesUntouched DEF CheckIsKept
<1>14. QED
  BY <1>8, <1>10, <1>11, <1>12, <1>13 DEF GateInv

-----------------------------------------------------------------------------
LEMMA GateInvNext == GateInv /\ [GateNext]_gateVars => GateInv'
<1> SUFFICES ASSUME GateInv, [GateNext]_gateVars PROVE GateInv'
  OBVIOUS
<1>1. CASE UNCHANGED gateVars
  BY <1>1 DEF gateVars, GateInv, GateTypeOK, EntriesAreKnown, ReferencesAreCounted,
              TokenIsHeld, ChecksAreKept, CheckIsKept, Joined, InGate, Referring,
              Named, Asked
<1>2. ASSUME NEW p \in Ports, NEW d \in Devices, Exchange(p, d) PROVE GateInv'
  BY <1>2, ExchangeKeepsGate
<1>3. ASSUME Scan \/ PublishScan PROVE GateInv'
  BY <1>3, ScanKeepsGate, PublishKeepsGate
<1>4. ASSUME NEW o \in Operations, NEW p \in Ports, NEW s \in Sims,
             RequestMessage(o, p, s) \/ RequestAuthentication(o, p, s)
      PROVE  GateInv'
  BY <1>4, RequestKeepsGate
<1>5. ASSUME NEW o \in Operations, NEW p \in Ports, RequestRadio(o, p) \/ RequestProbe(o, p)
      PROVE  GateInv'
  <2>1. plugged[p].sim \in Sims
    BY DEF GateInv, GateTypeOK, Devices
  <2>2. QED
    BY <1>5, <2>1, RequestKeepsGate
<1>6. ASSUME NEW o \in Operations, Cancel(o) \/ Leave(o) PROVE GateInv'
  BY <1>6, LeaveKeepsGate
<1>7. ASSUME NEW o \in Operations, OperationStep(o) PROVE GateInv'
  BY <1>7, JoinKeepsGate, TokenKeepsGate, FenceKeepsGate, ResolveKeepsGate,
     CheckAgainKeepsGate, LeaveKeepsGate
  DEF OperationStep
<1>8. QED
  BY <1>1, <1>2, <1>3, <1>4, <1>5, <1>6, <1>7 DEF GateNext

(* For any operations, devices and exchanges, operations of a device pass  *)
(* its gate one at a time, an admitted one reaches the modem and the SIM   *)
(* it names unless they were exchanged after the check, and never on a     *)
(* report that was seen to have changed (operation_gate.go, sms.go).       *)
THEOREM GateHolds == GateSpec => []GateIsSafe
<1>1. QED
  BY GateInvInit, GateInvNext, GateInvIsSafe, PTL DEF GateSpec

-----------------------------------------------------------------------------
(* The news of the hardware.                                               *)

(* A version the coordinator knows is not ahead of the agent's.            *)
IsPast(v) ==
  /\ v.instance <= monitor.instance
  /\ v.instance = monitor.instance => v.generation <= monitor.generation

(* A generation is counted for a content that differs, and contents only   *)
(* grow; a poll waits for the version that is known.                       *)
VersionsArePast ==
  /\ monitor.content <= hardware /\ monitor.generation <= monitor.content + 1
  /\ IsPast(watch.known)
  /\ watch.at = "poll" => watch.channel = watch.known
  /\ ~agentUp => monitor.instance <= MaxAgentStarts

Untold(b) == /\ view[b] # hardware
             /\ agentUp /\ monitor.content = hardware
             /\ "hardware" \notin queue[b]
             /\ watch.known = Shown
NoneIsUntold == \A b \in open : Untold(b) => unannounced

(* The inductive invariant behind StaleIsAnnounced.                        *)
NewsInv == NewsTypeOK /\ VersionsArePast /\ NoneIsUntold

Monitors == [instance : 1 .. MaxAgentStarts + 1, generation : 1 .. MaxHardware + 1,
             content : 0 .. MaxHardware]

LEMMA NewsConstants ==
  /\ MaxHardware \in Nat /\ MaxAgentStarts \in Nat /\ MaxNewsFaults \in Nat
  /\ NoView \notin Nat
BY NewsAssumption DEF NewsAssumption

LEMMA NewsInvInit == NewsInit => NewsInv
<1> SUFFICES ASSUME NewsInit PROVE NewsInv
  OBVIOUS
<1>1. NewsTypeOK
  <2>1. Unknown \in Versions
    BY NewsConstants DEF Versions, Unknown
  <2>2. watch \in Watching
    BY <2>1 DEF NewsInit, Watching
  <2>3. monitor \in Monitors /\ hardware \in 0 .. MaxHardware
    BY NewsConstants DEF NewsInit, Monitors
  <2>4. newsFaults \in 0 .. MaxNewsFaults
    BY NewsConstants DEF NewsInit
  <2>5. QED
    BY <2>2, <2>3, <2>4 DEF NewsInit, NewsTypeOK, Monitors
<1>2. VersionsArePast /\ NoneIsUntold
  BY DEF NewsInit, VersionsArePast, IsPast, NoneIsUntold, Unknown
<1>3. QED
  BY <1>1, <1>2 DEF NewsInv

LEMMA NewsNumbers ==
  ASSUME NewsInv
  PROVE  /\ hardware \in Nat /\ hardware <= MaxHardware
         /\ monitor \in Monitors /\ monitor.instance \in 1 .. MaxAgentStarts + 1
         /\ monitor.instance \in Nat /\ monitor.generation \in Nat
         /\ monitor.content \in Nat /\ monitor.content <= hardware
         /\ watch.known \in Versions
         /\ watch.known.instance \in Nat /\ watch.known.generation \in Nat
         /\ IsPast(watch.known)
<1>1. /\ hardware \in 0 .. MaxHardware /\ monitor \in Monitors
      /\ watch \in Watching \cup Polls
  BY DEF NewsInv, NewsTypeOK, Monitors
<1>2. hardware \in Nat /\ hardware <= MaxHardware
  BY <1>1, NewsConstants
<1>3. /\ monitor.instance \in 1 .. MaxAgentStarts + 1
      /\ monitor.instance \in Nat /\ monitor.generation \in Nat
      /\ monitor.content \in Nat
  BY <1>1, NewsConstants DEF Monitors
<1>4. watch.known \in Versions
  BY <1>1 DEF Watching, Polls
<1>5. watch.known.instance \in Nat /\ watch.known.generation \in Nat
  BY <1>4, NewsConstants DEF Versions
<1>6. QED
  BY <1>1, <1>2, <1>3, <1>4, <1>5 DEF NewsInv, VersionsArePast

(* The types of what the coordinator and the hub write.                    *)
LEMMA ShownType ==
  ASSUME NewsTypeOK
  PROVE  /\ Shown \in Versions /\ IsPast(Shown)
         /\ Shown.instance = monitor.instance /\ Shown.generation = monitor.generation
         /\ [at |-> "ask", known |-> Shown]
              \in Watching
<1>1. /\ monitor.instance \in 1 .. MaxAgentStarts + 1
      /\ monitor.generation \in 1 .. MaxHardware + 1
  BY DEF NewsTypeOK
<1>2. Shown \in Versions
  BY <1>1, NewsConstants DEF Shown, Versions
<1>3. IsPast(Shown)
  BY <1>1, NewsConstants DEF Shown, IsPast
<1>4. QED
  BY <1>2, <1>3 DEF Shown, Watching

(* An event keeps the topics that wait, and adds its own.                  *)
LEMMA Delivered ==
  ASSUME NewsTypeOK, NEW topics \in SUBSET Topics, Publish(topics)
  PROVE  /\ queue' \in [Browsers -> SUBSET Topics]
         /\ \A b \in open : /\ "hardware" \in queue[b] => "hardware" \in queue'[b]
                            /\ "hardware" \in topics => "hardware" \in queue'[b]
<1>1. ASSUME NEW pending \in SUBSET Topics
      PROVE  /\ Deliver(pending, topics) \in SUBSET Topics
             /\ "hardware" \in pending => "hardware" \in Deliver(pending, topics)
             /\ "hardware" \in topics => "hardware" \in Deliver(pending, topics)
  BY DEF Deliver, Topics
<1>2. queue \in [Browsers -> SUBSET Topics] /\ open \subseteq Browsers
  BY DEF NewsTypeOK
<1>3. QED
  BY <1>1, <1>2 DEF Publish

LEMMA Announced ==
  ASSUME NewsTypeOK, Announce
  PROVE  /\ queue' \in [Browsers -> SUBSET Topics] /\ unannounced' = FALSE
         /\ \A b \in open : "hardware" \in queue'[b]
BY Delivered, {"hardware"} \in SUBSET Topics DEF Announce, Topics

(* A scan that finds a change makes a version that nobody knows.           *)
LEMMA ScanIsNew ==
  ASSUME NewsInv
  PROVE  /\ Refreshed \in Monitors
         /\ Refreshed.instance = monitor.instance
         /\ Refreshed.content = hardware
         /\ Refreshed.generation <= hardware + 1
         /\ monitor.content = hardware => Refreshed = monitor
         /\ monitor.content # hardware => Refreshed.generation = monitor.generation + 1
<1>1. /\ monitor \in Monitors /\ hardware \in 0 .. MaxHardware
      /\ monitor.content <= hardware /\ monitor.generation <= monitor.content + 1
  BY DEF NewsInv, NewsTypeOK, VersionsArePast, Monitors
<1>2. CASE monitor.content = hardware
  BY <1>1, <1>2, NewsConstants DEF Refreshed, Monitors
<1>3. CASE monitor.content # hardware
  <2>1. /\ Refreshed = [monitor EXCEPT !.generation = @ + 1, !.content = hardware]
        /\ monitor.generation + 1 \in 1 .. MaxHardware + 1
        /\ monitor.generation + 1 <= hardware + 1
    BY <1>1, <1>3, NewsConstants DEF Refreshed, Monitors
  <2>2. QED
    BY <1>1, <1>3, <2>1 DEF Monitors
<1>4. QED
  BY <1>2, <1>3

(* After a scan nothing known is ahead, and what was known is not shown    *)
(* unless nothing changed.                                                 *)
LEMMA ScanKeeps ==
  ASSUME NewsInv, monitor' = Refreshed, UNCHANGED <<hardware, agentUp, watch>>
  PROVE  /\ VersionsArePast' /\ monitor' \in Monitors
         /\ watch'.known = Shown' => monitor.content = hardware /\ watch.known = Shown
<1>1. /\ watch.known.instance \in Nat /\ watch.known.generation \in Nat
      /\ monitor.instance \in Nat /\ monitor.generation \in Nat
      /\ IsPast(watch.known)
  BY NewsNumbers
<1>2. IsPast(watch.known)' /\ monitor'.generation \in Nat
  BY <1>1, ScanIsNew DEF IsPast
<1>3. VersionsArePast'
  <2>1. monitor'.content <= hardware' /\ monitor'.generation <= monitor'.content + 1
    BY ScanIsNew, NewsNumbers
  <2>2. /\ watch'.at = "poll" => watch'.channel = watch'.known
        /\ ~agentUp' => monitor'.instance <= MaxAgentStarts
    BY ScanIsNew DEF NewsInv, VersionsArePast
  <2>3. QED
    BY <1>2, <2>1, <2>2 DEF VersionsArePast
<1>4. ASSUME watch'.known = Shown'
      PROVE  monitor.content = hardware /\ watch.known = Shown
  <2>1. /\ watch.known.instance = Refreshed.instance
        /\ watch.known.generation = Refreshed.generation
    BY <1>4 DEF Shown
  <2>2. monitor.content = hardware
    BY <1>1, <2>1, ScanIsNew DEF IsPast
  <2>3. QED
    BY <1>4, <2>2, ScanIsNew DEF Shown
<1>5. QED
  BY <1>3, <1>4, ScanIsNew

-----------------------------------------------------------------------------
(* The agent and other events.                                             *)
LEMMA AgentKeepsNews ==
  ASSUME NewsInv, Plug \/ Refresh \/ AgentStops \/ AgentStarts \/ PublishOther
  PROVE  NewsInv'
<1> USE NewsConstants
<1>1. CASE Plug
  <2>1. /\ hardware' \in 0 .. MaxHardware /\ hardware' = hardware + 1
        /\ UNCHANGED <<agentUp, monitor, watch, open, queue, view, unannounced, newsFaults>>
    BY <1>1, NewsNumbers DEF Plug, browserVars
  <2>2. NewsTypeOK'
    BY <2>1 DEF NewsInv, NewsTypeOK
  <2>3. /\ hardware \in Nat /\ monitor.content \in Nat
        /\ monitor.content <= hardware
    BY NewsNumbers
  <2>4. VersionsArePast'
    BY <2>1, <2>3 DEF NewsInv, VersionsArePast, IsPast
  <2>5. NoneIsUntold'
    BY <2>1, <2>3 DEF NoneIsUntold, Untold
  <2>6. QED
    BY <2>2, <2>4, <2>5 DEF NewsInv
<1>2. CASE Refresh
  <2>1. /\ monitor' = Refreshed
        /\ UNCHANGED <<hardware, agentUp, watch, open, queue, view, unannounced, newsFaults>>
        /\ monitor.content # hardware
    BY <1>2 DEF Refresh, browserVars
  <2>2. NewsTypeOK'
    BY <2>1, ScanKeeps DEF NewsInv, NewsTypeOK, Monitors
  <2>3. NoneIsUntold'
    BY <2>1, ScanKeeps DEF NoneIsUntold, Untold
  <2>4. QED
    BY <2>1, <2>2, <2>3, ScanKeeps DEF NewsInv
<1>3. CASE AgentStops
  <2>1. /\ agentUp' = FALSE
        /\ UNCHANGED <<hardware, monitor, watch, open, queue, view, unannounced, newsFaults>>
    BY <1>3 DEF AgentStops, browserVars
  <2>2. NewsTypeOK' /\ NoneIsUntold'
    BY <2>1 DEF NewsInv, NewsTypeOK, NoneIsUntold, Untold
  <2>3. monitor.instance <= MaxAgentStarts
    BY <1>3 DEF AgentStops
  <2>4. VersionsArePast'
    BY <2>1, <2>3 DEF NewsInv, VersionsArePast, IsPast
  <2>5. QED
    BY <2>2, <2>4 DEF NewsInv
<1>4. CASE AgentStarts
  <2>1. /\ agentUp' = TRUE
        /\ monitor' = [instance |-> monitor.instance + 1, generation |-> 1,
                       content |-> hardware]
        /\ UNCHANGED <<hardware, watch, open, queue, view, unannounced, newsFaults>>
    BY <1>4 DEF AgentStarts, browserVars
  <2>2. /\ monitor.instance \in 1 .. MaxAgentStarts + 1 /\ hardware \in 0 .. MaxHardware
        /\ watch.known.instance \in Nat /\ watch.known.instance <= monitor.instance
    BY NewsNumbers DEF IsPast
  <2>3. monitor.instance <= MaxAgentStarts
    BY <1>4 DEF AgentStarts, NewsInv, VersionsArePast
  <2>4. NewsTypeOK'
    <3>1. monitor' \in Monitors
      BY <2>1, <2>2, <2>3 DEF Monitors
    <3>2. QED
      BY <2>1, <3>1 DEF NewsInv, NewsTypeOK, Monitors
  <2>5. watch'.known.instance # monitor'.instance /\ IsPast(watch.known)'
    BY <2>1, <2>2 DEF IsPast
  <2>6. VersionsArePast'
    BY <2>1, <2>2, <2>5 DEF NewsInv, VersionsArePast
  <2>7. NoneIsUntold'
    BY <2>5 DEF NoneIsUntold, Untold, Shown
  <2>8. QED
    BY <2>4, <2>6, <2>7 DEF NewsInv
<1>5. CASE PublishOther
  <2>1. /\ Publish({"messages"})
        /\ UNCHANGED <<hardware, agentUp, monitor, watch, open, view, unannounced, newsFaults>>
    BY <1>5 DEF PublishOther, monitorVars
  <2>2. /\ queue' \in [Browsers -> SUBSET Topics]
        /\ \A b \in open : "hardware" \in queue[b] => "hardware" \in queue'[b]
    BY <2>1, Delivered, {"messages"} \in SUBSET Topics DEF NewsInv, Topics
  <2>3. NewsTypeOK'
    BY <2>1, <2>2 DEF NewsInv, NewsTypeOK
  <2>4. VersionsArePast'
    BY <2>1 DEF NewsInv, VersionsArePast, IsPast
  <2>5. Shown' = Shown
    BY <2>1 DEF Shown
  <2>6. NoneIsUntold'
    BY <2>1, <2>2, <2>5 DEF NewsInv, NoneIsUntold, Untold
  <2>7. QED
    BY <2>3, <2>4, <2>6 DEF NewsInv
<1>6. QED
  BY <1>1, <1>2, <1>3, <1>4, <1>5

-----------------------------------------------------------------------------
(* The coordinator: when it knows the agent's version and had not known it, *)
(* everyone is told, or it is noted that they are not.                     *)
LEMMA KnowsAndTells ==
  ASSUME NewsInv, KnowAndAsk, UNCHANGED <<hardware, agentUp, monitor, open, view, newsFaults>>,
         queue' \in [Browsers -> SUBSET Topics], unannounced' \in BOOLEAN,
         \A b \in open : Untold(b)' => unannounced'
  PROVE  NewsInv'
<1>1. Shown' = Shown
  BY DEF Shown
<1>2. watch' = [at |-> "ask", known |-> Shown]
  BY DEF KnowAndAsk
<1>3. NewsTypeOK'
  BY <1>2, ShownType DEF NewsInv, NewsTypeOK
<1>4. IsPast(watch.known)'
  BY <1>2, ShownType DEF NewsInv, IsPast
<1>5. VersionsArePast'
  BY <1>2, <1>4 DEF NewsInv, VersionsArePast
<1>6. NoneIsUntold'
  BY DEF NoneIsUntold
<1>7. QED
  BY <1>3, <1>5, <1>6 DEF NewsInv

(* A step of the coordinator alone, which keeps what it knows.             *)
LEMMA KeepsWhatItKnows ==
  ASSUME NewsInv, UNCHANGED <<hardware, agentUp, monitor, open, queue, view, unannounced>>,
         newsFaults' \in 0 .. MaxNewsFaults, watch'.known = watch.known,
         \/ watch' \in Watching
         \/ watch' = [at |-> "poll", known |-> watch.known, channel |-> watch.known]
  PROVE  NewsInv'
<1>1. watch' \in Watching \cup Polls
  BY NewsNumbers DEF Polls
<1>2. NewsTypeOK'
  BY <1>1 DEF NewsInv, NewsTypeOK
<1>3. VersionsArePast'
  <2>1. IsPast(watch.known)'
    BY DEF NewsInv, VersionsArePast, IsPast
  <2>2. watch'.at = "poll" => watch'.channel = watch'.known
    <3>1. CASE watch' \in Watching
      BY <3>1 DEF Watching
    <3>2. CASE watch' = [at |-> "poll", known |-> watch.known, channel |-> watch.known]
      BY <3>2
    <3>3. QED
      BY <3>1, <3>2
  <2>3. QED
    BY <2>1, <2>2 DEF NewsInv, VersionsArePast
<1>4. NoneIsUntold'
  BY DEF NewsInv, NoneIsUntold, Untold, Shown
<1>5. QED
  BY <1>2, <1>3, <1>4 DEF NewsInv

LEMMA CoordinatorKeepsNews ==
  ASSUME NewsInv, TakeSnapshot \/ Ask \/ PollChanged \/ PollTimesOut \/ WatchFails \/ Retry
  PROVE  NewsInv'
<1>T. /\ NewsTypeOK /\ queue \in [Browsers -> SUBSET Topics] /\ unannounced \in BOOLEAN
      /\ newsFaults \in 0 .. MaxNewsFaults /\ watch.known \in Versions
  BY NewsNumbers DEF NewsInv, NewsTypeOK
<1>A. ASSUME KnowAndAsk, Announce, UNCHANGED <<monitorVars, open, view, newsFaults>>
      PROVE  NewsInv'
  <2>1. UNCHANGED <<hardware, agentUp, monitor, open, view, newsFaults>>
    BY <1>A DEF monitorVars
  <2>2. \A b \in open : ~Untold(b)'
    BY <1>A, <1>T, Announced DEF Untold
  <2>3. QED
    BY <1>A, <1>T, <2>1, <2>2, Announced, KnowsAndTells
<1>K. ASSUME KnowAndAsk, watch.known = Shown, UNCHANGED <<queue, unannounced>>,
             UNCHANGED <<monitorVars, open, view, newsFaults>>
      PROVE  NewsInv'
  <2>1. UNCHANGED <<hardware, agentUp, monitor, open, view, newsFaults>>
    BY <1>K DEF monitorVars
  <2>2. \A b \in open : Untold(b)' => Untold(b)
    BY <1>K, <2>1 DEF Untold
  <2>3. \A b \in open : Untold(b)' => unannounced'
    BY <1>K, <2>2 DEF NewsInv, NoneIsUntold
  <2>4. QED
    BY <1>K, <1>T, <2>1, <2>3, KnowsAndTells
<1>1. CASE TakeSnapshot
  <2>1. KnowAndAsk /\ UNCHANGED <<monitorVars, open, view, newsFaults>>
    BY <1>1 DEF TakeSnapshot
  <2>2. CASE watch.known = Unknown
    <3>1. /\ unannounced' = \E b \in open : view[b] # hardware
          /\ UNCHANGED queue
      BY <1>1, <2>2 DEF TakeSnapshot
    <3>2. UNCHANGED <<hardware, agentUp, monitor, open, view, newsFaults>>
      BY <2>1 DEF monitorVars
    <3>3. \A b \in open : Untold(b)' => unannounced'
      BY <3>1, <3>2 DEF Untold
    <3>4. unannounced' \in BOOLEAN
      BY <3>1
    <3>5. QED
      BY <1>T, <2>1, <3>1, <3>2, <3>3, <3>4, KnowsAndTells
  <2>3. CASE watch.known # Unknown /\ watch.known # Shown
    BY <1>1, <1>A, <2>1, <2>3 DEF TakeSnapshot
  <2>4. CASE watch.known # Unknown /\ watch.known = Shown
    BY <1>1, <1>K, <2>1, <2>4 DEF TakeSnapshot
  <2>5. QED
    BY <2>2, <2>3, <2>4
<1>2. CASE Ask
  <2>1. UNCHANGED <<monitorVars, open, view, newsFaults>>
    BY <1>2 DEF Ask
  <2>2. CASE Newer
    BY <1>2, <1>A, <2>1, <2>2 DEF Ask
  <2>3. CASE ~Newer
    <3>1. /\ watch' = [at |-> "poll", known |-> watch.known, channel |-> Shown]
          /\ UNCHANGED <<queue, unannounced>>
      BY <1>2, <2>3 DEF Ask
    <3>2. Shown = watch.known
      <4>1. /\ Shown.instance = watch.known.instance
            /\ ~(Shown.generation > watch.known.generation)
        BY <2>3 DEF Newer
      <4>2. Shown.generation <= monitor.generation /\ Shown \in Versions
        BY <1>T, ShownType, NewsNumbers
      <4>3. watch.known.generation <= Shown.generation
        BY <1>T, <4>1, ShownType DEF NewsInv, VersionsArePast, IsPast
      <4>4. Shown.generation = watch.known.generation
        BY <1>T, <4>1, <4>2, <4>3, NewsConstants DEF Versions
      <4>5. QED
        BY <1>T, <4>1, <4>2, <4>4 DEF Versions
    <3>3. QED
      BY <1>T, <2>1, <3>1, <3>2, KeepsWhatItKnows DEF monitorVars
  <2>4. QED
    BY <2>2, <2>3
<1>3. CASE PollChanged
  BY <1>3, <1>A DEF PollChanged
<1>4. CASE PollTimesOut
  <2>1. /\ KnowAndAsk /\ UNCHANGED <<hardware, agentUp, monitor, open, queue, view, newsFaults>>
        /\ unannounced' = (unannounced \/ watch.known # Shown)
    BY <1>4 DEF PollTimesOut, monitorVars, browserVars
  <2>2. ASSUME NEW b \in open, Untold(b)' PROVE unannounced'
    <3>1. CASE watch.known = Shown
      BY <2>1, <2>2, <3>1 DEF NewsInv, NoneIsUntold, Untold
    <3>2. QED
      BY <2>1, <3>1
  <2>3. QED
    BY <1>T, <2>1, <2>2, KnowsAndTells
<1>5. CASE WatchFails
  <2>1. newsFaults' \in 0 .. MaxNewsFaults
    <3>1. \/ newsFaults < MaxNewsFaults /\ newsFaults' = newsFaults + 1
          \/ newsFaults' = newsFaults
      BY <1>5 DEF WatchFails
    <3>2. QED
      BY <1>T, <3>1, NewsConstants
  <2>2. watch' \in Watching /\ watch'.known = watch.known
    BY <1>5, <1>T DEF WatchFails, Watching
  <2>3. QED
    BY <1>5, <1>T, <2>1, <2>2, KeepsWhatItKnows DEF WatchFails, monitorVars, browserVars
<1>6. CASE Retry
  <2>1. watch' \in Watching
        /\ watch'.known = watch.known
    BY <1>6, <1>T DEF Retry, NewsTypeOK, Watching, Polls
  <2>2. QED
    BY <1>6, <1>T, <2>1, KeepsWhatItKnows DEF Retry, monitorVars, browserVars
<1>7. QED
  BY <1>1, <1>2, <1>3, <1>4, <1>5, <1>6

-----------------------------------------------------------------------------
(* Browsers and restarts of simplusd.                                      *)
LEMMA BrowserKeepsNews ==
  ASSUME NewsInv, NEW b \in Browsers, Connect(b) \/ Disconnect(b) \/ TakeEvent(b)
  PROVE  NewsInv'
<1>T. /\ NewsTypeOK /\ queue \in [Browsers -> SUBSET Topics] /\ open \subseteq Browsers
      /\ view \in [Browsers -> 0 .. MaxHardware \cup {NoView}] /\ hardware \in 0 .. MaxHardware
  BY DEF NewsInv, NewsTypeOK
<1>1. CASE Connect(b) \/ Disconnect(b)
  <2>1. UNCHANGED <<hardware, agentUp, monitor, watch, view, unannounced, newsFaults>>
    BY <1>1 DEF Connect, Disconnect, monitorVars
  <2>2. /\ open' \subseteq Browsers /\ queue' \in [Browsers -> SUBSET Topics]
        /\ \A c \in open' : \/ "hardware" \in queue'[c]
                            \/ c \in open /\ queue'[c] = queue[c]
    <3>1. CASE Connect(b)
      BY <1>T, <3>1 DEF Connect, Topics
    <3>2. CASE Disconnect(b)
      BY <1>T, <3>2 DEF Disconnect
    <3>3. QED
      BY <1>1, <3>1, <3>2
  <2>3. NewsTypeOK'
    BY <2>1, <2>2 DEF NewsInv, NewsTypeOK
  <2>4. VersionsArePast'
    BY <2>1 DEF NewsInv, VersionsArePast, IsPast
  <2>5. Shown' = Shown
    BY <2>1 DEF Shown
  <2>6. NoneIsUntold'
    BY <2>1, <2>2, <2>5 DEF NewsInv, NoneIsUntold, Untold
  <2>7. QED
    BY <2>3, <2>4, <2>6 DEF NewsInv
<1>2. CASE TakeEvent(b)
  <2>1. /\ queue' = [queue EXCEPT ![b] = {}] /\ queue[b] # {}
        /\ UNCHANGED <<hardware, agentUp, watch, open, unannounced, newsFaults>>
    BY <1>2 DEF TakeEvent
  <2>2. CASE "hardware" \notin queue[b]
    <3>1. UNCHANGED <<view, monitor>>
      BY <1>2, <2>2 DEF TakeEvent
    <3>2. /\ queue' \in [Browsers -> SUBSET Topics]
          /\ \A c \in open : "hardware" \in queue[c] => "hardware" \in queue'[c]
      BY <1>T, <2>1, <2>2
    <3>3. NewsTypeOK'
      BY <2>1, <3>1, <3>2 DEF NewsInv, NewsTypeOK
    <3>4. VersionsArePast'
      BY <2>1, <3>1 DEF NewsInv, VersionsArePast, IsPast
    <3>5. Shown' = Shown
      BY <3>1 DEF Shown
    <3>6. NoneIsUntold'
      BY <2>1, <3>1, <3>2, <3>5 DEF NewsInv, NoneIsUntold, Untold
    <3>7. QED
      BY <3>3, <3>4, <3>6 DEF NewsInv
  <2>3. CASE "hardware" \in queue[b]
    <3>1. /\ view' = [view EXCEPT ![b] = IF agentUp THEN hardware ELSE NoView]
          /\ monitor' = IF agentUp THEN Refreshed ELSE monitor
      BY <1>2, <2>3 DEF TakeEvent
    <3>2. /\ queue' \in [Browsers -> SUBSET Topics]
          /\ view' \in [Browsers -> 0 .. MaxHardware \cup {NoView}]
          /\ \A c \in open : c # b => queue'[c] = queue[c] /\ view'[c] = view[c]
          /\ agentUp /\ b \in open => view'[b] = hardware
      BY <1>T, <2>1, <3>1
    <3>3. CASE ~agentUp
      <4>1. NewsTypeOK' /\ NoneIsUntold'
        BY <2>1, <3>1, <3>2, <3>3 DEF NewsInv, NewsTypeOK, NoneIsUntold, Untold
      <4>2. VersionsArePast'
        BY <2>1, <3>1, <3>3 DEF NewsInv, VersionsArePast, IsPast
      <4>3. QED
        BY <4>1, <4>2 DEF NewsInv
    <3>4. CASE agentUp
      <4>1. monitor' = Refreshed
        BY <3>1, <3>4
      <4>2. /\ VersionsArePast' /\ monitor' \in Monitors
            /\ watch'.known = Shown' => monitor.content = hardware /\ watch.known = Shown
        BY <2>1, <4>1, ScanKeeps
      <4>3. NewsTypeOK'
        BY <2>1, <3>2, <4>2 DEF NewsInv, NewsTypeOK, Monitors
      <4>4. NoneIsUntold'
        BY <2>1, <3>2, <3>4, <4>2 DEF NewsInv, NoneIsUntold, Untold
      <4>5. QED
        BY <4>2, <4>3, <4>4 DEF NewsInv
    <3>5. QED
      BY <3>3, <3>4
  <2>4. QED
    BY <2>2, <2>3
<1>3. QED
  BY <1>1, <1>2

LEMMA RestartKeepsNews == NewsInv /\ ServerRestarts => NewsInv'
<1> SUFFICES ASSUME NewsInv, ServerRestarts PROVE NewsInv'
  OBVIOUS
<1>1. /\ newsFaults' \in 0 .. MaxNewsFaults /\ open' = {}
      /\ watch' = [at |-> "snapshot", known |-> Unknown]
      /\ queue' = [b \in Browsers |-> {}]
      /\ UNCHANGED <<hardware, agentUp, monitor, view, unannounced>>
  <2>1. newsFaults \in 0 .. MaxNewsFaults /\ newsFaults < MaxNewsFaults
        /\ newsFaults' = newsFaults + 1
    BY DEF ServerRestarts, NewsInv, NewsTypeOK
  <2>2. newsFaults' \in 0 .. MaxNewsFaults
    BY <2>1, NewsConstants
  <2>3. QED
    BY <2>2 DEF ServerRestarts, monitorVars
<1>2. Unknown \in Versions /\ Unknown.instance = 0
  BY NewsConstants DEF Unknown, Versions
<1>3. NewsTypeOK'
  <2>1. watch' \in Watching
    BY <1>1, <1>2 DEF Watching
  <2>2. QED
    BY <1>1, <2>1 DEF NewsInv, NewsTypeOK
<1>4. IsPast(watch.known)'
  BY <1>1, <1>2, NewsNumbers DEF IsPast
<1>5. VersionsArePast' /\ NoneIsUntold'
  BY <1>1, <1>4 DEF NewsInv, VersionsArePast, NoneIsUntold
<1>6. QED
  BY <1>3, <1>5 DEF NewsInv

LEMMA NewsInvNext == NewsInv /\ [NewsNext]_newsVars => NewsInv'
<1> SUFFICES ASSUME NewsInv, [NewsNext]_newsVars PROVE NewsInv'
  OBVIOUS
<1>1. CASE UNCHANGED newsVars
  BY <1>1 DEF newsVars, NewsInv, NewsTypeOK, VersionsArePast, IsPast, NoneIsUntold,
              Untold, Shown
<1>2. CASE NewsNext
  BY <1>2, AgentKeepsNews, CoordinatorKeepsNews, BrowserKeepsNews, RestartKeepsNews
  DEF NewsNext
<1>3. QED
  BY <1>1, <1>2

(* For any hardware, browsers, restarts and faults, a browser with an open *)
(* stream that shows an old inventory is told, except for the two changes  *)
(* that the coordinator takes in without an announcement (monitor.go,      *)
(* change_coordinator.go, hub.go).                                         *)
THEOREM StaleIsTold == NewsSpec => []StaleIsAnnounced
<1>1. NewsInv => StaleIsAnnounced
  BY DEF NewsInv, NoneIsUntold, Untold, StaleIsAnnounced
<1>2. QED
  BY <1>1, NewsInvInit, NewsInvNext, PTL DEF NewsSpec

-----------------------------------------------------------------------------
(* Radio commands.                                                         *)

(* The fence of a request's group has seen its token.                      *)
FenceSaw(c) == c.group \in DOMAIN fences /\ c.token <= fences[c.group].token

(* An operation is in the ledger once; what is pending is its last entry,  *)
(* and is the command in progress if there is one.                         *)
EntriesAreDistinct ==
  \A i, j \in DOMAIN ledger :
    ledger[i].request.operation = ledger[j].request.operation => i = j
PendingIsLast ==
  /\ \A i \in DOMAIN ledger : ledger[i].state = "accepted" => i = Len(ledger)
  /\ command # NoCommand =>
       /\ ledger # << >>
       /\ ledger[Len(ledger)].state = "accepted"
       /\ ledger[Len(ledger)].request = command.request

(* The fences have seen the token of whatever is in the ledger and of      *)
(* whatever reached the radio.                                             *)
TokensAreUsed ==
  /\ \A i \in DOMAIN ledger : FenceSaw(ledger[i].request)
  /\ \A c \in Commands : dispatched[c] > 0 => FenceSaw(c)

OffIsSeen == radioOff => sawOff = OperationIds

(* What the command in progress says of itself is so: nothing with its     *)
(* token reached the radio but itself, and that is noted.                  *)
CommandIsTrue ==
  command # NoCommand =>
    /\ command.at # "executed" => ~command.dispatched
    /\ ~command.dispatched =>
         \A d \in Commands : SameToken(d, command.request) => dispatched[d] = 0
    /\ command.at = "executed" /\ command.state = "succeeded" =>
         command.request.operation \in sawOff
    /\ command.at = "executed" /\ command.dispatched /\ command.state = "failed" =>
         command.code # "hardware_changed"

(* The inductive invariant behind LedgerIsSafe.                            *)
LedgerInv ==
  /\ LedgerTypeOK
  /\ EntriesAreDistinct /\ PendingIsLast
  /\ TokensAreUsed /\ OffIsSeen /\ CommandIsTrue
  /\ DispatchedOnce /\ OutcomesAreTrue

LEMMA LedgerConstants ==
  /\ MaxOutcomes \in Nat \ {0} /\ MaxLife \in Nat /\ MaxRevision \in Nat
  /\ \A c \in Commands : c.token \in Nat \ {0} /\ c.generation \in Nat \ {0}
BY LedgerAssumption DEF LedgerAssumption

LEMMA LedgerIsSequence ==
  ASSUME LedgerTypeOK
  PROVE  /\ DOMAIN ledger = 1 .. Len(ledger) /\ Len(ledger) \in Nat
         /\ \A i \in DOMAIN ledger : ledger[i] \in Outcomes
BY DEF LedgerTypeOK

LEMMA OutcomeFields ==
  ASSUME NEW e \in Outcomes
  PROVE  /\ e.request \in Commands /\ e.request.operation \in OperationIds
         /\ e.request.group \in Groups /\ e.code \in Codes
         /\ e.state \in {"accepted"} \cup Terminal
BY DEF Outcomes, OperationIds, Groups

LEMMA CommandFields ==
  ASSUME LedgerTypeOK, command # NoCommand
  PROVE  /\ command.at \in {"accepted", "execute", "executed"}
         /\ command.request \in Commands /\ command.snapshot \in Snapshots
         /\ command.dispatched \in BOOLEAN
         /\ command.state \in Terminal /\ command.code \in Codes
         /\ command.request.operation \in OperationIds
         /\ command.request.group \in Groups
BY DEF LedgerTypeOK, OperationIds, Groups

(* A step of the command's execution changes what came of it only.         *)
LEMMA DraftIsTyped ==
  ASSUME LedgerTypeOK, command # NoCommand, NEW step \in {"accepted", "execute", "executed"},
         NEW did \in BOOLEAN, NEW state \in Terminal, NEW code \in Codes,
         Draft(step, did, state, code)
  PROVE  /\ command' \in [at : {"accepted", "execute", "executed"}, request : Commands,
                         snapshot : Snapshots, dispatched : BOOLEAN,
                         state : Terminal, code : Codes]
         /\ command'.request = command.request
         /\ command'.dispatched = did /\ command'.state = state
BY DEF Draft, LedgerTypeOK

(* What is left of the ledger is its end.                                  *)
LEMMA KeptIsEnd ==
  ASSUME LedgerTypeOK
  PROVE  \E n \in Nat : /\ Kept \in Seq(Outcomes) /\ Len(Kept) = Len(ledger) - n
                        /\ \A i \in 1 .. Len(Kept) :
                             i + n \in DOMAIN ledger /\ Kept[i] = ledger[i + n]
<1>1. ledger \in Seq(Outcomes) /\ Len(ledger) \in Nat /\ DOMAIN ledger = 1 .. Len(ledger)
  BY LedgerIsSequence DEF LedgerTypeOK
<1>2. Excess \in Int /\ Excess <= Len(ledger)
  BY <1>1, LedgerConstants DEF Excess
<1>3. CASE Excess <= 0
  <2>1. Kept = ledger
    BY <1>3 DEF Kept
  <2>2. WITNESS 0 \in Nat
  <2>3. QED
    BY <1>1, <2>1
<1>4. CASE Excess > 0
  <2>1. Kept = SubSeq(ledger, Excess + 1, Len(ledger))
    BY <1>2, <1>4 DEF Kept
  <2>2. Excess \in Nat
    BY <1>2, <1>4
  <2> DEFINE first == Excess + 1
             last == Len(ledger)
  <2>3. first \in 1 .. last + 1 /\ last \in first - 1 .. last /\ last \in Nat
    BY <1>1, <1>2, <2>2
  <2>4. /\ SubSeq(ledger, first, last) \in Seq(Outcomes)
        /\ Len(SubSeq(ledger, first, last)) = last - first + 1
        /\ \A i \in 1 .. last - first + 1 :
             SubSeq(ledger, first, last)[i] = ledger[first + i - 1]
    <3>1. first \in Int /\ last \in Int /\ first <= last + 1
          /\ \A i \in first .. last : ledger[i] \in Outcomes
      BY <1>1, <2>3, LedgerIsSequence
    <3> HIDE DEF first, last
    <3>2. QED
      BY <3>1, SubSeqProperties
  <2>5. Kept \in Seq(Outcomes) /\ Len(Kept) = Len(ledger) - Excess
    <3>1. last - first + 1 = Len(ledger) - Excess
      <4>1. \A a, b \in Nat : a - (b + 1) + 1 = a - b
        OBVIOUS
      <4>2. QED
        BY <2>2, <2>3, <4>1, Zenon
    <3>2. QED
      BY <2>1, <2>4, <3>1, Zenon
  <2>6. ASSUME NEW i \in 1 .. Len(Kept)
        PROVE  i + Excess \in DOMAIN ledger /\ Kept[i] = ledger[i + Excess]
    <3>1. i \in 1 .. last - first + 1 /\ first + i - 1 = i + Excess
      BY <2>2, <2>5, <1>1
    <3>2. Kept[i] = ledger[first + i - 1]
      BY <2>1, <2>4, <3>1
    <3>3. QED
      BY <1>1, <2>2, <2>5, <3>1, <3>2
  <2>7. WITNESS Excess \in Nat
  <2>8. QED
    BY <2>5, <2>6
<1>5. QED
  BY <1>2, <1>3, <1>4

(* Accept: the entries that are kept, in their order, and the new one.     *)
LEMMA AcceptAppends ==
  ASSUME LedgerTypeOK, NEW c \in Commands, Accept(c)
  PROVE  \E n \in Nat :
           /\ ledger' \in Seq(Outcomes) /\ Len(ledger') = Len(ledger) - n + 1
           /\ Len(ledger') \in Nat \ {0} /\ DOMAIN ledger' = 1 .. Len(ledger')
           /\ ledger'[Len(ledger')] = [request |-> c, state |-> "accepted", code |-> "accepted"]
           /\ \A i \in DOMAIN ledger' : i # Len(ledger') =>
                i + n \in DOMAIN ledger /\ ledger'[i] = ledger[i + n]
<1> DEFINE e == [request |-> c, state |-> "accepted", code |-> "accepted"]
<1>1. PICK n \in Nat : /\ Kept \in Seq(Outcomes) /\ Len(Kept) = Len(ledger) - n
                       /\ \A i \in 1 .. Len(Kept) :
                            i + n \in DOMAIN ledger /\ Kept[i] = ledger[i + n]
  BY KeptIsEnd
<1>2. e \in Outcomes
  BY DEF Outcomes, Codes
<1>3. ledger' = Append(Kept, e)
  BY DEF Accept
<1> HIDE DEF e
<1>4. /\ ledger' \in Seq(Outcomes) /\ Len(ledger') = Len(Kept) + 1
      /\ Len(Kept) \in Nat /\ DOMAIN ledger' = 1 .. Len(ledger')
      /\ ledger'[Len(ledger')] = e
      /\ \A i \in 1 .. Len(Kept) : ledger'[i] = Kept[i]
  BY <1>1, <1>2, <1>3
<1>5. Len(ledger') = Len(ledger) - n + 1 /\ Len(ledger') \in Nat \ {0}
  BY <1>1, <1>4, LedgerIsSequence
<1>6. \A i \in DOMAIN ledger' : i # Len(ledger') =>
        i + n \in DOMAIN ledger /\ ledger'[i] = ledger[i + n]
  <2>1. \A i \in DOMAIN ledger' : i # Len(ledger') => i \in 1 .. Len(Kept)
    BY <1>4
  <2>2. QED
    BY <1>1, <1>4, <2>1
<1>7. ledger'[Len(ledger')] = [request |-> c, state |-> "accepted", code |-> "accepted"]
  BY <1>4 DEF e
<1>8. QED
  BY <1>4, <1>5, <1>6, <1>7

(* Complete: the pending entry of the operation is decided.                *)
LEMMA CompletedDecides ==
  ASSUME LedgerTypeOK, NEW o, NEW outcome, Completed(o, outcome)
  PROVE  /\ DOMAIN ledger' = DOMAIN ledger
         /\ \A i \in DOMAIN ledger :
              /\ ledger'[i].request = ledger[i].request
              /\ \/ ledger'[i] = ledger[i]
                    /\ ~(ledger[i].request.operation = o /\ ledger[i].state = "accepted")
                 \/ /\ ledger[i].request.operation = o /\ ledger[i].state = "accepted"
                    /\ ledger'[i] = [ledger[i] EXCEPT !.state = outcome.state,
                                                      !.code = outcome.code]
                    /\ ledger'[i].state = outcome.state /\ ledger'[i].code = outcome.code
<1>1. \A i \in DOMAIN ledger : ledger[i] \in Outcomes
  BY LedgerIsSequence
<1>2. QED
  BY <1>1 DEF Completed, Entry, Outcomes

LEMMA IsASequence ==
  ASSUME NEW S, NEW n \in Nat, NEW s \in [1 .. n -> S]
  PROVE  s \in Seq(S) /\ Len(s) = n
OBVIOUS

LEMMA CompletedIsTyped ==
  ASSUME LedgerTypeOK, NEW o, NEW outcome, Completed(o, outcome),
         outcome.state \in Terminal, outcome.code \in Codes
  PROVE  ledger' \in Seq(Outcomes) /\ Len(ledger') = Len(ledger)
<1>1. DOMAIN ledger = 1 .. Len(ledger) /\ Len(ledger) \in Nat
  BY LedgerIsSequence
<1>2. DOMAIN ledger' = 1 .. Len(ledger)
  BY <1>1, CompletedDecides
<1>3. ASSUME NEW i \in 1 .. Len(ledger) PROVE ledger'[i] \in Outcomes
  <2>1. ledger[i] \in Outcomes
    BY <1>1, LedgerIsSequence
  <2>2. [ledger[i] EXCEPT !.state = outcome.state, !.code = outcome.code] \in Outcomes
    BY <2>1 DEF Outcomes
  <2>3. ledger'[i] = ledger[i] \/
        ledger'[i] = [ledger[i] EXCEPT !.state = outcome.state, !.code = outcome.code]
    BY <1>1, <2>1 DEF Completed
  <2>4. QED
    BY <2>1, <2>2, <2>3
<1>4. ledger' \in [1 .. Len(ledger) -> Outcomes]
  <2>1. ledger' = [i \in DOMAIN ledger |-> ledger'[i]]
    BY DEF Completed
  <2>2. QED
    BY <1>1, <1>3, <2>1
<1>5. QED
  BY <1>1, <1>4, IsASequence

(* A new token is above every one the fences have seen.                    *)
LEMMA AcceptedIsNew ==
  ASSUME LedgerInv, NEW c \in Commands, Accept(c)
  PROVE  /\ \A i \in DOMAIN ledger : ledger[i].request.operation # c.operation
         /\ \A i \in DOMAIN ledger : ledger[i].state # "accepted"
         /\ \A d \in Commands : SameToken(d, c) => dispatched[d] = 0
         /\ c.group \in DOMAIN fences' /\ fences'[c.group].token = c.token
         /\ fences'[c.group] = [generation |-> c.generation, token |-> c.token]
         /\ DOMAIN fences' = DOMAIN fences \cup {c.group}
         /\ \A g \in DOMAIN fences : g # c.group => fences'[g] = fences[g]
         /\ \A d \in Commands : FenceSaw(d) => FenceSaw(d)'
<1>1. LedgerTypeOK /\ TokensAreUsed
  BY DEF LedgerInv
<1>2. /\ \A i \in DOMAIN ledger : ledger[i].request.operation # c.operation
      /\ \A i \in DOMAIN ledger : ledger[i].state # "accepted"
  BY DEF Accept, Entry, Accepted
<1>3. /\ c.group \in DOMAIN fences' /\ fences'[c.group].token = c.token
      /\ fences'[c.group] = [generation |-> c.generation, token |-> c.token]
      /\ DOMAIN fences' = DOMAIN fences \cup {c.group}
      /\ \A g \in DOMAIN fences : g # c.group => fences'[g] = fences[g]
  BY DEF Accept, Fenced
<1>4. c.group \in DOMAIN fences => c.token > fences[c.group].token
  BY DEF Accept, FenceHolds
<1>5. /\ c.token \in Nat /\ \A d \in Commands : d.token \in Nat
      /\ \A g \in DOMAIN fences : fences[g].token \in Nat
  BY <1>1, LedgerConstants DEF LedgerTypeOK
<1>6. ASSUME NEW d \in Commands, SameToken(d, c) PROVE dispatched[d] = 0
  <2>1. ~FenceSaw(d)
    BY <1>4, <1>5, <1>6 DEF FenceSaw, SameToken
  <2>2. dispatched[d] \in Nat
    BY <1>1 DEF LedgerTypeOK
  <2>3. QED
    BY <1>1, <2>1, <2>2 DEF TokensAreUsed
<1>7. ASSUME NEW d \in Commands, FenceSaw(d) PROVE FenceSaw(d)'
  BY <1>3, <1>4, <1>5, <1>7 DEF FenceSaw
<1>8. QED
  BY <1>2, <1>3, <1>6, <1>7

LEMMA DecidedIsTyped ==
  ASSUME LedgerTypeOK, command # NoCommand
  PROVE  Decided.state \in Terminal /\ Decided.code \in Codes
BY CommandFields DEF Decided, Terminal, Codes

LEMMA LedgerTyped == LedgerInv /\ [LedgerNext]_ledgerVars => LedgerTypeOK'
<1> SUFFICES ASSUME LedgerInv, [LedgerNext]_ledgerVars PROVE LedgerTypeOK'
  OBVIOUS
<1>1. ASSUME \E c \in Commands : AnswerKnown(c) PROVE LedgerTypeOK'
  BY <1>1, LedgerConstants DEF AnswerKnown, NoCommand, ledgerVars, LedgerInv, LedgerTypeOK
<1>2. ASSUME \E c \in Commands : Accept(c) PROVE LedgerTypeOK'
  <2>0. LedgerTypeOK
    BY DEF LedgerInv
  <2>1. PICK c \in Commands : Accept(c)
    BY <1>2
  <2>2. ledger' \in Seq(Outcomes)
    BY <2>0, <2>1, AcceptAppends
  <2>3. DOMAIN fences' \subseteq Groups
        /\ \A g \in DOMAIN fences' : fences'[g] \in [generation : Nat, token : Nat]
    <3>1. c.group \in Groups /\ c.token \in Nat /\ c.generation \in Nat
      BY LedgerConstants DEF Groups
    <3>2. ASSUME NEW g \in DOMAIN fences'
          PROVE  g \in Groups /\ fences'[g] \in [generation : Nat, token : Nat]
      <4>0. /\ fences'[c.group] = [generation |-> c.generation, token |-> c.token]
            /\ DOMAIN fences' = DOMAIN fences \cup {c.group}
            /\ \A h \in DOMAIN fences : h # c.group => fences'[h] = fences[h]
        BY <2>1, AcceptedIsNew
      <4>1. CASE g = c.group
        BY <3>1, <4>0, <4>1
      <4>2. CASE g # c.group
        <5>1. g \in DOMAIN fences /\ fences'[g] = fences[g]
          BY <3>2, <4>0, <4>2
        <5>2. QED
          BY <2>0, <5>1 DEF LedgerTypeOK
      <4>3. QED
        BY <4>1, <4>2
    <3>3. QED
      BY <3>2
  <2>4. command' \in [at : {"accepted", "execute", "executed"}, request : Commands,
                      snapshot : Snapshots, dispatched : BOOLEAN,
                      state : Terminal, code : Codes]
    BY <2>0, <2>1 DEF Accept, Terminal, Codes, LedgerTypeOK
  <2>5. sawOff' \subseteq OperationIds
    BY <2>0, <2>1 DEF Accept, OperationIds, LedgerTypeOK
  <2>6. QED
    BY <2>0, <2>1, <2>2, <2>3, <2>4, <2>5 DEF Accept, LedgerTypeOK
<1>3. ASSUME \E c \in Commands : RefuseCommand(c) PROVE LedgerTypeOK'
  BY <1>3, LedgerConstants DEF RefuseCommand, NoCommand, ledgerVars, LedgerInv, LedgerTypeOK
<1>4. ASSUME CheckBefore PROVE LedgerTypeOK'
  <2>0. LedgerTypeOK
    BY DEF LedgerInv
  <2>1. command' \in [at : {"accepted", "execute", "executed"}, request : Commands,
                      snapshot : Snapshots, dispatched : BOOLEAN,
                      state : Terminal, code : Codes]
    <3>1. \E step \in {"execute", "executed"}, code \in Codes : Draft(step, FALSE, "failed", code)
      BY <1>4 DEF CheckBefore, Codes
    <3>2. QED
      BY <1>4, <2>0, <3>1, DraftIsTyped DEF CheckBefore, Terminal
  <2>2. QED
    BY <1>4, <2>0, <2>1 DEF CheckBefore, LedgerTypeOK
<1>5. ASSUME Execute PROVE LedgerTypeOK'
  <2>0. LedgerTypeOK
    BY DEF LedgerInv
  <2>1. command' \in [at : {"accepted", "execute", "executed"}, request : Commands,
                      snapshot : Snapshots, dispatched : BOOLEAN,
                      state : Terminal, code : Codes]
    <3>1. \E did \in BOOLEAN, state \in Terminal, code \in Codes :
            Draft("executed", did, state, code)
      BY <1>5 DEF Execute, Terminal, Codes
    <3>2. QED
      BY <1>5, <2>0, <3>1, DraftIsTyped DEF Execute
  <2>2. /\ dispatched' \in [Commands -> Nat] /\ sawOff' \subseteq OperationIds
        /\ radioOff' \in BOOLEAN
    <3>1. \/ UNCHANGED <<radioOff, dispatched, sawOff>>
          \/ command # NoCommand /\ \E off \in BOOLEAN : Reaches(command.request, off)
      BY <1>5 DEF Execute
    <3>2. CASE UNCHANGED <<radioOff, dispatched, sawOff>>
      BY <2>0, <3>2 DEF LedgerTypeOK
    <3>3. ASSUME NEW off \in BOOLEAN, Reaches(command.request, off), command # NoCommand
          PROVE  /\ dispatched' \in [Commands -> Nat] /\ sawOff' \subseteq OperationIds
                 /\ radioOff' \in BOOLEAN
      <4>1. command.request \in Commands
        BY <2>0, <3>3, CommandFields
      <4>2. dispatched' \in [Commands -> Nat]
        BY <2>0, <3>3, <4>1 DEF Reaches, LedgerTypeOK
      <4>3. QED
        BY <2>0, <3>3, <4>2 DEF Reaches, LedgerTypeOK
    <3>4. QED
      BY <3>1, <3>2, <3>3
  <2>3. QED
    BY <1>5, <2>0, <2>1, <2>2 DEF Execute, LedgerTypeOK
<1>6. ASSUME Persist PROVE LedgerTypeOK'
  <2>0. LedgerTypeOK
    BY DEF LedgerInv
  <2>1. Completed(command.request.operation, Decided) /\ command # NoCommand
    BY <1>6 DEF Persist
  <2>2. ledger' \in Seq(Outcomes)
    BY <2>0, <2>1, DecidedIsTyped, CompletedIsTyped
  <2>3. QED
    BY <1>6, <2>0, <2>2 DEF Persist, LedgerTypeOK
<1>7. ASSUME WriteFails PROVE LedgerTypeOK'
  BY <1>7, LedgerConstants DEF WriteFails, NoCommand, LedgerInv, LedgerTypeOK
<1>8. ASSUME Restart PROVE LedgerTypeOK'
  BY <1>8, LedgerConstants DEF Restart, NoCommand, Snapshots, LedgerInv, LedgerTypeOK
<1>9. ASSUME \E i \in DOMAIN ledger : Reconcile(i) PROVE LedgerTypeOK'
  <2>0. LedgerTypeOK
    BY DEF LedgerInv
  <2>1. PICK i \in DOMAIN ledger : Reconcile(i)
    BY <1>9
  <2>2. PICK o, outcome : /\ Completed(o, outcome)
                          /\ outcome.state \in Terminal /\ outcome.code \in Codes
    BY <2>1 DEF Reconcile, Terminal, Codes
  <2>3. ledger' \in Seq(Outcomes)
    BY <2>0, <2>2, CompletedIsTyped
  <2>4. QED
    BY <2>0, <2>1, <2>3 DEF Reconcile, LedgerTypeOK
<1>10. ASSUME HardwareChanges PROVE LedgerTypeOK'
  BY <1>10, LedgerConstants DEF HardwareChanges, Snapshots, LedgerInv, LedgerTypeOK
<1>11. ASSUME RadioOn PROVE LedgerTypeOK'
  BY <1>11, LedgerConstants DEF RadioOn, LedgerInv, LedgerTypeOK
<1>12. ASSUME UNCHANGED ledgerVars PROVE LedgerTypeOK'
  BY <1>12, LedgerConstants DEF ledgerVars, LedgerInv, LedgerTypeOK
<1>13. QED
  BY <1>1, <1>2, <1>3, <1>4, <1>5, <1>6, <1>7, <1>8, <1>9, <1>10, <1>11, <1>12 DEF LedgerNext

(* The request reaches the radio: what the command said of itself.         *)
LEMMA ReachesCounts ==
  ASSUME LedgerInv, command # NoCommand, command.at = "execute",
         NEW off \in BOOLEAN, Reaches(command.request, off)
  PROVE  /\ dispatched'[command.request] = 1
         /\ \A d \in Commands : d # command.request => dispatched'[d] = dispatched[d]
         /\ \A d \in Commands : SameToken(d, command.request) => dispatched[d] = 0
         /\ sawOff \subseteq sawOff' /\ (radioOff' => sawOff' = OperationIds)
<1>1. LedgerTypeOK /\ CommandIsTrue /\ OffIsSeen
  BY DEF LedgerInv
<1>2. command.request \in Commands /\ dispatched \in [Commands -> Nat]
  BY <1>1, CommandFields DEF LedgerTypeOK
<1>3. \A d \in Commands : SameToken(d, command.request) => dispatched[d] = 0
  BY <1>1 DEF CommandIsTrue
<1>4. dispatched[command.request] = 0
  BY <1>2, <1>3 DEF SameToken
<1>5. /\ dispatched'[command.request] = 1
      /\ \A d \in Commands : d # command.request => dispatched'[d] = dispatched[d]
  BY <1>2, <1>4 DEF Reaches
<1>6. sawOff \subseteq sawOff' /\ (radioOff' => sawOff' = OperationIds)
  BY <1>1 DEF Reaches, OffIsSeen, LedgerTypeOK
<1>7. QED
  BY <1>3, <1>5, <1>6

LEMMA ExecuteReaches ==
  ASSUME Execute
  PROVE  /\ command # NoCommand /\ command.at = "execute"
         /\ \/ UNCHANGED <<radioOff, dispatched, sawOff>>
            \/ \E off \in BOOLEAN : Reaches(command.request, off)
BY DEF Execute

LEMMA EntriesStayDistinct == LedgerInv /\ [LedgerNext]_ledgerVars => EntriesAreDistinct'
<1> SUFFICES ASSUME LedgerInv, [LedgerNext]_ledgerVars PROVE EntriesAreDistinct'
  OBVIOUS
<1>1. ASSUME \E c \in Commands : AnswerKnown(c) PROVE EntriesAreDistinct'
  BY <1>1 DEF AnswerKnown, NoCommand, ledgerVars, LedgerInv, EntriesAreDistinct
<1>2. ASSUME \E c \in Commands : Accept(c) PROVE EntriesAreDistinct'
  <2>0. LedgerTypeOK
    BY DEF LedgerInv
  <2>1. PICK c \in Commands : Accept(c)
    BY <1>2
  <2>2. PICK n \in Nat :
           /\ Len(ledger') \in Nat \ {0} /\ DOMAIN ledger' = 1 .. Len(ledger')
           /\ ledger'[Len(ledger')] = [request |-> c, state |-> "accepted", code |-> "accepted"]
           /\ \A i \in DOMAIN ledger' : i # Len(ledger') =>
                i + n \in DOMAIN ledger /\ ledger'[i] = ledger[i + n]
    BY <2>0, <2>1, AcceptAppends
  <2>3. \A i \in DOMAIN ledger : ledger[i].request.operation # c.operation
    BY <2>1, AcceptedIsNew
  <2>4. SUFFICES ASSUME NEW i \in DOMAIN ledger', NEW j \in DOMAIN ledger',
                        ledger'[i].request.operation = ledger'[j].request.operation
                 PROVE  i = j
    BY DEF EntriesAreDistinct
  <2>5. i = Len(ledger') <=> j = Len(ledger')
    BY <2>2, <2>3, <2>4
  <2>6. CASE i # Len(ledger') /\ j # Len(ledger')
    <3>1. i + n = j + n
      BY <2>2, <2>4, <2>6 DEF LedgerInv, EntriesAreDistinct
    <3>2. QED
      BY <2>2, <3>1
  <2>7. QED
    BY <2>5, <2>6
<1>3. ASSUME \E c \in Commands : RefuseCommand(c) PROVE EntriesAreDistinct'
  BY <1>3 DEF RefuseCommand, NoCommand, ledgerVars, LedgerInv, EntriesAreDistinct
<1>4. ASSUME CheckBefore PROVE EntriesAreDistinct'
  BY <1>4 DEF CheckBefore, NoCommand, Draft, LedgerInv, EntriesAreDistinct
<1>5. ASSUME Execute PROVE EntriesAreDistinct'
  BY <1>5 DEF Execute, NoCommand, Draft, Reaches, LedgerInv, EntriesAreDistinct
<1>6. ASSUME Persist PROVE EntriesAreDistinct'
  <2>0. LedgerTypeOK
    BY DEF LedgerInv
  <2>1. Completed(command.request.operation, Decided) /\ command # NoCommand
    BY <1>6 DEF Persist
  <2>2. DOMAIN ledger' = DOMAIN ledger
        /\ \A i \in DOMAIN ledger : ledger'[i].request = ledger[i].request
    BY <2>0, <2>1, CompletedDecides
  <2>3. QED
    BY <2>2 DEF LedgerInv, EntriesAreDistinct
<1>7. ASSUME WriteFails PROVE EntriesAreDistinct'
  BY <1>7 DEF WriteFails, NoCommand, LedgerInv, EntriesAreDistinct
<1>8. ASSUME Restart PROVE EntriesAreDistinct'
  BY <1>8 DEF Restart, NoCommand, LedgerInv, EntriesAreDistinct
<1>9. ASSUME \E i \in DOMAIN ledger : Reconcile(i) PROVE EntriesAreDistinct'
  <2>0. LedgerTypeOK
    BY DEF LedgerInv
  <2>1. \E o, outcome : Completed(o, outcome)
    BY <1>9 DEF Reconcile
  <2>2. DOMAIN ledger' = DOMAIN ledger
        /\ \A i \in DOMAIN ledger : ledger'[i].request = ledger[i].request
    BY <2>0, <2>1, CompletedDecides
  <2>3. QED
    BY <2>2 DEF LedgerInv, EntriesAreDistinct
<1>10. ASSUME HardwareChanges PROVE EntriesAreDistinct'
  BY <1>10 DEF HardwareChanges, LedgerInv, EntriesAreDistinct
<1>11. ASSUME RadioOn PROVE EntriesAreDistinct'
  BY <1>11 DEF RadioOn, LedgerInv, EntriesAreDistinct
<1>12. ASSUME UNCHANGED ledgerVars PROVE EntriesAreDistinct'
  BY <1>12 DEF ledgerVars, LedgerInv, EntriesAreDistinct
<1>13. QED
  BY <1>1, <1>2, <1>3, <1>4, <1>5, <1>6, <1>7, <1>8, <1>9, <1>10, <1>11, <1>12 DEF LedgerNext

LEMMA PendingStaysLast == LedgerInv /\ [LedgerNext]_ledgerVars => PendingIsLast'
<1> SUFFICES ASSUME LedgerInv, [LedgerNext]_ledgerVars PROVE PendingIsLast'
  OBVIOUS
<1>1. ASSUME \E c \in Commands : AnswerKnown(c) PROVE PendingIsLast'
  BY <1>1 DEF AnswerKnown, NoCommand, ledgerVars, LedgerInv, PendingIsLast
<1>2. ASSUME \E c \in Commands : Accept(c) PROVE PendingIsLast'
  <2>0. LedgerTypeOK
    BY DEF LedgerInv
  <2>1. PICK c \in Commands : Accept(c)
    BY <1>2
  <2>2. PICK n \in Nat :
           /\ Len(ledger') \in Nat \ {0} /\ DOMAIN ledger' = 1 .. Len(ledger')
           /\ ledger'[Len(ledger')] = [request |-> c, state |-> "accepted", code |-> "accepted"]
           /\ \A i \in DOMAIN ledger' : i # Len(ledger') =>
                i + n \in DOMAIN ledger /\ ledger'[i] = ledger[i + n]
    BY <2>0, <2>1, AcceptAppends
  <2>3. \A i \in DOMAIN ledger : ledger[i].state # "accepted"
    BY <2>1, AcceptedIsNew
  <2>4. \A i \in DOMAIN ledger' : ledger'[i].state = "accepted" => i = Len(ledger')
    BY <2>2, <2>3
  <2>5. ledger' # << >> /\ command'.request = c
    BY <2>1, <2>2 DEF Accept
  <2>6. QED
    BY <2>2, <2>4, <2>5 DEF PendingIsLast
<1>3. ASSUME \E c \in Commands : RefuseCommand(c) PROVE PendingIsLast'
  BY <1>3 DEF RefuseCommand, NoCommand, ledgerVars, LedgerInv, PendingIsLast
<1>4. ASSUME CheckBefore PROVE PendingIsLast'
  <2>1. UNCHANGED ledger /\ command # NoCommand /\ command'.request = command.request
    <3>1. LedgerTypeOK
      BY DEF LedgerInv
    <3>2. QED
      BY <1>4, <3>1 DEF CheckBefore, Draft, LedgerTypeOK
  <2>2. QED
    BY <2>1 DEF LedgerInv, PendingIsLast
<1>5. ASSUME Execute PROVE PendingIsLast'
  <2>1. UNCHANGED ledger /\ command # NoCommand /\ command'.request = command.request
    <3>1. LedgerTypeOK
      BY DEF LedgerInv
    <3>2. QED
      BY <1>5, <3>1 DEF Execute, Draft, LedgerTypeOK
  <2>2. QED
    BY <2>1 DEF LedgerInv, PendingIsLast
<1>6. ASSUME Persist PROVE PendingIsLast'
  <2>0. LedgerTypeOK
    BY DEF LedgerInv
  <2>1. Completed(command.request.operation, Decided) /\ command # NoCommand
    BY <1>6 DEF Persist
  <2>2. DOMAIN ledger' = DOMAIN ledger
        /\ \A i \in DOMAIN ledger : ledger'[i] = ledger[i] \/ ledger[i].state = "accepted"
    BY <2>0, <2>1, CompletedDecides
  <2>3. Len(ledger') = Len(ledger)
    <3>1. LedgerTypeOK'
      BY LedgerTyped
    <3>2. DOMAIN ledger' = 1 .. Len(ledger') /\ Len(ledger') \in Nat
      BY <3>1 DEF LedgerTypeOK
    <3>3. QED
      BY <2>0, <2>2, <3>2, LedgerIsSequence
  <2>4. command' = NoCommand
    BY <1>6 DEF Persist
  <2>5. QED
    BY <2>2, <2>3, <2>4 DEF LedgerInv, PendingIsLast
<1>7. ASSUME WriteFails PROVE PendingIsLast'
  BY <1>7 DEF WriteFails, NoCommand, LedgerInv, PendingIsLast
<1>8. ASSUME Restart PROVE PendingIsLast'
  BY <1>8 DEF Restart, NoCommand, LedgerInv, PendingIsLast
<1>9. ASSUME \E i \in DOMAIN ledger : Reconcile(i) PROVE PendingIsLast'
  <2>0. LedgerTypeOK
    BY DEF LedgerInv
  <2>1. \E o, outcome : Completed(o, outcome)
    BY <1>9 DEF Reconcile
  <2>2. DOMAIN ledger' = DOMAIN ledger
        /\ \A i \in DOMAIN ledger : ledger'[i] = ledger[i] \/ ledger[i].state = "accepted"
    BY <2>0, <2>1, CompletedDecides
  <2>3. Len(ledger') = Len(ledger)
    <3>1. LedgerTypeOK'
      BY LedgerTyped
    <3>2. DOMAIN ledger' = 1 .. Len(ledger') /\ Len(ledger') \in Nat
      BY <3>1 DEF LedgerTypeOK
    <3>3. QED
      BY <2>0, <2>2, <3>2, LedgerIsSequence
  <2>4. command' = NoCommand
    BY <1>9 DEF Reconcile
  <2>5. QED
    BY <2>2, <2>3, <2>4 DEF LedgerInv, PendingIsLast
<1>10. ASSUME HardwareChanges PROVE PendingIsLast'
  BY <1>10 DEF HardwareChanges, LedgerInv, PendingIsLast
<1>11. ASSUME RadioOn PROVE PendingIsLast'
  BY <1>11 DEF RadioOn, LedgerInv, PendingIsLast
<1>12. ASSUME UNCHANGED ledgerVars PROVE PendingIsLast'
  BY <1>12 DEF ledgerVars, LedgerInv, PendingIsLast
<1>13. QED
  BY <1>1, <1>2, <1>3, <1>4, <1>5, <1>6, <1>7, <1>8, <1>9, <1>10, <1>11, <1>12 DEF LedgerNext

LEMMA TokensStayUsed == LedgerInv /\ [LedgerNext]_ledgerVars => TokensAreUsed'
<1> SUFFICES ASSUME LedgerInv, [LedgerNext]_ledgerVars PROVE TokensAreUsed'
  OBVIOUS
<1>1. ASSUME \E c \in Commands : AnswerKnown(c) PROVE TokensAreUsed'
  BY <1>1 DEF AnswerKnown, NoCommand, ledgerVars, LedgerInv, TokensAreUsed, FenceSaw
<1>2. ASSUME \E c \in Commands : Accept(c) PROVE TokensAreUsed'
  <2>0. LedgerTypeOK
    BY DEF LedgerInv
  <2>1. PICK c \in Commands : Accept(c)
    BY <1>2
  <2>2. PICK n \in Nat :
           /\ ledger' \in Seq(Outcomes)
           /\ Len(ledger') \in Nat \ {0} /\ DOMAIN ledger' = 1 .. Len(ledger')
           /\ ledger'[Len(ledger')] = [request |-> c, state |-> "accepted", code |-> "accepted"]
           /\ \A i \in DOMAIN ledger' : i # Len(ledger') =>
                i + n \in DOMAIN ledger /\ ledger'[i] = ledger[i + n]
    BY <2>0, <2>1, AcceptAppends
  <2>3. /\ c.group \in DOMAIN fences' /\ fences'[c.group].token = c.token
        /\ \A d \in Commands : FenceSaw(d) => FenceSaw(d)'
    BY <2>1, AcceptedIsNew
  <2>4. FenceSaw(c)'
    BY <2>3, LedgerConstants DEF FenceSaw
  <2>5. ASSUME NEW i \in DOMAIN ledger' PROVE FenceSaw(ledger[i].request)'
    <3>1. CASE i = Len(ledger')
      BY <2>2, <2>4, <3>1
    <3>2. CASE i # Len(ledger')
      <4>1. i + n \in DOMAIN ledger /\ ledger'[i] = ledger[i + n]
        BY <2>2, <2>5, <3>2
      <4>2. ledger[i + n].request \in Commands /\ FenceSaw(ledger[i + n].request)
        BY <2>0, <4>1, LedgerIsSequence, OutcomeFields DEF LedgerInv, TokensAreUsed
      <4>3. PICK d \in Commands : d = ledger[i + n].request
        BY <4>2
      <4>4. FenceSaw(d)'
        BY <2>3, <4>2, <4>3
      <4>5. QED
        BY <4>1, <4>3, <4>4 DEF FenceSaw
    <3>3. QED
      BY <3>1, <3>2
  <2>6. \A d \in Commands : dispatched'[d] > 0 => FenceSaw(d)'
    BY <2>1, <2>3 DEF LedgerInv, TokensAreUsed, Accept
  <2>7. QED
    BY <2>5, <2>6 DEF TokensAreUsed
<1>3. ASSUME \E c \in Commands : RefuseCommand(c) PROVE TokensAreUsed'
  BY <1>3 DEF RefuseCommand, NoCommand, ledgerVars, LedgerInv, TokensAreUsed, FenceSaw
<1>4. ASSUME CheckBefore PROVE TokensAreUsed'
  BY <1>4 DEF CheckBefore, NoCommand, Draft, LedgerInv, TokensAreUsed, FenceSaw
<1>5. ASSUME Execute PROVE TokensAreUsed'
  <2>0. LedgerTypeOK /\ command # NoCommand /\ command.at = "execute"
    BY <1>5 DEF LedgerInv, Execute
  <2>1. UNCHANGED <<ledger, fences>>
    BY <1>5 DEF Execute
  <2>2. ASSUME NEW d \in Commands, dispatched'[d] > 0 PROVE FenceSaw(d)
    <3>1. CASE UNCHANGED dispatched
      BY <2>2, <3>1 DEF LedgerInv, TokensAreUsed
    <3>2. CASE \E off \in BOOLEAN : Reaches(command.request, off)
      <4>1. CASE d = command.request
        <5>1. ledger # << >> /\ ledger[Len(ledger)].request = command.request
          BY <2>0 DEF LedgerInv, PendingIsLast
        <5>2. Len(ledger) \in DOMAIN ledger
          BY <2>0, <5>1 DEF LedgerTypeOK
        <5>3. QED
          BY <4>1, <5>1, <5>2 DEF LedgerInv, TokensAreUsed
      <4>2. CASE d # command.request
        <5>1. dispatched'[d] = dispatched[d]
          BY <2>0, <3>2, <4>2, ReachesCounts
        <5>2. QED
          BY <2>2, <5>1 DEF LedgerInv, TokensAreUsed
      <4>3. QED
        BY <4>1, <4>2
    <3>3. QED
      BY <1>5, <3>1, <3>2, ExecuteReaches
  <2>3. QED
    BY <2>1, <2>2 DEF LedgerInv, TokensAreUsed, FenceSaw
<1>6. ASSUME Persist PROVE TokensAreUsed'
  <2>0. LedgerTypeOK
    BY DEF LedgerInv
  <2>1. Completed(command.request.operation, Decided) /\ command # NoCommand
    BY <1>6 DEF Persist
  <2>2. DOMAIN ledger' = DOMAIN ledger
        /\ \A i \in DOMAIN ledger : ledger'[i].request = ledger[i].request
    BY <2>0, <2>1, CompletedDecides
  <2>3. UNCHANGED <<fences, dispatched>>
    BY <1>6 DEF Persist
  <2>4. QED
    BY <2>2, <2>3 DEF LedgerInv, TokensAreUsed, FenceSaw
<1>7. ASSUME WriteFails PROVE TokensAreUsed'
  BY <1>7 DEF WriteFails, NoCommand, LedgerInv, TokensAreUsed, FenceSaw
<1>8. ASSUME Restart PROVE TokensAreUsed'
  BY <1>8 DEF Restart, NoCommand, LedgerInv, TokensAreUsed, FenceSaw
<1>9. ASSUME \E i \in DOMAIN ledger : Reconcile(i) PROVE TokensAreUsed'
  <2>0. LedgerTypeOK
    BY DEF LedgerInv
  <2>1. \E o, outcome : Completed(o, outcome)
    BY <1>9 DEF Reconcile
  <2>2. DOMAIN ledger' = DOMAIN ledger
        /\ \A i \in DOMAIN ledger : ledger'[i].request = ledger[i].request
    BY <2>0, <2>1, CompletedDecides
  <2>3. UNCHANGED <<fences, dispatched>>
    BY <1>9 DEF Reconcile
  <2>4. QED
    BY <2>2, <2>3 DEF LedgerInv, TokensAreUsed, FenceSaw
<1>10. ASSUME HardwareChanges PROVE TokensAreUsed'
  BY <1>10 DEF HardwareChanges, LedgerInv, TokensAreUsed, FenceSaw
<1>11. ASSUME RadioOn PROVE TokensAreUsed'
  BY <1>11 DEF RadioOn, LedgerInv, TokensAreUsed, FenceSaw
<1>12. ASSUME UNCHANGED ledgerVars PROVE TokensAreUsed'
  BY <1>12 DEF ledgerVars, LedgerInv, TokensAreUsed, FenceSaw
<1>13. QED
  BY <1>1, <1>2, <1>3, <1>4, <1>5, <1>6, <1>7, <1>8, <1>9, <1>10, <1>11, <1>12 DEF LedgerNext

LEMMA OffStaysSeen == LedgerInv /\ [LedgerNext]_ledgerVars => OffIsSeen'
<1> SUFFICES ASSUME LedgerInv, [LedgerNext]_ledgerVars PROVE OffIsSeen'
  OBVIOUS
<1>1. ASSUME \E c \in Commands : AnswerKnown(c) PROVE OffIsSeen'
  BY <1>1 DEF AnswerKnown, NoCommand, ledgerVars, LedgerInv, OffIsSeen, LedgerTypeOK,
         OperationIds
<1>2. ASSUME \E c \in Commands : Accept(c) PROVE OffIsSeen'
  BY <1>2 DEF Accept, NoCommand, LedgerInv, OffIsSeen, LedgerTypeOK, OperationIds
<1>3. ASSUME \E c \in Commands : RefuseCommand(c) PROVE OffIsSeen'
  BY <1>3 DEF RefuseCommand, NoCommand, ledgerVars, LedgerInv, OffIsSeen, LedgerTypeOK,
         OperationIds
<1>4. ASSUME CheckBefore PROVE OffIsSeen'
  BY <1>4 DEF CheckBefore, NoCommand, Draft, LedgerInv, OffIsSeen, LedgerTypeOK, OperationIds
<1>5. ASSUME Execute PROVE OffIsSeen'
  <2>1. CASE UNCHANGED <<radioOff, dispatched, sawOff>>
    BY <2>1 DEF LedgerInv, OffIsSeen
  <2>2. CASE \E off \in BOOLEAN : Reaches(command.request, off)
    <3>1. command # NoCommand /\ command.at = "execute"
      BY <1>5 DEF Execute
    <3>2. QED
      BY <2>2, <3>1, ReachesCounts DEF OffIsSeen
  <2>3. QED
    BY <1>5, <2>1, <2>2, ExecuteReaches
<1>6. ASSUME Persist PROVE OffIsSeen'
  BY <1>6 DEF Persist, NoCommand, LedgerInv, OffIsSeen, LedgerTypeOK, OperationIds
<1>7. ASSUME WriteFails PROVE OffIsSeen'
  BY <1>7 DEF WriteFails, NoCommand, LedgerInv, OffIsSeen, LedgerTypeOK, OperationIds
<1>8. ASSUME Restart PROVE OffIsSeen'
  BY <1>8 DEF Restart, NoCommand, LedgerInv, OffIsSeen, LedgerTypeOK, OperationIds
<1>9. ASSUME \E i \in DOMAIN ledger : Reconcile(i) PROVE OffIsSeen'
  BY <1>9 DEF Reconcile, NoCommand, LedgerInv, OffIsSeen, LedgerTypeOK, OperationIds
<1>10. ASSUME HardwareChanges PROVE OffIsSeen'
  BY <1>10 DEF HardwareChanges, LedgerInv, OffIsSeen, LedgerTypeOK, OperationIds
<1>11. ASSUME RadioOn PROVE OffIsSeen'
  BY <1>11 DEF RadioOn, LedgerInv, OffIsSeen, LedgerTypeOK, OperationIds
<1>12. ASSUME UNCHANGED ledgerVars PROVE OffIsSeen'
  BY <1>12 DEF ledgerVars, LedgerInv, OffIsSeen, LedgerTypeOK, OperationIds
<1>13. QED
  BY <1>1, <1>2, <1>3, <1>4, <1>5, <1>6, <1>7, <1>8, <1>9, <1>10, <1>11, <1>12 DEF LedgerNext

LEMMA DispatchedStaysOnce == LedgerInv /\ [LedgerNext]_ledgerVars => DispatchedOnce'
<1> SUFFICES ASSUME LedgerInv, [LedgerNext]_ledgerVars PROVE DispatchedOnce'
  OBVIOUS
<1>1. ASSUME \E c \in Commands : AnswerKnown(c) PROVE DispatchedOnce'
  BY <1>1 DEF AnswerKnown, NoCommand, ledgerVars, LedgerInv, DispatchedOnce
<1>2. ASSUME \E c \in Commands : Accept(c) PROVE DispatchedOnce'
  BY <1>2 DEF Accept, NoCommand, LedgerInv, DispatchedOnce
<1>3. ASSUME \E c \in Commands : RefuseCommand(c) PROVE DispatchedOnce'
  BY <1>3 DEF RefuseCommand, NoCommand, ledgerVars, LedgerInv, DispatchedOnce
<1>4. ASSUME CheckBefore PROVE DispatchedOnce'
  BY <1>4 DEF CheckBefore, NoCommand, Draft, LedgerInv, DispatchedOnce
<1>5. ASSUME Execute PROVE DispatchedOnce'
  <2>0. LedgerTypeOK /\ command # NoCommand /\ command.at = "execute"
    BY <1>5 DEF LedgerInv, Execute
  <2>1. CASE UNCHANGED <<radioOff, dispatched, sawOff>>
    BY <2>1 DEF LedgerInv, DispatchedOnce
  <2>2. CASE \E off \in BOOLEAN : Reaches(command.request, off)
    <3>1. /\ dispatched'[command.request] = 1
          /\ \A d \in Commands : d # command.request => dispatched'[d] = dispatched[d]
          /\ \A d \in Commands : SameToken(d, command.request) => dispatched[d] = 0
      BY <2>0, <2>2, ReachesCounts
    <3>2. QED
      BY <3>1 DEF LedgerInv, DispatchedOnce, SameToken
  <2>3. QED
    BY <1>5, <2>1, <2>2, ExecuteReaches
<1>6. ASSUME Persist PROVE DispatchedOnce'
  BY <1>6 DEF Persist, NoCommand, LedgerInv, DispatchedOnce
<1>7. ASSUME WriteFails PROVE DispatchedOnce'
  BY <1>7 DEF WriteFails, NoCommand, LedgerInv, DispatchedOnce
<1>8. ASSUME Restart PROVE DispatchedOnce'
  BY <1>8 DEF Restart, NoCommand, LedgerInv, DispatchedOnce
<1>9. ASSUME \E i \in DOMAIN ledger : Reconcile(i) PROVE DispatchedOnce'
  BY <1>9 DEF Reconcile, NoCommand, LedgerInv, DispatchedOnce
<1>10. ASSUME HardwareChanges PROVE DispatchedOnce'
  BY <1>10 DEF HardwareChanges, LedgerInv, DispatchedOnce
<1>11. ASSUME RadioOn PROVE DispatchedOnce'
  BY <1>11 DEF RadioOn, LedgerInv, DispatchedOnce
<1>12. ASSUME UNCHANGED ledgerVars PROVE DispatchedOnce'
  BY <1>12 DEF ledgerVars, LedgerInv, DispatchedOnce
<1>13. QED
  BY <1>1, <1>2, <1>3, <1>4, <1>5, <1>6, <1>7, <1>8, <1>9, <1>10, <1>11, <1>12 DEF LedgerNext

LEMMA CommandStaysTrue == LedgerInv /\ [LedgerNext]_ledgerVars => CommandIsTrue'
<1> SUFFICES ASSUME LedgerInv, [LedgerNext]_ledgerVars PROVE CommandIsTrue'
  OBVIOUS
<1>1. ASSUME \E c \in Commands : AnswerKnown(c) PROVE CommandIsTrue'
  BY <1>1 DEF AnswerKnown, NoCommand, ledgerVars, LedgerInv, CommandIsTrue
<1>2. ASSUME \E c \in Commands : Accept(c) PROVE CommandIsTrue'
  <2>0. LedgerTypeOK
    BY DEF LedgerInv
  <2>1. PICK c \in Commands : Accept(c)
    BY <1>2
  <2>2. \A d \in Commands : SameToken(d, c) => dispatched[d] = 0
    BY <2>1, AcceptedIsNew
  <2>3. /\ command' # NoCommand /\ command'.request = c /\ command'.at = "accepted"
        /\ ~command'.dispatched /\ UNCHANGED dispatched
    BY <2>1 DEF Accept, NoCommand
  <2>4. QED
    BY <2>2, <2>3 DEF CommandIsTrue
<1>3. ASSUME \E c \in Commands : RefuseCommand(c) PROVE CommandIsTrue'
  BY <1>3 DEF RefuseCommand, NoCommand, ledgerVars, LedgerInv, CommandIsTrue
<1>4. ASSUME CheckBefore PROVE CommandIsTrue'
  <2>0. LedgerTypeOK /\ command # NoCommand
    BY <1>4 DEF LedgerInv, CheckBefore
  <2>1. /\ command'.request = command.request /\ command'.state = "failed"
        /\ ~command'.dispatched /\ ~command.dispatched /\ UNCHANGED dispatched
    <3>1. ~command.dispatched
      BY <1>4 DEF LedgerInv, CommandIsTrue, CheckBefore
    <3>2. QED
      <4>1. \E step \in {"execute", "executed"}, code \in Codes :
              Draft(step, FALSE, "failed", code)
        BY <1>4 DEF CheckBefore, Codes
      <4>2. "failed" \in Terminal /\ UNCHANGED dispatched
        BY <1>4 DEF CheckBefore, Terminal
      <4>3. QED
        BY <2>0, <3>1, <4>1, <4>2, DraftIsTyped
  <2>2. QED
    BY <2>0, <2>1 DEF LedgerInv, CommandIsTrue
<1>5. ASSUME Execute PROVE CommandIsTrue'
  <2>0. LedgerTypeOK /\ command # NoCommand /\ command.at = "execute"
    BY <1>5 DEF LedgerInv, Execute
  <2>1. ~command.dispatched /\ command.request \in Commands
        /\ command.request.operation \in OperationIds
    BY <2>0, CommandFields DEF LedgerInv, CommandIsTrue
  <2>2. command'.at = "executed" /\ command'.request = command.request
    BY <1>5, <2>0 DEF Execute, Draft, LedgerTypeOK
  <2>3. CASE /\ UNCHANGED <<radioOff, dispatched, sawOff>>
             /\ ~command'.dispatched /\ (command'.state = "succeeded" => radioOff)
    <3>1. command'.state = "succeeded" => command.request.operation \in sawOff'
      BY <2>1, <2>3 DEF LedgerInv, OffIsSeen
    <3>2. \A d \in Commands : SameToken(d, command.request) => dispatched'[d] = 0
      BY <2>0, <2>1, <2>3 DEF LedgerInv, CommandIsTrue
    <3>3. QED
      BY <2>2, <2>3, <3>1, <3>2 DEF CommandIsTrue
  <2>4. CASE /\ \E off \in BOOLEAN : Reaches(command.request, off)
             /\ command'.dispatched /\ (command'.state = "succeeded" => radioOff')
             /\ command'.state = "failed" => command'.code # "hardware_changed"
    <3>1. radioOff' => sawOff' = OperationIds
      BY <2>0, <2>4, ReachesCounts
    <3>2. QED
      BY <2>1, <2>2, <2>4, <3>1 DEF CommandIsTrue
  <2>5. \A step, state, code :
          /\ Draft(step, TRUE, state, code) =>
               command'.dispatched /\ command'.state = state /\ command'.code = code
          /\ Draft(step, FALSE, state, code) =>
               ~command'.dispatched /\ command'.state = state /\ command'.code = code
    BY <2>0 DEF Draft, LedgerTypeOK
  <2>6. CASE \E off \in BOOLEAN :
               /\ Reaches(command.request, off)
               /\ \/ radioOff' /\ Draft("executed", TRUE, "succeeded", "confirmed")
                  \/ ~radioOff' /\ Draft("executed", TRUE, "failed", "not_confirmed")
                  \/ Draft("executed", TRUE, "uncertain", "error")
    <3>1. /\ \E off \in BOOLEAN : Reaches(command.request, off)
          /\ \/ radioOff' /\ Draft("executed", TRUE, "succeeded", "confirmed")
             \/ ~radioOff' /\ Draft("executed", TRUE, "failed", "not_confirmed")
             \/ Draft("executed", TRUE, "uncertain", "error")
      BY <2>6
    <3>2. /\ command'.dispatched /\ (command'.state = "succeeded" => radioOff')
          /\ command'.state = "failed" => command'.code # "hardware_changed"
      <4>1. CASE radioOff' /\ Draft("executed", TRUE, "succeeded", "confirmed")
        <5>1. command'.dispatched /\ command'.state = "succeeded"
          BY <2>5, <4>1
        <5>2. QED
          BY <4>1, <5>1
      <4>2. CASE Draft("executed", TRUE, "failed", "not_confirmed")
        <5>1. /\ command'.dispatched /\ command'.state = "failed"
              /\ command'.code = "not_confirmed"
          BY <2>5, <4>2
        <5>2. QED
          BY <5>1
      <4>3. CASE Draft("executed", TRUE, "uncertain", "error")
        <5>1. command'.dispatched /\ command'.state = "uncertain"
          BY <2>5, <4>3
        <5>2. QED
          BY <5>1
      <4>4. QED
        BY <3>1, <4>1, <4>2, <4>3
    <3>3. QED
      BY <2>4, <3>1, <3>2
  <2>7. CASE /\ UNCHANGED <<radioOff, dispatched, sawOff>>
             /\ \/ Draft("executed", FALSE, "failed", "hardware_changed")
                \/ Draft("executed", FALSE, "failed", "error")
                \/ radioOff /\ Draft("executed", FALSE, "succeeded", "confirmed")
    BY <2>3, <2>5, <2>7
  <2>8. QED
    BY <1>5, <2>6, <2>7 DEF Execute
<1>6. ASSUME Persist PROVE CommandIsTrue'
  <2>1. command' = NoCommand
    BY <1>6 DEF Persist
  <2>2. QED
    BY <2>1 DEF CommandIsTrue
<1>7. ASSUME WriteFails PROVE CommandIsTrue'
  BY <1>7 DEF WriteFails, NoCommand, LedgerInv, CommandIsTrue
<1>8. ASSUME Restart PROVE CommandIsTrue'
  BY <1>8 DEF Restart, NoCommand, LedgerInv, CommandIsTrue
<1>9. ASSUME \E i \in DOMAIN ledger : Reconcile(i) PROVE CommandIsTrue'
  <2>1. command' = NoCommand
    BY <1>9 DEF Reconcile
  <2>2. QED
    BY <2>1 DEF CommandIsTrue
<1>10. ASSUME HardwareChanges PROVE CommandIsTrue'
  BY <1>10 DEF HardwareChanges, LedgerInv, CommandIsTrue
<1>11. ASSUME RadioOn PROVE CommandIsTrue'
  BY <1>11 DEF RadioOn, LedgerInv, CommandIsTrue
<1>12. ASSUME UNCHANGED ledgerVars PROVE CommandIsTrue'
  BY <1>12 DEF ledgerVars, LedgerInv, CommandIsTrue
<1>13. QED
  BY <1>1, <1>2, <1>3, <1>4, <1>5, <1>6, <1>7, <1>8, <1>9, <1>10, <1>11, <1>12 DEF LedgerNext

LEMMA OutcomesStayTrue == LedgerInv /\ [LedgerNext]_ledgerVars => OutcomesAreTrue'
<1> SUFFICES ASSUME LedgerInv, [LedgerNext]_ledgerVars PROVE OutcomesAreTrue'
  OBVIOUS
<1>1. ASSUME \E c \in Commands : AnswerKnown(c) PROVE OutcomesAreTrue'
  BY <1>1 DEF AnswerKnown, NoCommand, ledgerVars, LedgerInv, OutcomesAreTrue
<1>2. ASSUME \E c \in Commands : Accept(c) PROVE OutcomesAreTrue'
  <2>0. LedgerTypeOK
    BY DEF LedgerInv
  <2>1. PICK c \in Commands : Accept(c)
    BY <1>2
  <2>2. PICK n \in Nat :
           /\ ledger'[Len(ledger')] = [request |-> c, state |-> "accepted", code |-> "accepted"]
           /\ \A i \in DOMAIN ledger' : i # Len(ledger') =>
                i + n \in DOMAIN ledger /\ ledger'[i] = ledger[i + n]
    BY <2>0, <2>1, AcceptAppends
  <2>3. \A i \in DOMAIN ledger : ledger[i].request.operation # c.operation
    BY <2>1, AcceptedIsNew
  <2>4. /\ \A o : o \in sawOff /\ o # c.operation => o \in sawOff'
        /\ UNCHANGED dispatched
    BY <2>1 DEF Accept
  <2>5. QED
    BY <2>2, <2>3, <2>4 DEF LedgerInv, OutcomesAreTrue
<1>3. ASSUME \E c \in Commands : RefuseCommand(c) PROVE OutcomesAreTrue'
  BY <1>3 DEF RefuseCommand, NoCommand, ledgerVars, LedgerInv, OutcomesAreTrue
<1>4. ASSUME CheckBefore PROVE OutcomesAreTrue'
  BY <1>4 DEF CheckBefore, NoCommand, Draft, LedgerInv, OutcomesAreTrue
<1>5. ASSUME Execute PROVE OutcomesAreTrue'
  <2>0. LedgerTypeOK /\ command # NoCommand /\ command.at = "execute" /\ UNCHANGED ledger
    BY <1>5 DEF LedgerInv, Execute
  <2>1. CASE UNCHANGED <<radioOff, dispatched, sawOff>>
    BY <2>0, <2>1 DEF LedgerInv, OutcomesAreTrue
  <2>2. CASE \E off \in BOOLEAN : Reaches(command.request, off)
    <3>1. /\ sawOff \subseteq sawOff'
          /\ \A d \in Commands : d # command.request => dispatched'[d] = dispatched[d]
      BY <2>0, <2>2, ReachesCounts
    <3>2. ASSUME NEW i \in DOMAIN ledger, ledger[i].state # "accepted"
          PROVE  ledger[i].request # command.request /\ ledger[i].request \in Commands
      <4>1. Len(ledger) \in DOMAIN ledger /\ ledger[Len(ledger)].state = "accepted"
            /\ ledger[Len(ledger)].request = command.request
        BY <2>0 DEF LedgerInv, PendingIsLast, LedgerTypeOK
      <4>2. QED
        BY <2>0, <3>2, <4>1, LedgerIsSequence, OutcomeFields DEF LedgerInv, EntriesAreDistinct
    <3>3. QED
      BY <2>0, <3>1, <3>2 DEF LedgerInv, OutcomesAreTrue
  <2>3. QED
    BY <1>5, <2>1, <2>2, ExecuteReaches
<1>6. ASSUME Persist PROVE OutcomesAreTrue'
  <2>0. LedgerTypeOK
    BY DEF LedgerInv
  <2>1. Completed(command.request.operation, Decided) /\ command # NoCommand
    BY <1>6 DEF Persist
  <2>2. /\ Decided.state = "succeeded" => command.request.operation \in sawOff
        /\ Decided.state = "failed" /\ Decided.code = "hardware_changed" =>
             dispatched[command.request] = 0
    <3>1. command.request \in Commands /\ command.at = "executed"
          /\ command.dispatched \in BOOLEAN
      BY <1>6, <2>0, <2>1, CommandFields DEF Persist
    <3>2. ~command.dispatched => dispatched[command.request] = 0
      BY <2>1, <3>1 DEF LedgerInv, CommandIsTrue, SameToken
    <3>3. QED
      BY <2>1, <3>1, <3>2 DEF LedgerInv, CommandIsTrue, Decided
  <2>3. ASSUME NEW i \in DOMAIN ledger, ledger[i].state = "accepted"
        PROVE  ledger[i].request = command.request
    BY <2>1, <2>3 DEF LedgerInv, PendingIsLast
  <2>4. UNCHANGED <<dispatched, sawOff>>
    BY <1>6 DEF Persist
  <2>5. /\ DOMAIN ledger' = DOMAIN ledger
        /\ \A i \in DOMAIN ledger :
             /\ ledger'[i].request = ledger[i].request
             /\ \/ ledger'[i] = ledger[i]
                \/ /\ ledger[i].state = "accepted" /\ ledger'[i].state = Decided.state
                   /\ ledger'[i].code = Decided.code
    <3>1. PICK outcome : outcome = Decided
      OBVIOUS
    <3>2. PICK o : o = command.request.operation
      OBVIOUS
    <3>3. Completed(o, outcome)
      BY <2>1, <3>1, <3>2
    <3>4. /\ DOMAIN ledger' = DOMAIN ledger
          /\ \A i \in DOMAIN ledger :
               /\ ledger'[i].request = ledger[i].request
               /\ \/ ledger'[i] = ledger[i]
                  \/ /\ ledger[i].state = "accepted" /\ ledger'[i].state = outcome.state
                     /\ ledger'[i].code = outcome.code
      BY <2>0, <3>3, CompletedDecides, ZenonT(60)
    <3>5. QED
      BY <3>1, <3>4
  <2>6. QED
    BY <2>2, <2>3, <2>4, <2>5 DEF LedgerInv, OutcomesAreTrue
<1>7. ASSUME WriteFails PROVE OutcomesAreTrue'
  BY <1>7 DEF WriteFails, NoCommand, LedgerInv, OutcomesAreTrue
<1>8. ASSUME Restart PROVE OutcomesAreTrue'
  BY <1>8 DEF Restart, NoCommand, LedgerInv, OutcomesAreTrue
<1>9. ASSUME \E i \in DOMAIN ledger : Reconcile(i) PROVE OutcomesAreTrue'
  <2>0. LedgerTypeOK
    BY DEF LedgerInv
  <2>1. PICK o, outcome :
          /\ Completed(o, outcome) /\ outcome.state # "failed"
          /\ outcome.state = "succeeded" => radioOff
    BY <1>9 DEF Reconcile
  <2>2. /\ DOMAIN ledger' = DOMAIN ledger
        /\ \A i \in DOMAIN ledger :
             /\ ledger'[i].request = ledger[i].request
             /\ \/ ledger'[i] = ledger[i]
                \/ ledger'[i].state = outcome.state
    BY <2>0, <2>1, CompletedDecides
  <2>3. radioOff => \A i \in DOMAIN ledger : ledger[i].request.operation \in sawOff
    BY <2>0, LedgerIsSequence, OutcomeFields DEF LedgerInv, OffIsSeen
  <2>4. UNCHANGED <<dispatched, sawOff>>
    BY <1>9 DEF Reconcile
  <2>5. QED
    BY <2>1, <2>2, <2>3, <2>4 DEF LedgerInv, OutcomesAreTrue
<1>10. ASSUME HardwareChanges PROVE OutcomesAreTrue'
  BY <1>10 DEF HardwareChanges, LedgerInv, OutcomesAreTrue
<1>11. ASSUME RadioOn PROVE OutcomesAreTrue'
  BY <1>11 DEF RadioOn, LedgerInv, OutcomesAreTrue
<1>12. ASSUME UNCHANGED ledgerVars PROVE OutcomesAreTrue'
  BY <1>12 DEF ledgerVars, LedgerInv, OutcomesAreTrue
<1>13. QED
  BY <1>1, <1>2, <1>3, <1>4, <1>5, <1>6, <1>7, <1>8, <1>9, <1>10, <1>11, <1>12 DEF LedgerNext

LEMMA LedgerInvIsSafe == LedgerInv => LedgerIsSafe
<1> SUFFICES ASSUME LedgerInv PROVE LedgerIsSafe
  OBVIOUS
<1>1. LedgerTypeOK /\ DispatchedOnce /\ OutcomesAreTrue
  BY DEF LedgerInv
<1>2. Accepted \subseteq {Len(ledger)}
  BY DEF LedgerInv, PendingIsLast, Accepted
<1>3. Cardinality(Accepted) <= 1
  <2>1. Cardinality({Len(ledger)}) = 1 /\ IsFiniteSet({Len(ledger)})
    BY FS_Singleton
  <2>2. QED
    BY <1>2, <2>1, FS_Subset
<1>4. ASSUME command # NoCommand
      PROVE  \E i \in Accepted : ledger[i].request = command.request
  BY <1>1, <1>4 DEF LedgerInv, PendingIsLast, Accepted, LedgerTypeOK
<1>5. QED
  BY <1>1, <1>3, <1>4 DEF LedgerIsSafe, OnePending

(* A radio command reaches the radio once, one outcome is pending at most, *)
(* and what is recorded of a command is so, for any requests, limits,      *)
(* restarts and hardware changes.                                          *)
THEOREM LedgerHolds == LedgerSpec => []LedgerIsSafe
<1>1. LedgerInit => LedgerInv
  <2> SUFFICES ASSUME LedgerInit PROVE LedgerInv
    OBVIOUS
  <2>1. LedgerTypeOK
    <3>1. ledger \in Seq(Outcomes) /\ DOMAIN fences = {}
      BY DEF LedgerInit
    <3>2. observed \in Snapshots
      BY LedgerConstants DEF LedgerInit, Snapshots
    <3>3. QED
      BY <3>1, <3>2 DEF LedgerInit, LedgerTypeOK
  <2>2. QED
    BY <2>1 DEF LedgerInit, LedgerInv, EntriesAreDistinct, PendingIsLast, TokensAreUsed,
       OffIsSeen, CommandIsTrue, DispatchedOnce, OutcomesAreTrue
<1>2. LedgerInv /\ [LedgerNext]_ledgerVars => LedgerInv'
  BY LedgerTyped, EntriesStayDistinct, PendingStaysLast, TokensStayUsed, OffStaysSeen,
     DispatchedStaysOnce, CommandStaysTrue, OutcomesStayTrue DEF LedgerInv
<1>3. QED
  BY <1>1, <1>2, LedgerInvIsSafe, PTL DEF LedgerSpec

-----------------------------------------------------------------------------
(* Leases.                                                                 *)

(* A group's leases that can be held together.                             *)
Fit(ls) == /\ OfKind(ls, "operation") = {} \/ OfKind(ls, "call") = {}
           /\ Cardinality(OfKind(ls, "operation")) <= MaxConcurrent
           /\ Cardinality(OfKind(ls, "call")) <= MaxCalls

TokensAreBelow ==
  \A h \in DOMAIN grants : grants[h].token <= leaseFences[GroupOf[h]].token

(* The inductive invariant behind LeasesAreSafe.                           *)
LeaseInv == /\ LeaseTypeOK /\ IsFiniteSet(leases)
            /\ HeldTogether /\ TokensFence /\ TokensAreBelow

LEMMA LeaseConstants ==
  /\ \A h \in Holders : KindOf[h] \in {"operation", "call"}
  /\ MaxConcurrent \in Nat \ {0} /\ MaxCalls \in Nat /\ MaxGeneration \in Nat
  /\ MaxTime \in Nat
BY LeaseAssumption DEF LeaseAssumption

LEMMA HeldFits ==
  HeldTogether <=> \A g \in LeaseGroups : Fit(InGroup(Unexpired, g))
BY DEF HeldTogether, Fit

(* Fewer leases fit where more did.                                        *)
LEMMA FewerFit ==
  ASSUME NEW S, IsFiniteSet(S), NEW T \in SUBSET S, Fit(S)
  PROVE  Fit(T)
<1>1. ASSUME NEW k
      PROVE  /\ OfKind(T, k) \subseteq OfKind(S, k)
             /\ IsFiniteSet(OfKind(T, k)) /\ Cardinality(OfKind(T, k)) \in Nat
             /\ Cardinality(OfKind(S, k)) \in Nat
             /\ Cardinality(OfKind(T, k)) <= Cardinality(OfKind(S, k))
  <2>1. OfKind(T, k) \subseteq OfKind(S, k) /\ OfKind(S, k) \subseteq S
    BY DEF OfKind
  <2>2. IsFiniteSet(OfKind(S, k))
    BY <2>1, FS_Subset
  <2>3. QED
    BY <2>1, <2>2, FS_Subset, FS_CardinalityType
<1>2. QED
  BY <1>1, LeaseConstants DEF Fit

LEMMA FewerAreHeld ==
  ASSUME LeaseInv, NEW T, T \subseteq Unexpired, NEW g \in LeaseGroups
  PROVE  Fit(InGroup(T, g))
<1>1. InGroup(T, g) \subseteq InGroup(Unexpired, g)
  BY DEF InGroup
<1>2. IsFiniteSet(InGroup(Unexpired, g))
  <2>1. InGroup(Unexpired, g) \subseteq leases
    BY DEF InGroup, Unexpired
  <2>2. QED
    BY <2>1, FS_Subset DEF LeaseInv
<1>3. QED
  BY <1>1, <1>2, HeldFits, FewerFit DEF LeaseInv

LEMMA OneMore ==
  ASSUME NEW K, IsFiniteSet(K), NEW l
  PROVE  /\ IsFiniteSet(K \cup {l})
         /\ Cardinality(K) \in Nat /\ Cardinality(K \cup {l}) \in Nat
         /\ Cardinality(K \cup {l}) <= Cardinality(K) + 1
<1>1. Cardinality(K) \in Nat
  BY FS_CardinalityType
<1>2. /\ IsFiniteSet(K \cup {l})
      /\ Cardinality(K \cup {l}) = IF l \in K THEN Cardinality(K) ELSE Cardinality(K) + 1
  BY FS_AddElement
<1>3. QED
  BY <1>1, <1>2

(* Room for one more.                                                      *)
LEMMA OneMoreFits ==
  ASSUME NEW S, IsFiniteSet(S), NEW h \in Holders, Room(h, S),
         NEW l, l.holder = h
  PROVE  Fit(S \cup {l})
<1> DEFINE k == KindOf[h]
<1>1. k \in {"operation", "call"}
  BY LeaseConstants
<1>2. OfKind(S \cup {l}, k) = OfKind(S, k) \cup {l}
  BY DEF OfKind
<1>3. \A j : j # k => OfKind(S \cup {l}, j) = OfKind(S, j)
  BY DEF OfKind
<1>4. /\ Cardinality(OfKind(S, k)) \in Nat /\ Cardinality(OfKind(S \cup {l}, k)) \in Nat
      /\ Cardinality(OfKind(S \cup {l}, k)) <= Cardinality(OfKind(S, k)) + 1
  <2>1. OfKind(S, k) \subseteq S
    BY DEF OfKind
  <2>2. IsFiniteSet(OfKind(S, k))
    BY <2>1, FS_Subset
  <2>3. QED
    BY <1>2, <2>2, OneMore
<1>5. Cardinality({}) = 0
  BY FS_EmptySet
<1>6. CASE k = "operation"
  <2>1. OfKind(S \cup {l}, "call") = {}
    BY <1>3, <1>6 DEF Room
  <2>2. Cardinality(OfKind(S \cup {l}, "operation")) <= MaxConcurrent
    BY <1>4, <1>6, LeaseConstants DEF Room
  <2>3. QED
    BY <1>5, <2>1, <2>2, LeaseConstants DEF Fit
<1>7. CASE k = "call"
  <2>1. OfKind(S \cup {l}, "operation") = {}
    BY <1>3, <1>7 DEF Room
  <2>2. Cardinality(OfKind(S \cup {l}, "call")) <= MaxCalls
    BY <1>4, <1>7, LeaseConstants DEF Room
  <2>3. QED
    BY <1>5, <2>1, <2>2, LeaseConstants DEF Fit
<1>8. QED
  BY <1>1, <1>6, <1>7

(* A renewed lease takes its own place.                                    *)
LEMMA RenewedFits ==
  ASSUME NEW S, IsFiniteSet(S), Fit(S), NEW l \in S, NEW m, m.holder = l.holder
  PROVE  Fit((S \ {l}) \cup {m})
<1> DEFINE T == (S \ {l}) \cup {m}
<1>1. ASSUME NEW k
      PROVE  /\ OfKind(S, k) = {} => OfKind(T, k) = {}
             /\ Cardinality(OfKind(T, k)) \in Nat /\ Cardinality(OfKind(S, k)) \in Nat
             /\ Cardinality(OfKind(T, k)) <= Cardinality(OfKind(S, k))
  <2>1. OfKind(S, k) \subseteq S
    BY DEF OfKind
  <2>2. IsFiniteSet(OfKind(S, k))
    BY <2>1, FS_Subset
  <2>3. CASE KindOf[l.holder] # k
    <3>1. OfKind(T, k) = OfKind(S, k)
      BY <2>3 DEF OfKind
    <3>2. QED
      BY <2>2, <3>1, FS_CardinalityType
  <2>4. CASE KindOf[l.holder] = k
    <3> DEFINE R == OfKind(S, k) \ {l}
    <3>1. OfKind(T, k) = R \cup {m} /\ l \in OfKind(S, k)
      BY <2>4 DEF OfKind
    <3>2. IsFiniteSet(R) /\ Cardinality(R) = Cardinality(OfKind(S, k)) - 1
      BY <2>2, <3>1, FS_RemoveElement
    <3>3. /\ Cardinality(R) \in Nat /\ Cardinality(OfKind(S, k)) \in Nat
          /\ Cardinality(R \cup {m}) \in Nat
          /\ Cardinality(R \cup {m}) <= Cardinality(R) + 1
      <4> HIDE DEF R
      <4>1. QED
        BY <2>2, <3>2, OneMore, FS_CardinalityType
    <3>4. QED
      BY <3>1, <3>2, <3>3
  <2>5. QED
    BY <2>3, <2>4
<1> HIDE DEF T
<1>2. Fit(T)
  BY <1>1, LeaseConstants DEF Fit
<1>3. QED
  BY <1>2 DEF T

-----------------------------------------------------------------------------

LEMMA AcquireKeeps ==
  ASSUME LeaseInv, NEW h \in Holders, NEW n \in Generations, NEW s \in 1 .. 2,
         AcquireLease(h, n, s)
  PROVE  LeaseInv'
<1> DEFINE g == GroupOf[h]
           left == Survivors(g, n)
           fence == leaseFences[g].token + 1
           new == [holder |-> h, generation |-> n, token |-> fence, expires |-> clock + s]
<1>1. LeaseTypeOK /\ TokensFence /\ TokensAreBelow /\ IsFiniteSet(leases)
  BY DEF LeaseInv
<1>2. /\ h \notin DOMAIN grants /\ n >= leaseFences[g].generation
      /\ Room(h, InGroup(left, g))
      /\ leaseFences' = [leaseFences EXCEPT ![g] = [generation |-> n, token |-> fence]]
      /\ leases' = left \cup {new} /\ UNCHANGED clock
      /\ DOMAIN grants' = DOMAIN grants \cup {h}
      /\ grants'[h] = [generation |-> n, token |-> fence]
      /\ \A x \in DOMAIN grants : grants'[x] = grants[x]
  BY DEF AcquireLease
<1>3. g \in LeaseGroups /\ \A x \in Holders : GroupOf[x] \in LeaseGroups
  BY DEF LeaseGroups
<1>4. /\ leaseFences[g].token \in Nat /\ fence \in Nat \ {0} /\ clock \in Nat
      /\ n \in Generations /\ n \in 0 .. MaxGeneration /\ n \in Nat
      /\ \A x \in LeaseGroups : leaseFences[x].generation \in Nat
  BY <1>1, <1>3, LeaseConstants DEF LeaseTypeOK, Generations
<1>5. left \subseteq Unexpired /\ Unexpired \subseteq leases
  BY DEF Survivors, Unexpired
<1>6. new \in Leases
  BY <1>4 DEF Leases
<1>7. LeaseTypeOK'
  <2>1. leases' \subseteq Leases
    BY <1>1, <1>2, <1>5, <1>6 DEF LeaseTypeOK
  <2>2. leaseFences' \in [LeaseGroups -> [generation : 0 .. MaxGeneration, token : Nat]]
    <3>1. [generation |-> n, token |-> fence] \in [generation : 0 .. MaxGeneration, token : Nat]
      BY <1>4
    <3>2. QED
      BY <1>1, <1>2, <3>1 DEF LeaseTypeOK
  <2>3. ASSUME NEW x \in DOMAIN grants'
        PROVE  x \in Holders /\ grants'[x] \in [generation : Generations, token : Nat \ {0}]
    <3>1. CASE x = h
      <4>1. [generation |-> n, token |-> fence] \in [generation : Generations, token : Nat \ {0}]
        BY <1>4
      <4>2. QED
        BY <1>2, <3>1, <4>1
    <3>2. CASE x # h
      <4>1. x \in DOMAIN grants /\ grants'[x] = grants[x]
        BY <1>2, <2>3, <3>2
      <4>2. QED
        BY <1>1, <4>1 DEF LeaseTypeOK
    <3>3. QED
      BY <3>1, <3>2
  <2>4. QED
    BY <1>1, <1>2, <2>1, <2>2, <2>3 DEF LeaseTypeOK
<1>8. IsFiniteSet(leases')
  <2>1. IsFiniteSet(left)
    <3>1. left \subseteq leases
      BY <1>5
    <3>2. QED
      BY <1>1, <3>1, FS_Subset
  <2>2. QED
    BY <1>2, <2>1, FS_AddElement
<1>9. HeldTogether'
  <2>1. ASSUME NEW x \in LeaseGroups PROVE Fit(InGroup(leases', x))
    <3>1. IsFiniteSet(InGroup(left, x)) /\ Fit(InGroup(left, x))
      <4>1. InGroup(left, x) \subseteq leases
        BY <1>5 DEF InGroup
      <4>2. QED
        BY <1>1, <1>5, <4>1, FS_Subset, FewerAreHeld
    <3>2. CASE x = g
      <4>1. InGroup(leases', x) = InGroup(left, x) \cup {new}
        BY <1>2, <3>2 DEF InGroup
      <4>2. new.holder = h
        OBVIOUS
      <4>3. Room(h, InGroup(left, x)) /\ IsFiniteSet(InGroup(left, x))
        BY <1>2, <3>1, <3>2
      <4> HIDE DEF new, left, g
      <4>4. Fit(InGroup(left, x) \cup {new})
        BY <4>2, <4>3, OneMoreFits
      <4>5. QED
        BY <4>1, <4>4
    <3>3. CASE x # g
      <4>1. InGroup(leases', x) = InGroup(left, x)
        BY <1>2, <3>3 DEF InGroup
      <4>2. QED
        BY <3>1, <4>1
    <3>4. QED
      BY <3>2, <3>3
  <2>2. ASSUME NEW x \in LeaseGroups PROVE Fit(InGroup(Unexpired', x))
    <3>1. InGroup(Unexpired', x) \subseteq InGroup(leases', x)
      BY DEF InGroup, Unexpired
    <3>2. IsFiniteSet(InGroup(leases', x))
      <4>1. InGroup(leases', x) \subseteq leases'
        BY DEF InGroup
      <4>2. QED
        BY <1>8, <4>1, FS_Subset
    <3>3. QED
      BY <2>1, <3>1, <3>2, FewerFit
  <2>3. QED
    BY <2>2, HeldFits DEF HeldTogether, Fit
<1>10. TokensFence' /\ TokensAreBelow'
  <2>1. ASSUME NEW x \in DOMAIN grants
        PROVE  /\ x \in Holders /\ x # h /\ grants'[x] = grants[x]
               /\ grants[x].token \in Nat
               /\ grants[x].token <= leaseFences[GroupOf[x]].token
               /\ GroupOf[x] = g => grants[x].token < fence
    BY <1>1, <1>2, <1>4, <2>1 DEF LeaseTypeOK, TokensAreBelow
  <2>2. /\ leaseFences'[g].token = fence /\ leaseFences'[g].generation = n
        /\ \A x \in LeaseGroups : x # g => leaseFences'[x] = leaseFences[x]
    BY <1>1, <1>2, <1>3 DEF LeaseTypeOK
  <2>3. grants'[h].token = fence /\ grants'[h].generation = n
    BY <1>2
  <2>4. ASSUME NEW x \in DOMAIN grants', NEW y \in DOMAIN grants',
               GroupOf[x] = GroupOf[y], grants'[x].token = grants'[y].token
        PROVE  x = y
    <3>1. CASE x = h /\ y # h
      BY <1>2, <2>1, <2>3, <2>4, <3>1, <1>4
    <3>2. CASE y = h /\ x # h
      BY <1>2, <2>1, <2>3, <2>4, <3>2, <1>4
    <3>3. CASE x # h /\ y # h
      <4>1. x \in DOMAIN grants /\ y \in DOMAIN grants
        BY <1>2, <2>4, <3>3
      <4>2. QED
        BY <1>1, <2>1, <2>4, <4>1 DEF TokensFence
    <3>4. QED
      BY <3>1, <3>2, <3>3
  <2>5. ASSUME NEW l \in leases'
        PROVE  /\ l.holder \in DOMAIN grants' /\ l.token = grants'[l.holder].token
               /\ l.generation = leaseFences'[GroupOf[l.holder]].generation
    <3>1. CASE l = new
      BY <1>2, <2>2, <2>3, <3>1
    <3>2. CASE l \in left
      <4>1. /\ l \in leases /\ l \in Leases
            /\ GroupOf[l.holder] = g => l.generation >= n
        BY <1>1, <1>5, <3>2 DEF Survivors, LeaseTypeOK
      <4>2. /\ l.holder \in DOMAIN grants /\ l.token = grants[l.holder].token
            /\ l.generation = leaseFences[GroupOf[l.holder]].generation
        BY <1>1, <4>1 DEF TokensFence
      <4>3. GroupOf[l.holder] \in LeaseGroups /\ l.generation \in Nat
        BY <1>3, <4>1 DEF Leases, Generations
      <4>4. l.generation = leaseFences'[GroupOf[l.holder]].generation
        BY <1>2, <1>4, <2>2, <4>1, <4>2, <4>3
      <4>5. QED
        BY <1>2, <2>1, <4>2, <4>4
    <3>3. QED
      BY <1>2, <2>5, <3>1, <3>2
  <2>6. TokensAreBelow'
    <3>1. ASSUME NEW x \in DOMAIN grants'
          PROVE  grants'[x].token <= leaseFences'[GroupOf[x]].token
      <4>1. CASE x = h
        BY <2>2, <2>3, <4>1, <1>4
      <4>2. CASE x # h
        <5>1. x \in DOMAIN grants
          BY <1>2, <3>1, <4>2
        <5>2. GroupOf[x] \in LeaseGroups
          BY <1>3, <2>1, <5>1
        <5>3. CASE GroupOf[x] = g
          BY <1>4, <2>1, <2>2, <5>1, <5>3
        <5>4. CASE GroupOf[x] # g
          BY <2>1, <2>2, <5>1, <5>2, <5>4
        <5>5. QED
          BY <5>3, <5>4
      <4>3. QED
        BY <4>1, <4>2
    <3>2. QED
      BY <3>1 DEF TokensAreBelow
  <2>7. QED
    BY <2>4, <2>5, <2>6 DEF TokensFence
<1>11. QED
  BY <1>7, <1>8, <1>9, <1>10 DEF LeaseInv

(* What only takes leases away, or lets them expire.                       *)
LEMMA FewerKeep ==
  ASSUME LeaseInv, leases' \subseteq leases, UNCHANGED <<leaseFences, grants>>,
         clock' \in 0 .. MaxTime, clock' >= clock
  PROVE  LeaseInv'
<1>1. LeaseTypeOK /\ TokensFence /\ TokensAreBelow /\ IsFiniteSet(leases)
  BY DEF LeaseInv
<1>2. LeaseTypeOK'
  BY <1>1 DEF LeaseTypeOK
<1>3. IsFiniteSet(leases')
  BY <1>1, FS_Subset
<1>4. Unexpired' \subseteq Unexpired
  <2>1. ASSUME NEW l \in leases', l.expires > clock' PROVE l \in Unexpired
    <3>1. l \in leases /\ l.expires \in Nat /\ clock \in Nat
      BY <1>1, <2>1, LeaseConstants DEF LeaseTypeOK, Leases
    <3>2. QED
      BY <2>1, <3>1, LeaseConstants DEF Unexpired
  <2>2. QED
    BY <2>1 DEF Unexpired
<1>5. HeldTogether'
  <2>1. \A g \in LeaseGroups : Fit(InGroup(Unexpired', g))
    BY <1>4, FewerAreHeld
  <2>2. QED
    BY <2>1, HeldFits DEF HeldTogether, Fit
<1>6. TokensFence' /\ TokensAreBelow'
  BY <1>1 DEF TokensFence, TokensAreBelow
<1>7. QED
  BY <1>2, <1>3, <1>5, <1>6 DEF LeaseInv

LEMMA RenewKeeps ==
  ASSUME LeaseInv, NEW l \in leases, NEW s \in 1 .. 2, RenewLease(l, s)
  PROVE  LeaseInv'
<1> DEFINE m == [l EXCEPT !.expires = clock + s]
<1>1. LeaseTypeOK /\ TokensFence /\ TokensAreBelow /\ IsFiniteSet(leases)
  BY DEF LeaseInv
<1>2. /\ l \in Unexpired /\ leases' = (leases \ {l}) \cup {m}
      /\ UNCHANGED <<leaseFences, grants, clock>>
  BY DEF RenewLease
<1>3. l \in Leases /\ clock \in Nat
  BY <1>1, LeaseConstants DEF LeaseTypeOK
<1>4. /\ m \in Leases /\ m.holder = l.holder /\ m.token = l.token
      /\ m.generation = l.generation
  BY <1>3 DEF Leases
<1> HIDE DEF m
<1>5. LeaseTypeOK'
  BY <1>1, <1>2, <1>4 DEF LeaseTypeOK
<1>6. IsFiniteSet(leases')
  <2>1. IsFiniteSet(leases \ {l})
    BY <1>1, FS_RemoveElement
  <2>2. QED
    BY <1>2, <2>1, FS_AddElement
<1>7. HeldTogether'
  <2>1. ASSUME NEW g \in LeaseGroups PROVE Fit(InGroup(Unexpired', g))
    <3> DEFINE G == InGroup(Unexpired, g)
    <3>1. IsFiniteSet(G) /\ Fit(G)
      <4>1. G \subseteq leases
        BY DEF InGroup, Unexpired
      <4>2. QED
        BY <1>1, <4>1, FS_Subset, FewerAreHeld
    <3>2. Unexpired' \subseteq (Unexpired \ {l}) \cup {m}
      BY <1>2 DEF Unexpired
    <3>3. CASE GroupOf[l.holder] = g
      <4>1. InGroup(Unexpired', g) \subseteq (G \ {l}) \cup {m} /\ l \in G
        BY <1>2, <3>2, <3>3 DEF InGroup
      <4>2. Fit((G \ {l}) \cup {m})
        <5> HIDE DEF G
        <5>1. QED
          BY <1>4, <3>1, <4>1, RenewedFits
      <4>3. IsFiniteSet((G \ {l}) \cup {m})
        <5> HIDE DEF G
        <5>1. IsFiniteSet(G \ {l})
          BY <3>1, <4>1, FS_RemoveElement
        <5>2. QED
          BY <5>1, FS_AddElement
      <4>4. QED
        <5> HIDE DEF G
        <5>1. QED
          BY <4>1, <4>2, <4>3, FewerFit
    <3>4. CASE GroupOf[l.holder] # g
      <4>1. InGroup(Unexpired', g) \subseteq G
        BY <1>4, <3>2, <3>4 DEF InGroup
      <4>2. QED
        <5> HIDE DEF G
        <5>1. QED
          BY <3>1, <4>1, FewerFit
    <3>5. QED
      BY <3>3, <3>4
  <2>2. QED
    BY <2>1, HeldFits DEF HeldTogether, Fit
<1>8. TokensFence' /\ TokensAreBelow'
  BY <1>1, <1>2, <1>4 DEF TokensFence, TokensAreBelow
<1>9. QED
  BY <1>5, <1>6, <1>7, <1>8 DEF LeaseInv

LEMMA LeasesStaySafe == LeaseInv /\ [LeaseNext]_leaseVars => LeaseInv'
<1> SUFFICES ASSUME LeaseInv, [LeaseNext]_leaseVars PROVE LeaseInv'
  OBVIOUS
<1>0. clock \in 0 .. MaxTime /\ MaxTime \in Nat /\ clock >= clock
  BY LeaseConstants DEF LeaseInv, LeaseTypeOK
<1>1. ASSUME NEW h \in Holders, NEW n \in Generations, NEW s \in 1 .. 2,
             AcquireLease(h, n, s)
      PROVE  LeaseInv'
  BY <1>1, AcquireKeeps
<1>2. ASSUME NEW h \in Holders, ReplayLease(h) PROVE LeaseInv'
  <2>1. leases' \subseteq leases
    BY <1>2 DEF ReplayLease, Survivors, Unexpired
  <2>2. UNCHANGED <<leaseFences, grants, clock>>
    BY <1>2 DEF ReplayLease
  <2>3. QED
    BY <1>0, <2>1, <2>2, FewerKeep
<1>3. ASSUME NEW l \in leases, NEW s \in 1 .. 2, RenewLease(l, s) PROVE LeaseInv'
  BY <1>3, RenewKeeps
<1>4. ASSUME NEW l \in leases, ReleaseLease(l) PROVE LeaseInv'
  <2>1. leases' \subseteq leases /\ UNCHANGED <<leaseFences, grants, clock>>
    BY <1>4 DEF ReleaseLease
  <2>2. QED
    BY <1>0, <2>1, FewerKeep
<1>5. ASSUME Tick PROVE LeaseInv'
  <2>1. /\ leases' \subseteq leases /\ UNCHANGED <<leaseFences, grants>>
        /\ clock' \in 0 .. MaxTime /\ clock' >= clock
    BY <1>0, <1>5 DEF Tick
  <2>2. QED
    BY <2>1, FewerKeep
<1>6. ASSUME UNCHANGED leaseVars PROVE LeaseInv'
  <2>1. leases' \subseteq leases /\ UNCHANGED <<leaseFences, grants, clock>>
    BY <1>6 DEF leaseVars
  <2>2. QED
    BY <1>0, <2>1, FewerKeep
<1>7. QED
  BY <1>1, <1>2, <1>3, <1>4, <1>5, <1>6 DEF LeaseNext

(* Leases that are held together fit their group, and a token fences every *)
(* earlier grant, for any holders, limits, generations and times.          *)
THEOREM LeasesHold == LeaseSpec => []LeasesAreSafe
<1>1. LeaseInit => LeaseInv
  <2> SUFFICES ASSUME LeaseInit PROVE LeaseInv
    OBVIOUS
  <2>1. LeaseTypeOK
    BY LeaseConstants DEF LeaseInit, LeaseTypeOK
  <2>2. HeldTogether
    <3>1. \A g, k : OfKind(InGroup(Unexpired, g), k) = {}
      BY DEF LeaseInit, OfKind, InGroup, Unexpired
    <3>2. QED
      BY <3>1, FS_EmptySet, LeaseConstants DEF HeldTogether
  <2>3. TokensFence /\ TokensAreBelow /\ IsFiniteSet(leases)
    BY FS_EmptySet DEF LeaseInit, TokensFence, TokensAreBelow
  <2>4. QED
    BY <2>1, <2>2, <2>3 DEF LeaseInv
<1>2. LeaseInv => LeasesAreSafe
  BY DEF LeaseInv, LeasesAreSafe
<1>3. QED
  BY <1>1, <1>2, LeasesStaySafe, PTL DEF LeaseSpec

(* A radio command runs at most once, alone, and its recorded outcome is   *)
(* what happened; leases held together fit their group's limits and their  *)
(* tokens fence earlier holders.                                           *)
THEOREM CommandsHold == LedgerSpec /\ LeaseSpec => []CommandsAreSafe
BY LedgerHolds, LeasesHold, PTL DEF CommandsAreSafe

-----------------------------------------------------------------------------
(* The SIM.                                                                *)

(* Of a call: what it takes for unprovisioned is so, and a listed          *)
(* application is still to be tried or accounted for, unless one failed.   *)
Tried(c) == {c.aids[i] : i \in DOMAIN c.aids}
CallFits(c) ==
  /\ \A a \in c.unprovisioned : card.files[a]["private"] = "padding"
  /\ c.kind = "identity" => Tried(c) \subseteq Aids
  /\ c.kind = "identity" /\ ~c.failed /\ card.directory = "listed" =>
       card.applications \subseteq Tried(c) \cup c.unprovisioned \cup c.refused
  /\ IF c.at = "open" THEN c.aids # << >> ELSE c.aids = << >>

(* Of a reading: what it has is the texts of one application.              *)
IsText(a, f) == card.files[a][f] = "text"
ReadingFits(r, a) ==
  /\ r.call.kind # "identity" => r.at = "read"
  /\ r.call.kind = "identity" =>
       \/ /\ r.at = "read" /\ r.file = "private" /\ r.got = << >>
       \/ /\ r.at = "read" /\ r.file = "domain" /\ IsText(a, "private")
          /\ r.got = <<<<a, "private">>>>
       \/ /\ r.at = "read" /\ r.file = "public" /\ IsText(a, "private")
          /\ IsText(a, "domain") /\ r.got = <<<<a, "private">>, <<a, "domain">>>>
       \/ /\ r.at = "close" /\ IsText(a, "private") /\ IsText(a, "domain")
          /\ IsText(a, "public")
          /\ r.got = <<<<a, "private">>, <<a, "domain">>, <<a, "public">>>>

AccessFits ==
  /\ access.at \in {"open", "answer"} => CallFits(access)
  /\ access.at \in {"read", "close"} =>
       /\ access.call.at = "open" /\ CallFits(access.call)
       /\ ReadingFits(access, App)
  /\ access.at = "abandon" =>
       /\ access.call.at = "open" /\ CallFits(access.call)
       /\ access.call.kind = "identity" /\ ~access.call.failed =>
            App \in access.call.unprovisioned

(* Open are the channel of the call in progress and those that were lost.  *)
ChannelsAreKnown ==
  IF access.at \in {"idle", "open", "answer"} THEN channels \subseteq lost
    ELSE channels \subseteq lost \cup {access.channel}

(* The inductive invariant behind SimIsSafe.                               *)
SimInv == /\ SimTypeOK
          /\ AccessFits /\ ChannelsAreKnown /\ AnswersAreOfOneSource

LEMMA SimConstants ==
  /\ ChannelLimit \in Nat /\ MaxSimCalls \in Nat /\ MaxSimFaults \in Nat
  /\ IsFiniteSet(Aids)
BY SimAssumption DEF SimAssumption

(* Where the adapter stands says which call, reading or leaving it is in.  *)
LEMMA WhichAccess ==
  ASSUME SimTypeOK
  PROVE  /\ access.at \in {"open", "answer"} => access \in SimCalls
         /\ access.at \in {"read", "close"} => access \in Readings
         /\ access.at = "abandon" => access \in Leavings
         /\ access = NoAccess => access.at = "idle"
         /\ access \in SimCalls => access.at \in {"open", "answer"}
         /\ access \in Readings => access.at \in {"read", "close"}
         /\ access \in Leavings => access.at = "abandon"
BY DEF SimTypeOK, NoAccess, SimCalls, Readings, Leavings

LEMMA Appended ==
  /\ \A x, y : Append(<<x>>, y) = <<x, y>>
  /\ \A x, y, z : Append(<<x, y>>, z) = <<x, y, z>>
<1>1. ASSUME NEW x, NEW y PROVE Append(<<x>>, y) = <<x, y>>
  <2>1. <<x>> \in Seq({x, y}) /\ <<x, y>> \in Seq({x, y})
    OBVIOUS
  <2>2. /\ Append(<<x>>, y) \in Seq({x, y}) /\ Len(Append(<<x>>, y)) = 2
        /\ Append(<<x>>, y)[1] = x /\ Append(<<x>>, y)[2] = y
    BY <2>1
  <2> DEFINE s == Append(<<x>>, y)
             u == <<x, y>>
  <2>3. s \in Seq({x, y}) /\ u \in Seq({x, y}) /\ Len(s) = Len(u)
        /\ \A i \in 1 .. Len(s) : s[i] = u[i]
    BY <2>1, <2>2
  <2> HIDE DEF s, u
  <2>4. s = u
    BY <2>3, SeqEqual
  <2>5. QED
    BY <2>4 DEF s, u
<1>2. ASSUME NEW x, NEW y, NEW z PROVE Append(<<x, y>>, z) = <<x, y, z>>
  <2>1. <<x, y>> \in Seq({x, y, z}) /\ <<x, y, z>> \in Seq({x, y, z})
    OBVIOUS
  <2>2. /\ Append(<<x, y>>, z) \in Seq({x, y, z}) /\ Len(Append(<<x, y>>, z)) = 3
        /\ Append(<<x, y>>, z)[1] = x /\ Append(<<x, y>>, z)[2] = y
        /\ Append(<<x, y>>, z)[3] = z
    BY <2>1
  <2> DEFINE s == Append(<<x, y>>, z)
             u == <<x, y, z>>
  <2>3. s \in Seq({x, y, z}) /\ u \in Seq({x, y, z}) /\ Len(s) = Len(u)
        /\ \A i \in 1 .. Len(s) : s[i] = u[i]
    BY <2>1, <2>2
  <2> HIDE DEF s, u
  <2>4. s = u
    BY <2>3, SeqEqual
  <2>5. QED
    BY <2>4 DEF s, u
<1>3. QED
  BY <1>1, <1>2

LEMMA CallFields ==
  ASSUME NEW c \in SimCalls
  PROVE  /\ c.at \in {"open", "answer"} /\ c.kind \in {"identity", "aka"}
         /\ c.aids \in Seq(Aids \cup {Usim}) /\ c.failed \in BOOLEAN
         /\ c.refused \subseteq Aids \cup {Usim} /\ c.unprovisioned \subseteq Aids
BY DEF SimCalls

LEMMA OneIsTried ==
  ASSUME NEW c \in SimCalls, CallFits(c), c.at = "open"
  PROVE  /\ c.aids # << >> /\ Head(c.aids) \in Tried(c)
         /\ Head(c.aids) \in Aids \cup {Usim}
         /\ c.kind = "identity" => Head(c.aids) \in Aids
<1>1. c.aids \in Seq(Aids \cup {Usim}) /\ c.aids # << >>
  BY CallFields DEF CallFits
<1>2. 1 \in DOMAIN c.aids /\ Head(c.aids) = c.aids[1] /\ c.aids[1] \in Aids \cup {Usim}
  BY <1>1
<1>3. Head(c.aids) \in Tried(c)
  BY <1>2 DEF Tried
<1>4. QED
  BY <1>1, <1>2, <1>3 DEF CallFits

(* The next candidate: what was just tried is accounted for.               *)
LEMMA NextIsTyped ==
  ASSUME NEW c \in SimCalls, c.aids # << >>, NEW failed \in BOOLEAN,
         NEW refused \in SUBSET (Aids \cup {Usim})
  PROVE  NextCandidate(c, failed, refused) \in SimCalls
<1>1. c.aids \in Seq(Aids \cup {Usim})
  BY CallFields
<1>2. Tail(c.aids) \in Seq(Aids \cup {Usim})
  BY <1>1
<1>3. QED
  BY <1>2 DEF NextCandidate, SimCalls

LEMMA NextFits ==
  ASSUME NEW c \in SimCalls, CallFits(c), c.at = "open", NEW failed \in BOOLEAN,
         NEW refused \in SUBSET (Aids \cup {Usim}),
         c.kind = "identity" /\ ~c.failed /\ ~failed =>
           Head(c.aids) \in c.unprovisioned \cup refused
  PROVE  CallFits(NextCandidate(c, failed, refused))
<1> DEFINE d == NextCandidate(c, failed, refused)
<1>1. /\ c.aids \in Seq(Aids \cup {Usim}) /\ c.aids # << >> /\ c.failed \in BOOLEAN
      /\ c.kind = "identity" => Tried(c) \subseteq Aids
  BY CallFields DEF CallFits
<1>2. /\ d.at = IF Len(c.aids) > 1 THEN "open" ELSE "answer"
      /\ d.aids = Tail(c.aids) /\ d.kind = c.kind
      /\ d.unprovisioned = c.unprovisioned /\ d.refused = c.refused \cup refused
      /\ ~d.failed => ~c.failed /\ ~failed
  BY <1>1 DEF NextCandidate, SimCalls
<1>3. /\ Tail(c.aids) \in Seq(Aids \cup {Usim}) /\ Len(Tail(c.aids)) = Len(c.aids) - 1
      /\ Len(c.aids) \in Nat \ {0} /\ DOMAIN c.aids = 1 .. Len(c.aids)
      /\ DOMAIN Tail(c.aids) = 1 .. (Len(c.aids) - 1)
      /\ \A i \in 1 .. (Len(c.aids) - 1) : Tail(c.aids)[i] = c.aids[i + 1]
      /\ Head(c.aids) = c.aids[1]
  BY <1>1
<1>4. Tried(c) \subseteq {Head(c.aids)} \cup Tried(d)
  <2>1. ASSUME NEW i \in 1 .. Len(c.aids), i # 1
        PROVE  \E j \in DOMAIN Tail(c.aids) : c.aids[i] = Tail(c.aids)[j]
    <3>1. i - 1 \in 1 .. (Len(c.aids) - 1) /\ (i - 1) + 1 = i
      BY <1>3, <2>1
    <3>2. QED
      BY <1>3, <3>1
  <2>2. QED
    BY <1>2, <1>3, <2>1 DEF Tried
<1>5. Tried(d) \subseteq Tried(c)
  <2>1. \A i \in 1 .. (Len(c.aids) - 1) : i + 1 \in DOMAIN c.aids
    BY <1>3
  <2>2. QED
    BY <1>2, <1>3, <2>1 DEF Tried
<1> HIDE DEF d
<1>6. IF d.at = "open" THEN d.aids # << >> ELSE d.aids = << >>
  <2>1. PICK k \in Nat \ {0} : k = Len(c.aids) /\ Len(Tail(c.aids)) = k - 1
    BY <1>3
  <2>2. Len(d.aids) = k - 1 /\ d.at = IF k > 1 THEN "open" ELSE "answer"
    BY <1>2, <2>1
  <2>3. d.at = "open" <=> Len(d.aids) # 0
    <3>1. k \in Nat /\ k # 0
      BY <2>1
    <3>2. CASE k > 1
      <4>1. k - 1 # 0
        BY <3>1, <3>2
      <4>2. QED
        BY <2>2, <3>2, <4>1
    <3>3. CASE ~(k > 1)
      <4>1. k - 1 = 0
        BY <3>1, <3>3
      <4>2. QED
        BY <2>2, <3>3, <4>1
    <3>4. QED
      BY <3>2, <3>3
  <2>4. d.aids \in Seq(Aids \cup {Usim})
    BY <1>2, <1>3
  <2>5. d.aids = << >> <=> Len(d.aids) = 0
    BY <2>4, EmptySeq
  <2>6. QED
    BY <2>3, <2>5
<1>7. c.kind = "identity" /\ ~d.failed /\ card.directory = "listed" =>
        card.applications \subseteq Tried(d) \cup d.unprovisioned \cup d.refused
  BY <1>2, <1>4 DEF CallFits
<1>8. CallFits(d)
  BY <1>1, <1>2, <1>5, <1>6, <1>7 DEF CallFits
<1>9. QED
  BY <1>8 DEF d

(* Every listed application is a candidate.                                *)
LEMMA CandidatesAreAll ==
  ASSUME card \in Cards, NEW s \in Candidates
  PROVE  /\ s \in Seq(Aids \cup {Usim})
         /\ {s[i] : i \in DOMAIN s} \subseteq Aids
         /\ card.directory = "listed" => card.applications \subseteq {s[i] : i \in DOMAIN s}
<1>1. CASE card.directory = "listed"
  <2> DEFINE A == card.applications
             n == Cardinality(A)
  <2>1. A \subseteq Aids /\ IsFiniteSet(A) /\ n \in Nat
    <3>1. A \subseteq Aids
      BY DEF Cards
    <3>2. QED
      BY <3>1, SimConstants, FS_Subset, FS_CardinalityType
  <2>2. /\ s \in [1 .. n -> A] /\ \A i, j \in DOMAIN s : i # j => s[i] # s[j]
    BY <1>1 DEF Candidates
  <2>3. s \in Injection(1 .. n, A)
    BY <2>2 DEF Injection, IsInjective
  <2>4. IsFiniteSet(1 .. n) /\ Cardinality(1 .. n) = n
    <3> HIDE DEF n
    <3>1. QED
      BY <2>1, FS_Interval
  <2>5. s \in Surjection(1 .. n, A)
    <3> HIDE DEF A
    <3>1. QED
      BY <2>1, <2>3, <2>4, FS_Injection
  <2>6. \A a \in A : \E i \in 1 .. n : s[i] = a
    BY <2>5 DEF Surjection
  <2>7. s \in Seq(Aids \cup {Usim})
    <3>1. s \in [1 .. n -> Aids \cup {Usim}]
      BY <2>1, <2>2
    <3> HIDE DEF n
    <3>2. QED
      BY <2>1, <3>1
  <2>8. DOMAIN s = 1 .. n
    BY <2>2
  <2>9. {s[i] : i \in DOMAIN s} \subseteq Aids
    BY <2>1, <2>2
  <2>10. QED
    BY <1>1, <2>6, <2>7, <2>8, <2>9
<1>2. CASE card.directory # "listed"
  <2>1. PICK a \in Aids : s = <<a>>
    BY <1>2 DEF Candidates
  <2>2. QED
    BY <1>2, <2>1
<1>3. QED
  BY <1>1, <1>2

-----------------------------------------------------------------------------

LEMMA KeepsFitting ==
  ASSUME UNCHANGED card, NEW x
  PROVE  /\ CallFits(x) => CallFits(x)'
         /\ \A a : ReadingFits(x, a) => ReadingFits(x, a)'
         /\ SimChannels' = SimChannels /\ Readings' = Readings /\ Leavings' = Leavings
BY DEF CallFits, ReadingFits, IsText, SimChannels, Readings, Leavings, Tried

(* What becomes of the access, given where it is now.                      *)
LEMMA CallIsNext ==
  ASSUME UNCHANGED card, NEW x \in SimCalls, access' = x, CallFits(x)
  PROVE  access' \in SimCalls /\ AccessFits'
<1>1. access'.at \in {"open", "answer"} /\ CallFits(x)'
  BY KeepsFitting, CallFields
<1>2. QED
  BY <1>1 DEF AccessFits, CallFits, Tried

LEMMA NoneIsNext ==
  ASSUME access' = NoAccess
  PROVE  AccessFits' /\ access'.at = "idle"
BY DEF AccessFits, NoAccess

LEMMA LeavingIsNext ==
  ASSUME UNCHANGED card, NEW ch \in SimChannels, NEW c \in SimCalls, NEW b \in BOOLEAN,
         access' = [at |-> "abandon", channel |-> ch, answered |-> b, call |-> c],
         c.at = "open", CallFits(c),
         c.kind = "identity" /\ ~c.failed => Head(c.aids) \in c.unprovisioned
  PROVE  access' \in Leavings' /\ AccessFits' /\ access'.at = "abandon"
         /\ access'.channel = ch
<1>1. /\ access'.at = "abandon" /\ access'.call = c /\ access'.channel = ch
  OBVIOUS
<1>2. access' \in Leavings
  BY DEF Leavings
<1>3. CallFits(c)' /\ Leavings' = Leavings
  BY KeepsFitting
<1>4. AccessFits'
  BY <1>1, <1>3 DEF AccessFits, CallFits, Tried, App, Call
<1>5. QED
  BY <1>1, <1>2, <1>3, <1>4

LEMMA ReadingIsNext ==
  ASSUME UNCHANGED card, NEW r \in Readings, access' = r,
         r.call.at = "open", CallFits(r.call), ReadingFits(r, Head(r.call.aids))
  PROVE  access' \in Readings' /\ AccessFits' /\ access'.at \in {"read", "close"}
<1>1. r.at \in {"read", "close"}
  BY DEF Readings
<1>2. PICK c, a : c = r.call /\ a = Head(r.call.aids)
  OBVIOUS
<1>3. CallFits(c)' /\ ReadingFits(r, a)' /\ Readings' = Readings
  BY <1>2, KeepsFitting
<1>4. App' = a /\ access'.call = c
  BY <1>2 DEF App, Call
<1>5. ReadingFits(access, App)'
  BY <1>3, <1>4 DEF ReadingFits, IsText
<1>6. CallFits(access.call)'
  BY <1>3, <1>4 DEF CallFits, Tried
<1>7. AccessFits'
  BY <1>1, <1>2, <1>4, <1>5, <1>6 DEF AccessFits
<1>8. QED
  BY <1>1, <1>3, <1>7

(* The rest of the state.                                                  *)
LEMMA RestIsTyped ==
  ASSUME SimTypeOK, UNCHANGED card, channels' \subseteq SimChannels,
         lost' \subseteq SimChannels, simCalls' \in 0 .. MaxSimCalls,
         simFaults' \in 0 .. MaxSimFaults,
         access' = NoAccess \/ access' \in SimCalls \/ access' \in Readings'
           \/ access' \in Leavings'
  PROVE  SimTypeOK'
BY DEF SimTypeOK, SimChannels

LEMMA FaultCounts ==
  ASSUME SimTypeOK, SimFault
  PROVE  simFaults' \in 0 .. MaxSimFaults
BY SimConstants DEF SimTypeOK, SimFault

LEMMA CallCounts ==
  ASSUME SimTypeOK, NEW n \in Nat, Asks(n)
  PROVE  simCalls' \in 0 .. MaxSimCalls
BY SimConstants DEF SimTypeOK, Asks

LEMMA AnswersStay ==
  ASSUME AnswersAreOfOneSource, UNCHANGED card,
         \A g \in given' : g \in given \/ g.source = "usim"
  PROVE  AnswersAreOfOneSource'
BY DEF AnswersAreOfOneSource

-----------------------------------------------------------------------------

LEMMA BeginKeeps ==
  ASSUME SimInv, NEW kind \in {"identity", "aka"}, NEW aids \in Seq(Aids \cup {Usim}),
         kind = "identity" =>
           /\ {aids[i] : i \in DOMAIN aids} \subseteq Aids
           /\ card.directory = "listed" => card.applications \subseteq {aids[i] : i \in DOMAIN aids},
         BeginAccess(kind, aids)
  PROVE  SimInv'
<1> DEFINE x == [at |-> IF aids = << >> THEN "answer" ELSE "open", kind |-> kind,
                 aids |-> aids, failed |-> FALSE, refused |-> {}, unprovisioned |-> {}]
<1>1. /\ SimTypeOK /\ ChannelsAreKnown /\ AnswersAreOfOneSource /\ card \in Cards
      /\ access = NoAccess /\ access' = x /\ Asks(1 + Len(aids))
      /\ UNCHANGED <<card, channels, given, lost, simFaults>>
  BY DEF SimInv, SimTypeOK, BeginAccess
<1>3. x \in SimCalls
  BY DEF SimCalls
<1>4. CallFits(x)
  <2>1. /\ x.kind = kind /\ x.aids = aids /\ x.unprovisioned = {}
        /\ x.at = IF aids = << >> THEN "answer" ELSE "open"
    OBVIOUS
  <2> HIDE DEF x
  <2>2. QED
    BY <2>1 DEF CallFits, Tried
<1> HIDE DEF x
<1>5. access' \in SimCalls /\ AccessFits'
  BY <1>1, <1>3, <1>4, CallIsNext
<1>6. simCalls' \in 0 .. MaxSimCalls
  <2>1. 1 + Len(aids) \in Nat
    OBVIOUS
  <2>2. QED
    BY <1>1, <2>1, CallCounts
<1>7. SimTypeOK'
  BY <1>1, <1>5, <1>6, RestIsTyped DEF SimTypeOK
<1>8. ChannelsAreKnown'
  BY <1>1, <1>5, WhichAccess, CallFields DEF ChannelsAreKnown
<1>9. QED
  BY <1>1, <1>5, <1>7, <1>8, AnswersStay DEF SimInv

LEMMA CheckFailsKeeps ==
  ASSUME SimInv, CheckFails
  PROVE  SimInv'
<1>1. /\ SimTypeOK /\ AccessFits /\ ChannelsAreKnown /\ AnswersAreOfOneSource
      /\ access = NoAccess /\ Asks(1) /\ SimFault
      /\ UNCHANGED <<card, channels, access, given, lost>>
  BY DEF SimInv, CheckFails
<1>2. SimTypeOK'
  <2>1. simFaults' \in 0 .. MaxSimFaults /\ simCalls' \in 0 .. MaxSimCalls
    BY <1>1, FaultCounts, CallCounts
  <2>2. QED
    BY <1>1, <2>1, RestIsTyped DEF SimTypeOK
<1>3. AccessFits'
  BY <1>1, NoneIsNext
<1>4. QED
  BY <1>1, <1>2, <1>3, AnswersStay DEF SimInv, ChannelsAreKnown

LEMMA OpenKeeps ==
  ASSUME SimInv, NEW c, Open(c)
  PROVE  SimInv'
<1> DEFINE r == [at |-> "read", channel |-> c, file |-> "private", got |-> << >>,
                 call |-> access]
<1>1. /\ SimTypeOK /\ AccessFits /\ ChannelsAreKnown /\ AnswersAreOfOneSource
      /\ access.at = "open" /\ c \in SimChannels /\ channels' = channels \cup {c}
      /\ access' = r /\ UNCHANGED <<card, given, lost, simCalls, simFaults>>
  BY DEF SimInv, Open
<1>2. access \in SimCalls /\ CallFits(access)
  BY <1>1, WhichAccess DEF AccessFits
<1>3. r \in Readings /\ r.call = access
  BY <1>1, <1>2 DEF Readings, Files
<1>4. ReadingFits(r, Head(r.call.aids))
  BY <1>3 DEF ReadingFits
<1>5. r.channel = c
  OBVIOUS
<1> HIDE DEF r
<1>6. access' \in Readings' /\ AccessFits' /\ access'.at \in {"read", "close"}
  BY <1>1, <1>2, <1>3, <1>4, ReadingIsNext
<1>7. SimTypeOK'
  BY <1>1, <1>6, RestIsTyped DEF SimTypeOK
<1>8. ChannelsAreKnown'
  BY <1>1, <1>5, <1>6 DEF ChannelsAreKnown
<1>9. QED
  BY <1>1, <1>6, <1>7, <1>8, AnswersStay DEF SimInv

LEMMA OpenRefusedKeeps ==
  ASSUME SimInv, OpenRefused
  PROVE  SimInv'
<1>1. /\ SimTypeOK /\ AccessFits /\ ChannelsAreKnown /\ AnswersAreOfOneSource
      /\ access.at = "open"
      /\ access' = NextCandidate(access, access.kind = "aka", {Head(access.aids)})
      /\ UNCHANGED <<card, channels, given, lost, simCalls, simFaults>>
  BY DEF SimInv, OpenRefused, Application
<1>2. access \in SimCalls /\ CallFits(access)
  BY <1>1, WhichAccess DEF AccessFits
<1> DEFINE failed == access.kind = "aka"
<1>3. failed \in BOOLEAN /\ {Head(access.aids)} \in SUBSET (Aids \cup {Usim})
      /\ access.aids # << >>
  BY <1>1, <1>2, OneIsTried
<1> HIDE DEF failed
<1>4. NextCandidate(access, failed, {Head(access.aids)}) \in SimCalls
  BY <1>2, <1>3, NextIsTyped
<1>5. CallFits(NextCandidate(access, failed, {Head(access.aids)}))
  BY <1>1, <1>2, <1>3, NextFits
<1>6. access' \in SimCalls /\ AccessFits'
  BY <1>1, <1>4, <1>5, CallIsNext DEF failed
<1>7. SimTypeOK'
  BY <1>1, <1>6, RestIsTyped DEF SimTypeOK
<1>8. ChannelsAreKnown'
  BY <1>1, <1>6, CallFields DEF ChannelsAreKnown
<1>9. QED
  BY <1>1, <1>6, <1>7, <1>8, AnswersStay DEF SimInv

LEMMA OpenFailsKeeps ==
  ASSUME SimInv, NEW c, OpenFails(c)
  PROVE  SimInv'
<1>1. /\ SimTypeOK /\ AccessFits /\ ChannelsAreKnown /\ AnswersAreOfOneSource
      /\ access.at = "open" /\ SimFault
      /\ access' = NextCandidate(access, TRUE, {})
      /\ UNCHANGED <<card, given, simCalls>>
      /\ \/ c \in SimChannels /\ channels' = channels \cup {c} /\ lost' = lost \cup {c}
         \/ UNCHANGED <<channels, lost>>
  BY DEF SimInv, OpenFails
<1>2. access \in SimCalls /\ CallFits(access)
  BY <1>1, WhichAccess DEF AccessFits
<1>3. access.aids # << >>
  BY <1>1, <1>2, OneIsTried
<1>4. NextCandidate(access, TRUE, {}) \in SimCalls
  BY <1>2, <1>3, NextIsTyped
<1>5. CallFits(NextCandidate(access, TRUE, {}))
  BY <1>1, <1>2, NextFits
<1>6. access' \in SimCalls /\ AccessFits'
  BY <1>1, <1>4, <1>5, CallIsNext
<1>7. SimTypeOK'
  BY <1>1, <1>6, RestIsTyped, FaultCounts DEF SimTypeOK
<1>8. ChannelsAreKnown'
  BY <1>1, <1>6, CallFields DEF ChannelsAreKnown
<1>9. QED
  BY <1>1, <1>6, <1>7, <1>8, AnswersStay DEF SimInv

(* A reading that ends with an error or unprovisioned.                     *)
LEMMA LeavingKeeps ==
  ASSUME SimInv, access.at \in {"read", "close"}, NEW c \in SimCalls,
         access' = [at |-> "abandon", channel |-> access.channel, answered |-> FALSE,
                    call |-> c],
         c.at = "open", c.kind = access.call.kind, c.aids = access.call.aids,
         c.refused = access.call.refused,
         access.call.unprovisioned \subseteq c.unprovisioned,
         \A a \in c.unprovisioned : card.files[a]["private"] = "padding",
         ~c.failed => ~access.call.failed,
         c.kind = "identity" /\ ~c.failed => App \in c.unprovisioned,
         UNCHANGED <<card, given, lost>>, channels' \subseteq channels,
         simCalls' \in 0 .. MaxSimCalls, simFaults' \in 0 .. MaxSimFaults
  PROVE  SimInv'
<1>1. /\ SimTypeOK /\ AccessFits /\ ChannelsAreKnown /\ AnswersAreOfOneSource
  BY DEF SimInv
<1>2. /\ access \in Readings /\ access.call \in SimCalls /\ access.channel \in SimChannels
      /\ access.call.at = "open" /\ CallFits(access.call)
  BY <1>1, WhichAccess DEF AccessFits, Readings
<1>3. CallFits(c)
  BY <1>2 DEF CallFits, Tried
<1>4. c.kind = "identity" /\ ~c.failed => Head(c.aids) \in c.unprovisioned
  BY DEF App, Call
<1>5. /\ access' \in Leavings' /\ AccessFits' /\ access'.at = "abandon"
      /\ access'.channel = access.channel
  BY <1>2, <1>3, <1>4, LeavingIsNext
<1>6. SimTypeOK'
  BY <1>1, <1>5, RestIsTyped DEF SimTypeOK
<1>7. ChannelsAreKnown'
  BY <1>1, <1>5 DEF ChannelsAreKnown
<1>8. QED
  BY <1>1, <1>5, <1>6, <1>7, AnswersStay DEF SimInv

LEMMA AbandonKeeps ==
  ASSUME SimInv, access.at \in {"read", "close"},
         \/ Abandon(TRUE, {})
         \/ Abandon(FALSE, {App}) /\ App \in Aids /\ card.files[App]["private"] = "padding",
         UNCHANGED <<card, given, lost>>, channels' \subseteq channels,
         simCalls' \in 0 .. MaxSimCalls, simFaults' \in 0 .. MaxSimFaults
  PROVE  SimInv'
<1>1. /\ access.call \in SimCalls /\ access.call.at = "open"
      /\ \A a \in access.call.unprovisioned : card.files[a]["private"] = "padding"
  BY WhichAccess DEF SimInv, AccessFits, CallFits, Readings
<1>2. CASE Abandon(TRUE, {})
  <2> DEFINE c == [access.call EXCEPT !.failed = access.call.failed \/ TRUE,
                     !.unprovisioned = access.call.unprovisioned \cup {}]
  <2>1. access' = [at |-> "abandon", channel |-> access.channel, answered |-> FALSE, call |-> c]
    BY <1>2 DEF Abandon, Call
  <2>2. /\ c \in SimCalls /\ c.at = "open" /\ c.kind = access.call.kind
        /\ c.aids = access.call.aids /\ c.refused = access.call.refused
        /\ c.unprovisioned = access.call.unprovisioned /\ c.failed
    BY <1>1 DEF SimCalls
  <2> HIDE DEF c
  <2>3. QED
    BY <1>1, <2>1, <2>2, LeavingKeeps
<1>3. CASE Abandon(FALSE, {App}) /\ App \in Aids /\ card.files[App]["private"] = "padding"
  <2> DEFINE c == [access.call EXCEPT !.failed = access.call.failed \/ FALSE,
                     !.unprovisioned = access.call.unprovisioned \cup {App}]
  <2>1. access' = [at |-> "abandon", channel |-> access.channel, answered |-> FALSE, call |-> c]
    BY <1>3 DEF Abandon, Call
  <2>2. /\ c \in SimCalls /\ c.at = "open" /\ c.kind = access.call.kind
        /\ c.aids = access.call.aids /\ c.refused = access.call.refused
        /\ c.unprovisioned = access.call.unprovisioned \cup {App}
        /\ ~c.failed => ~access.call.failed
    BY <1>1, <1>3 DEF SimCalls
  <2> HIDE DEF c
  <2>3. /\ App \in c.unprovisioned
        /\ \A a \in c.unprovisioned : card.files[a]["private"] = "padding"
    BY <1>1, <1>3, <2>2
  <2>4. QED
    BY <2>1, <2>2, <2>3, LeavingKeeps
<1>4. QED
  BY <1>2, <1>3

LEMMA ReadFileKeeps ==
  ASSUME SimInv, ReadFile
  PROVE  SimInv'
<1>1. /\ SimTypeOK /\ AccessFits /\ ChannelsAreKnown /\ AnswersAreOfOneSource
      /\ access.at = "read" /\ access.call.kind = "identity"
      /\ UNCHANGED <<card, channels, given, lost, simCalls, simFaults>>
  BY DEF SimInv, ReadFile, Reading, Call
<1>2. /\ access \in Readings /\ access.call \in SimCalls
      /\ access.call.at = "open" /\ CallFits(access.call) /\ ReadingFits(access, App)
      /\ access.file \in Files /\ card \in Cards
  BY <1>1, WhichAccess DEF AccessFits, Readings, SimTypeOK
<1>3. App \in Aids
  BY <1>1, <1>2, OneIsTried DEF App, Call
<1> DEFINE content == card.files[App][access.file]
           unknown == UnknownIdentity(access.file, content)
<1>4. CASE content # "text"
  <2>1. Abandon(~unknown, IF unknown THEN {App} ELSE {})
    BY <1>4 DEF ReadFile
  <2>2. unknown => card.files[App]["private"] = "padding"
    BY DEF UnknownIdentity
  <2>3. unknown \in BOOLEAN
    BY DEF UnknownIdentity
  <2>4. simCalls' \in 0 .. MaxSimCalls /\ simFaults' \in 0 .. MaxSimFaults
    BY <1>1 DEF SimTypeOK
  <2> HIDE DEF unknown
  <2>5. CASE unknown
    <3>1. Abandon(FALSE, {App})
      <4>1. (~unknown) = FALSE /\ (IF unknown THEN {App} ELSE {}) = {App}
        BY <2>5
      <4>2. QED
        BY <2>1, <4>1
    <3>2. QED
      BY <1>1, <1>3, <2>2, <2>4, <2>5, <3>1, AbandonKeeps
  <2>6. CASE ~unknown
    <3>1. Abandon(TRUE, {})
      <4>1. (~unknown) = TRUE /\ (IF unknown THEN {App} ELSE {}) = {}
        BY <2>6
      <4>2. QED
        BY <2>1, <4>1
    <3>2. QED
      BY <1>1, <2>4, <3>1, AbandonKeeps
  <2>7. QED
    BY <2>5, <2>6
<1>5. CASE content = "text"
  <2> DEFINE r == [access EXCEPT
                     !.got = Append(access.got, <<App, access.file>>),
                     !.at = IF access.file = "public" THEN "close" ELSE "read",
                     !.file = IF access.file = "public" THEN access.file
                                ELSE NextFile[access.file]]
  <2>1. access' = r
    BY <1>5 DEF ReadFile
  <2>2. /\ r \in Readings /\ r.call = access.call /\ r.channel = access.channel
        /\ r.at = IF access.file = "public" THEN "close" ELSE "read"
        /\ r.got = Append(access.got, <<App, access.file>>)
        /\ access.file = "private" => r.file = "domain"
        /\ access.file = "domain" => r.file = "public"
    <3>1. Append(access.got, <<App, access.file>>) \in Seq(Aids \X Files)
      BY <1>2, <1>3 DEF Readings
    <3>2. /\ access.file = "private" => NextFile[access.file] = "domain"
          /\ access.file = "domain" => NextFile[access.file] = "public"
      BY DEF NextFile
    <3>3. (IF access.file = "public" THEN access.file ELSE NextFile[access.file]) \in Files
      BY <1>2, <3>2 DEF Files
    <3>4. QED
      BY <1>2, <3>1, <3>2, <3>3 DEF Readings
  <2> HIDE DEF r
  <2>3. IsText(App, access.file)
    BY <1>5 DEF IsText
  <2>4. ReadingFits(r, App)
    <3>1. CASE access.file = "private"
      <4>1. access.got = << >>
        BY <1>1, <1>2, <3>1 DEF ReadingFits
      <4>2. r.got = <<<<App, "private">>>>
        BY <2>2, <3>1, <4>1
      <4>3. QED
        BY <1>1, <2>2, <2>3, <3>1, <4>2 DEF ReadingFits
    <3>2. CASE access.file = "domain"
      <4>1. access.got = <<<<App, "private">>>> /\ IsText(App, "private")
        BY <1>1, <1>2, <3>2 DEF ReadingFits
      <4>2. r.got = <<<<App, "private">>, <<App, "domain">>>>
        BY <2>2, <3>2, <4>1, Appended
      <4>3. QED
        BY <1>1, <2>2, <2>3, <3>2, <4>1, <4>2 DEF ReadingFits
    <3>3. CASE access.file = "public"
      <4>1. /\ access.got = <<<<App, "private">>, <<App, "domain">>>>
            /\ IsText(App, "private") /\ IsText(App, "domain")
        BY <1>1, <1>2, <3>3 DEF ReadingFits
      <4>2. r.got = <<<<App, "private">>, <<App, "domain">>, <<App, "public">>>>
        BY <2>2, <3>3, <4>1, Appended
      <4>3. QED
        BY <1>1, <2>2, <2>3, <3>3, <4>1, <4>2 DEF ReadingFits
    <3>4. QED
      BY <1>2, <3>1, <3>2, <3>3 DEF Files
  <2>5. App = Head(r.call.aids)
    BY <2>2 DEF App, Call
  <2>6. access' \in Readings' /\ AccessFits' /\ access'.at \in {"read", "close"}
    BY <1>1, <1>2, <2>1, <2>2, <2>4, <2>5, ReadingIsNext
  <2>7. SimTypeOK'
    BY <1>1, <2>6, RestIsTyped DEF SimTypeOK
  <2>8. ChannelsAreKnown'
    BY <1>1, <2>1, <2>2, <2>6 DEF ChannelsAreKnown
  <2>9. QED
    BY <1>1, <2>6, <2>7, <2>8, AnswersStay DEF SimInv
<1>6. QED
  BY <1>4, <1>5

LEMMA AuthenticateKeeps ==
  ASSUME SimInv, Authenticate
  PROVE  SimInv'
<1>1. /\ SimTypeOK /\ AccessFits /\ ChannelsAreKnown /\ AnswersAreOfOneSource
      /\ access.at = "read" /\ access.call.kind = "aka"
      /\ access' = [at |-> "abandon", channel |-> access.channel, call |-> access.call,
                    answered |-> TRUE]
      /\ UNCHANGED <<card, channels, given, lost, simCalls, simFaults>>
  BY DEF SimInv, Authenticate, Call
<1>2. /\ access \in Readings /\ access.call \in SimCalls /\ access.channel \in SimChannels
      /\ access.call.at = "open" /\ CallFits(access.call)
  BY <1>1, WhichAccess DEF AccessFits, Readings
<1>3. /\ access' \in Leavings' /\ AccessFits' /\ access'.at = "abandon"
      /\ access'.channel = access.channel
  BY <1>1, <1>2, LeavingIsNext
<1>4. SimTypeOK'
  BY <1>1, <1>3, RestIsTyped DEF SimTypeOK
<1>5. ChannelsAreKnown'
  BY <1>1, <1>3 DEF ChannelsAreKnown
<1>6. QED
  BY <1>1, <1>3, <1>4, <1>5, AnswersStay DEF SimInv

LEMMA FailureKeeps ==
  ASSUME SimInv, CommandFails \/ \E done \in BOOLEAN : CloseFails(done)
  PROVE  SimInv'
<1>1. /\ SimTypeOK /\ access.at \in {"read", "close"} /\ SimFault /\ Abandon(TRUE, {})
      /\ UNCHANGED <<card, given, lost, simCalls>> /\ channels' \subseteq channels
  BY DEF SimInv, CommandFails, CloseFails
<1>2. simCalls' \in 0 .. MaxSimCalls /\ simFaults' \in 0 .. MaxSimFaults
  BY <1>1, FaultCounts DEF SimTypeOK
<1>3. QED
  BY <1>1, <1>2, AbandonKeeps

LEMMA CloseKeeps ==
  ASSUME SimInv, Close
  PROVE  SimInv'
<1> DEFINE answer == [source |-> "isim", of |-> access.got]
<1>1. /\ SimTypeOK /\ AccessFits /\ ChannelsAreKnown /\ AnswersAreOfOneSource
      /\ access.at = "close" /\ channels' = channels \ {access.channel}
      /\ given' = given \cup {answer} /\ access' = NoAccess
      /\ UNCHANGED <<card, lost, simCalls, simFaults>>
  BY DEF SimInv, Close
<1>2. /\ access.call.at = "open" /\ CallFits(access.call) /\ ReadingFits(access, App)
      /\ access.call \in SimCalls
  BY <1>1, WhichAccess DEF AccessFits, Readings
<1>3. /\ access.call.kind = "identity"
      /\ IsText(App, "private") /\ IsText(App, "domain") /\ IsText(App, "public")
      /\ access.got = <<<<App, "private">>, <<App, "domain">>, <<App, "public">>>>
  BY <1>1, <1>2, CallFields DEF ReadingFits
<1>4. App \in Aids
  BY <1>2, <1>3, OneIsTried DEF App, Call
<1>5. answer.source = "isim" /\ answer.of = access.got
  OBVIOUS
<1> HIDE DEF answer
<1>6. AnswersAreOfOneSource'
  <2>1. \A f \in Files : card.files[App][f] = "text"
    BY <1>3 DEF IsText, Files
  <2>2. PICK a \in Aids : a = App
    BY <1>4
  <2>3. QED
    BY <1>1, <1>3, <1>5, <2>1, <2>2 DEF AnswersAreOfOneSource
<1>7. AccessFits' /\ access'.at = "idle"
  BY <1>1, NoneIsNext
<1>8. SimTypeOK'
  BY <1>1, RestIsTyped DEF SimTypeOK
<1>9. ChannelsAreKnown'
  BY <1>1, <1>7 DEF ChannelsAreKnown
<1>10. QED
  BY <1>6, <1>7, <1>8, <1>9 DEF SimInv

LEMMA DeferredKeeps ==
  ASSUME SimInv, DeferredClose \/ DeferredCloseFails
  PROVE  SimInv'
<1>1. /\ SimTypeOK /\ AccessFits /\ ChannelsAreKnown /\ AnswersAreOfOneSource
      /\ access.at = "abandon" /\ given' = given \cup AkaAnswer /\ access' = Resumed
      /\ UNCHANGED <<card, simCalls>>
  BY DEF SimInv, DeferredClose, DeferredCloseFails
<1>2. /\ access.call \in SimCalls /\ access.channel \in SimChannels
      /\ access.call.at = "open" /\ CallFits(access.call)
      /\ access.call.kind = "identity" /\ ~access.call.failed =>
           App \in access.call.unprovisioned
  BY <1>1, WhichAccess DEF AccessFits, Leavings
<1>3. /\ channels' \subseteq lost' /\ lost' \subseteq SimChannels
      /\ channels' \subseteq SimChannels /\ simFaults' \in 0 .. MaxSimFaults
  <2>1. channels \subseteq lost \cup {access.channel}
    BY <1>1 DEF ChannelsAreKnown
  <2>2. CASE DeferredClose
    BY <1>1, <2>1, <2>2 DEF DeferredClose, Closed, SimTypeOK
  <2>3. CASE DeferredCloseFails
    BY <1>1, <1>2, <2>1, <2>3, FaultCounts DEF DeferredCloseFails, SimTypeOK
  <2>4. QED
    BY <2>2, <2>3
<1>4. /\ access' = NoAccess \/ access' \in SimCalls
      /\ AccessFits' /\ access'.at \in {"idle", "open", "answer"}
  <2>1. CASE access.call.kind = "aka"
    BY <1>1, <2>1, NoneIsNext DEF Resumed, Call
  <2>2. CASE access.call.kind # "aka"
    <3>1. access' = NextCandidate(access.call, FALSE, {})
      BY <1>1, <2>2 DEF Resumed, Call
    <3>2. access.call.aids # << >>
      BY <1>2, OneIsTried
    <3>3. NextCandidate(access.call, FALSE, {}) \in SimCalls
      BY <1>2, <3>2, NextIsTyped
    <3>4. CallFits(NextCandidate(access.call, FALSE, {}))
      BY <1>2, NextFits DEF App, Call
    <3>5. QED
      BY <1>1, <3>1, <3>3, <3>4, CallIsNext, CallFields
  <2>3. QED
    BY <2>1, <2>2
<1>5. SimTypeOK'
  BY <1>1, <1>3, <1>4, RestIsTyped DEF SimTypeOK
<1>6. ChannelsAreKnown'
  BY <1>3, <1>4 DEF ChannelsAreKnown
<1>7. AnswersAreOfOneSource'
  <2>1. \A g \in given' : g \in given \/ g.source = "usim"
    BY <1>1 DEF AkaAnswer
  <2>2. QED
    BY <1>1, <2>1, AnswersStay
<1>8. QED
  BY <1>4, <1>5, <1>6, <1>7 DEF SimInv

LEMMA AnswerKeeps ==
  ASSUME SimInv, AnswerDerived
  PROVE  SimInv'
<1> DEFINE answer == [source |-> "derived",
                      of |-> <<access.unprovisioned, access.refused>>]
<1>1. /\ SimTypeOK /\ AccessFits /\ ChannelsAreKnown /\ AnswersAreOfOneSource
      /\ access.at = "answer" /\ access' = NoAccess
      /\ given' = IF access.failed \/ access.kind = "aka" THEN given ELSE given \cup {answer}
      /\ UNCHANGED <<card, channels, lost, simCalls, simFaults>>
  BY DEF SimInv, AnswerDerived
<1>2. access \in SimCalls /\ CallFits(access)
  BY <1>1, WhichAccess DEF AccessFits
<1>3. /\ answer.source = "derived" /\ answer.of[1] = access.unprovisioned
      /\ answer.of[2] = access.refused
  OBVIOUS
<1> HIDE DEF answer
<1>4. AnswersAreOfOneSource'
  <2>1. CASE access.failed \/ access.kind = "aka"
    BY <1>1, <2>1, AnswersStay
  <2>2. CASE ~access.failed /\ access.kind # "aka"
    <3>1. access.kind = "identity" /\ access.aids = << >>
      BY <1>1, <1>2, <2>2, CallFields DEF CallFits
    <3>2. Tried(access) = {}
      BY <3>1 DEF Tried
    <3>3. /\ \A a \in answer.of[1] : card.files[a]["private"] = "padding"
          /\ card.directory = "listed" => card.applications \subseteq answer.of[1] \cup answer.of[2]
      BY <1>2, <1>3, <2>2, <3>1, <3>2 DEF CallFits
    <3>4. QED
      BY <1>1, <1>3, <2>2, <3>3 DEF AnswersAreOfOneSource
  <2>3. QED
    BY <2>1, <2>2
<1>5. AccessFits' /\ access'.at = "idle"
  BY <1>1, NoneIsNext
<1>6. SimTypeOK'
  BY <1>1, RestIsTyped DEF SimTypeOK
<1>7. ChannelsAreKnown'
  BY <1>1, <1>5 DEF ChannelsAreKnown
<1>8. QED
  BY <1>4, <1>5, <1>6, <1>7 DEF SimInv

LEMMA SimStaysSafe == SimInv /\ [SimNext]_simVars => SimInv'
<1> SUFFICES ASSUME SimInv, [SimNext]_simVars PROVE SimInv'
  OBVIOUS
<1>1. ASSUME NEW aids \in Candidates, BeginAccess("identity", aids) PROVE SimInv'
  <2>1. card \in Cards
    BY DEF SimInv, SimTypeOK
  <2>2. /\ aids \in Seq(Aids \cup {Usim})
        /\ {aids[i] : i \in DOMAIN aids} \subseteq Aids
        /\ card.directory = "listed" => card.applications \subseteq {aids[i] : i \in DOMAIN aids}
    BY <1>1, <2>1, CandidatesAreAll
  <2>3. QED
    BY <1>1, <2>2, BeginKeeps
<1>2. ASSUME BeginAccess("aka", <<Usim>>) PROVE SimInv'
  <2>1. <<Usim>> \in Seq(Aids \cup {Usim})
    OBVIOUS
  <2>2. QED
    BY <1>2, <2>1, BeginKeeps
<1>3. ASSUME UNCHANGED simVars PROVE SimInv'
  <2>1. /\ card' = card /\ channels' = channels /\ access' = access /\ given' = given
        /\ lost' = lost /\ simCalls' = simCalls /\ simFaults' = simFaults
    BY <1>3 DEF simVars
  <2>2. SimTypeOK'
    BY <2>1 DEF SimInv, SimTypeOK, SimChannels, Readings, Leavings
  <2>3. AccessFits'
    BY <2>1 DEF SimInv, AccessFits, CallFits, ReadingFits, IsText, Tried, App, Call
  <2>4. ChannelsAreKnown' /\ AnswersAreOfOneSource'
    BY <2>1 DEF SimInv, ChannelsAreKnown, AnswersAreOfOneSource
  <2>5. QED
    BY <2>2, <2>3, <2>4 DEF SimInv
<1>4. QED
  BY <1>1, <1>2, <1>3, CheckFailsKeeps, OpenKeeps, OpenRefusedKeeps, OpenFailsKeeps,
     ReadFileKeeps, AuthenticateKeeps, FailureKeeps, CloseKeeps, DeferredKeeps, AnswerKeeps
     DEF SimNext

(* Between calls no channel is open but the lost ones, and an answer is of *)
(* one source, for any cards, numbers of channels, calls and failures.     *)
THEOREM SimHolds == SimSpec => []SimIsSafe
<1>1. SimInit => SimInv
  <2> SUFFICES ASSUME SimInit PROVE SimInv
    OBVIOUS
  <2>1. SimTypeOK
    BY SimConstants DEF SimInit, SimTypeOK
  <2>2. AccessFits /\ ChannelsAreKnown /\ AnswersAreOfOneSource
    BY DEF SimInit, AccessFits, NoAccess, ChannelsAreKnown, AnswersAreOfOneSource
  <2>3. QED
    BY <2>1, <2>2 DEF SimInv
<1>2. SimInv => SimIsSafe
  BY DEF SimInv, SimIsSafe, ChannelsAreKnown, ChannelsAreClosed, NoAccess
<1>3. QED
  BY <1>1, <1>2, SimStaysSafe, PTL DEF SimSpec

-----------------------------------------------------------------------------
(* Conversations with a modem.                                             *)

(* What there is in a conversation: commands and lines of their answers,   *)
(* tasks on their way, what the driver says.                               *)
Whats == {"mode", "storage", "submit", "handshake", "identity", "calls"}
LineCommands == [n : 1 .. MaxTasks, what : Whats]
LineTexts == {"OK", "ERROR", ">", "+CPMS", "text", "+CLCC", "+CMGS"}
LineReadings == [of : LineCommands, line : LineTexts]
Sayings == {"none", "submitted", "refused", "not dispatched", "uncertain"}
LineTasks == [at : Steps \ {"resting"}, kind : {"probe", "send"}, n : 1 .. MaxTasks,
              next : 1 .. 3, got : Seq(LineReadings)]
LineModems == [of : LineCommands \cup {Quiet.of}, left : Seq(LineTexts),
            prompting : BOOLEAN, text : Seq(LineCommands)]

(* A task waits from its command on until the answer is taken.             *)
Active == task.at # "resting"
Waiting == task.at \in {"prompt", "answer", "answered", "rejected"}
Got == IF Active THEN task.got ELSE <<>>

(* The types of the state.                                                 *)
LineTyped ==
  /\ transport \in {"at", "tty", "bridge"}
  /\ holder \in {"nobody", "task", "ghost"} /\ crashed \in BOOLEAN
  /\ {settings, restores} \subseteq {"system", "raw"}
  /\ tasks \in 0 .. MaxTasks
  /\ task = Resting \/ task \in LineTasks
  /\ modem \in LineModems
  /\ typed \in Seq(LineCommands)
  /\ input \in Seq(LineReadings)
  /\ strays \subseteq [of : LineCommands, by : LineCommands]
  /\ accepted \subseteq 1 .. tasks
  /\ sayings \in [1 .. MaxTasks -> Sayings]

(* A task is the last that came; it has read nothing before it writes, and *)
(* what it waits for is not there yet.                                     *)
TaskFits ==
  Active =>
    /\ task.n = tasks
    /\ ~ Waiting => task.got = <<>>
    /\ task.at \in {"prompt", "rejected"} => Now.what = "submit"
    /\ task.at \in {"prompt", "answer"} => ~ Has(task.got, Finals)
    /\ task.at \in {"answered", "rejected"} => Has(task.got, Finals)

(* One bound for every command of the tasks so far. *)
TypedIsBounded ==
  Len(typed) <= IF Active THEN 3 * (tasks - 1) + (IF Waiting THEN task.next ELSE task.next - 1)
                          ELSE 3 * tasks

(* The terminal is raw only while a task has it, which knows how it was.   *)
TerminalFits ==
  /\ holder = "nobody" /\ ~ crashed => settings = "system"
  /\ holder = "task" /\ ~ crashed => restores = "system"
  /\ transport = "bridge" => settings = "system" /\ restores = "system"
  /\ holder = "ghost" => transport = "bridge"

(* The bridge has the line to itself.                                      *)
BridgeIsApart ==
  transport = "bridge" =>
    modem = Quiet /\ typed = <<>> /\ input = <<>> /\ ~ Waiting

(* What the modem has to say is the end of an answer; it is quiet when     *)
(* that is nothing, unless it waits for a text.                            *)
Replies == {<<>>, <<"OK">>, <<"ERROR">>, <<"+CPMS", "OK">>, <<"text", "OK">>,
            <<"+CLCC", "OK">>, <<">">>, <<"+CMGS", "OK">>}

ModemFits ==
  /\ modem.left \in Replies
  /\ modem.left = <<>> /\ ~ modem.prompting => modem = Quiet
  /\ modem # Quiet => modem.of \in LineCommands
  /\ modem.prompting => modem.left = <<>> /\ typed = <<>>

(* A prompt that is still to be read is the modem's, and the last it said. *)
PromptIsLast ==
  /\ \A i \in DOMAIN input : input[i].line = ">" => modem.prompting /\ i = Len(input)
  /\ \A i \in DOMAIN Got : Got[i].line = ">" =>
       modem.prompting /\ i = Len(Got) /\ input = <<>>

(* The reference of a message comes first of all there is to read, and is  *)
(* met by the message's own send alone, once that reads answers to "submit". *)
Referred == \/ \E i \in DOMAIN Got : Got[i].line = "+CMGS"
            \/ \E i \in DOMAIN input : input[i].line = "+CMGS"
            \/ modem.left = <<"+CMGS", "OK">>
ReferenceIsFirst ==
  /\ \A i \in DOMAIN Got : Got[i].line = "+CMGS" => i = 1
  /\ \A i \in DOMAIN input : input[i].line = "+CMGS" => i = 1 /\ Got = <<>>
  /\ modem.left = <<"+CMGS", "OK">> => input = <<>> /\ Got = <<>>
  /\ Active /\ task.kind = "send" /\ task.next > 1 /\ Referred =>
       task.next = 3 /\ task.at \in {"answer", "answered"} /\ task.n \in accepted

(* After a message was accepted there is nothing but its answer to come.   *)
Reply == <<"+CMGS", "OK">>
AcceptedIsAnswered ==
  Active /\ task.n \in accepted =>
    /\ task.kind = "send" /\ task.next = 3 /\ task.at \in {"answer", "answered"}
    /\ typed = <<>> /\ ~ modem.prompting
    /\ Len(task.got) + Len(input) + Len(modem.left) = 2
    /\ \A i \in DOMAIN task.got : task.got[i].line = Reply[i]
    /\ \A i \in DOMAIN input : input[i].line = Reply[Len(task.got) + i]
    /\ \A i \in DOMAIN modem.left : modem.left[i] = Reply[Len(task.got) + Len(input) + i]

(* Nothing is said of a message before its task is over, and then the truth. *)
SayingsFit ==
  /\ \A n \in 1 .. MaxTasks : n > tasks \/ (Active /\ n = task.n) => sayings[n] = "none"
  /\ SayingIsTrue

(* Commands of which something is still to come.                           *)
InTyped(c) == \E i \in DOMAIN typed : typed[i] = c
AtModem(c) == modem.of = c /\ modem # Quiet
InInput(c) == \E i \in DOMAIN input : input[i].of = c
InGot(c) == \E i \in DOMAIN Got : Got[i].of = c
Alive(c) == InTyped(c) \/ AtModem(c) \/ InInput(c) \/ InGot(c)

(* A command is typed once, and not while the modem works on it.           *)
TypedOnce ==
  /\ \A i, j \in DOMAIN typed : typed[i] = typed[j] => i = j
  /\ \A c \in LineCommands : AtModem(c) => ~ InTyped(c)

(* Nothing more comes of a command after its terminal line.                *)
TerminalIsLast ==
  /\ \A i \in DOMAIN input : ~ InTyped(input[i].of)
  /\ \A i \in DOMAIN Got : ~ InTyped(Got[i].of)
  /\ \A i \in DOMAIN input : input[i].line \in Finals =>
       /\ ~ AtModem(input[i].of)
       /\ \A j \in DOMAIN input : j > i => input[j].of # input[i].of
  /\ \A i \in DOMAIN Got : Got[i].line \in Finals =>
       /\ ~ AtModem(Got[i].of) /\ ~ InInput(Got[i].of)

(* The commands alive are of tasks that came, and of this one's only those *)
(* it has written.                                                         *)
WrittenAreAlive ==
  \A c \in LineCommands : Alive(c) =>
    /\ c.n <= tasks
    /\ Active /\ c.n = task.n =>
         \E k \in 1 .. 3 : /\ c.what = Script(task.kind)[k]
                           /\ k < task.next \/ (k = task.next /\ Waiting)

(* Of every command of which something is still to come, but the one that  *)
(* is waited for, it is known why.                                         *)
Excused(c) == c \in givenUp \/ \E s \in strays : s.by = c
ForgottenAreExcused ==
  /\ \A c \in LineCommands : Alive(c) => Excused(c) \/ (Waiting /\ c = Now)
  /\ StraysWereGivenUp

(* The inductive invariant behind LineIsSafe.                              *)
LineInv == /\ LineTyped /\ TaskFits /\ TypedIsBounded /\ TerminalFits /\ BridgeIsApart
           /\ ModemFits /\ PromptIsLast /\ ReferenceIsFirst /\ AcceptedIsAnswered
           /\ SayingsFit /\ TypedOnce /\ TerminalIsLast /\ WrittenAreAlive
           /\ ForgottenAreExcused

-----------------------------------------------------------------------------
LEMMA LineConstants == MaxTasks \in Nat
BY LineAssumption DEF LineAssumption

(* What is left of a sequence, and what a read adds to another.            *)
LEMMA CutAfter ==
  ASSUME NEW S, NEW s \in Seq(S), NEW k \in 1 .. Len(s)
  PROVE  /\ SubSeq(s, k + 1, Len(s)) \in Seq(S)
         /\ Len(SubSeq(s, k + 1, Len(s))) = Len(s) - k
         /\ \A i \in DOMAIN SubSeq(s, k + 1, Len(s)) :
              SubSeq(s, k + 1, Len(s))[i] = s[k + i] /\ k + i \in DOMAIN s
OBVIOUS

LEMMA ReadOn ==
  ASSUME NEW S, NEW g \in Seq(S), NEW s \in Seq(S), NEW k \in 1 .. Len(s)
  PROVE  /\ g \o SubSeq(s, 1, k) \in Seq(S)
         /\ Len(g \o SubSeq(s, 1, k)) = Len(g) + k
         /\ \A i \in DOMAIN g : (g \o SubSeq(s, 1, k))[i] = g[i]
         /\ \A i \in 1 .. k : (g \o SubSeq(s, 1, k))[Len(g) + i] = s[i]
         /\ \A i \in DOMAIN (g \o SubSeq(s, 1, k)) :
              i \in DOMAIN g \/ (i - Len(g) \in 1 .. k /\ i - Len(g) \in DOMAIN s)
<1> DEFINE t == SubSeq(s, 1, k)
<1>1. t \in Seq(S) /\ Len(t) = k /\ \A i \in 1 .. k : t[i] = s[i]
  OBVIOUS
<1> HIDE DEF t
<1>2. /\ g \o t \in Seq(S) /\ Len(g \o t) = Len(g) + k
      /\ \A i \in DOMAIN g : (g \o t)[i] = g[i]
      /\ \A i \in 1 .. k : (g \o t)[Len(g) + i] = t[i]
      /\ \A i \in DOMAIN (g \o t) : i \in DOMAIN g \/ i - Len(g) \in 1 .. k
  BY <1>1
<1> QED
  BY <1>1, <1>2 DEF t

LEMMA TailOf ==
  ASSUME NEW S, NEW s \in Seq(S), s # <<>>
  PROVE  /\ Tail(s) \in Seq(S) /\ Len(Tail(s)) = Len(s) - 1
         /\ Head(s) = s[1] /\ Head(s) \in S /\ 1 \in DOMAIN s
         /\ \A i \in DOMAIN Tail(s) : Tail(s)[i] = s[i + 1] /\ i + 1 \in DOMAIN s
OBVIOUS

LEMMA AppendedTo ==
  ASSUME NEW S, NEW s \in Seq(S), NEW e \in S
  PROVE  /\ Append(s, e) \in Seq(S) /\ Len(Append(s, e)) = Len(s) + 1
         /\ \A i \in DOMAIN s : Append(s, e)[i] = s[i] /\ i \in DOMAIN Append(s, e)
         /\ Append(s, e)[Len(s) + 1] = e
         /\ \A i \in DOMAIN Append(s, e) : i \in DOMAIN s \/ i = Len(s) + 1
OBVIOUS

(* The command a task is at, and that its script names each once.          *)
LEMMA ScriptOfKind ==
  /\ Script("send")[1] = "mode" /\ Script("send")[2] = "storage"
  /\ Script("send")[3] = "submit"
  /\ Script("probe")[1] = "handshake" /\ Script("probe")[2] = "identity"
  /\ Script("probe")[3] = "calls"
BY DEF Script

LEMMA NowIsCommand ==
  ASSUME LineTyped, Active
  PROVE  /\ task \in LineTasks /\ Now \in LineCommands
         /\ Now.n = task.n /\ Now.what = Script(task.kind)[task.next]
         /\ Got = task.got /\ Got \in Seq(LineReadings)
         /\ Now.what = "submit" <=> task.kind = "send" /\ task.next = 3
         /\ Now.what = "mode" <=> task.kind = "send" /\ task.next = 1
         /\ Now.what = "storage" <=> task.kind = "send" /\ task.next = 2
         /\ Now.what = "handshake" <=> task.kind = "probe" /\ task.next = 1
         /\ Now.what = "identity" <=> task.kind = "probe" /\ task.next = 2
         /\ Now.what = "calls" <=> task.kind = "probe" /\ task.next = 3
<1>1. task \in LineTasks /\ Got = task.got
  BY DEF LineTyped, Active, Resting, Got
<1>2. task.next \in {1, 2, 3} /\ task.kind \in {"probe", "send"} /\ task.n \in 1 .. MaxTasks
      /\ task.got \in Seq(LineReadings)
  BY <1>1 DEF LineTasks
<1>3. Script(task.kind)[task.next] \in Whats
  BY <1>2, ScriptOfKind DEF Whats
<1>4. Now \in LineCommands /\ Now.n = task.n /\ Now.what = Script(task.kind)[task.next]
  BY <1>2, <1>3 DEF Now, LineCommands
<1> QED
  BY <1>1, <1>2, <1>4, ScriptOfKind

LEMMA GotTyped ==
  ASSUME LineTyped
  PROVE  Got \in Seq(LineReadings)
BY NowIsCommand DEF Got

(* What a task has yet to write is not there yet.                          *)
LEMMA NowIsNew ==
  ASSUME LineTyped, WrittenAreAlive, Active, ~ Waiting
  PROVE  ~ Alive(Now)
<1> SUFFICES ASSUME Alive(Now) PROVE FALSE
  OBVIOUS
<1>1. PICK k \in 1 .. 3 : Now.what = Script(task.kind)[k] /\ k < task.next
  BY NowIsCommand DEF WrittenAreAlive
<1>2. task.next \in {1, 2, 3} /\ task.kind \in {"probe", "send"}
      /\ Script(task.kind)[k] = Script(task.kind)[task.next]
  BY <1>1, NowIsCommand DEF LineTasks
<1> QED
  BY <1>1, <1>2, ScriptOfKind

(* What the modem has and is to say.                                       *)
SerialInv == /\ ModemFits /\ PromptIsLast /\ ReferenceIsFirst /\ AcceptedIsAnswered
             /\ TypedOnce /\ TerminalIsLast /\ WrittenAreAlive

(* A step after which nothing is read any more, and that leaves the line   *)
(* alone.                                                                  *)
LEMMA SilentKeeps ==
  ASSUME LineInv, UNCHANGED serial, Got' = <<>>, tasks' >= tasks, tasks' \in Nat,
         accepted \subseteq accepted',
         Active' => /\ task' \in LineTasks
                    /\ task.n' \notin accepted'
                    /\ task.kind' = "send" /\ task.next' > 1 => ~ Referred'
                    /\ \/ task.n' > tasks
                       \/ /\ Active /\ task.n' = task.n /\ task.kind' = task.kind
                          /\ task.next' >= task.next
                          /\ task.next' = task.next => (Waiting => Waiting')
  PROVE  SerialInv'
<1>1. /\ DOMAIN Got' = {}
      /\ \A c : ~ InGot(c)' /\ (InTyped(c)' <=> InTyped(c))
                /\ (AtModem(c)' <=> AtModem(c)) /\ (InInput(c)' <=> InInput(c))
                /\ (Alive(c)' => Alive(c))
  BY DEF serial, InTyped, AtModem, InInput, InGot, Alive
<1>2. ModemFits' /\ PromptIsLast'
  BY <1>1 DEF LineInv, ModemFits, PromptIsLast, serial
<1>3. ReferenceIsFirst'
  BY <1>1 DEF LineInv, ReferenceIsFirst, serial
<1>4. AcceptedIsAnswered'
  BY DEF AcceptedIsAnswered
<1>5. TypedOnce' /\ TerminalIsLast'
  BY <1>1 DEF LineInv, TypedOnce, TerminalIsLast, serial
<1>6. WrittenAreAlive'
  <2> SUFFICES ASSUME NEW c \in LineCommands, Alive(c)'
               PROVE  /\ c.n <= tasks'
                      /\ Active' /\ c.n = task.n' =>
                           \E k \in 1 .. 3 : /\ c.what = Script(task.kind')[k]
                                             /\ k < task.next' \/ (k = task.next' /\ Waiting')
    BY DEF WrittenAreAlive
  <2>1. c.n \in Nat /\ tasks \in Nat /\ c.n <= tasks /\ Alive(c)
    BY <1>1, LineConstants DEF LineInv, WrittenAreAlive, LineCommands, LineTyped
  <2>2. c.n <= tasks'
    BY <2>1
  <2>3. ASSUME Active', c.n = task.n'
        PROVE  \E k \in 1 .. 3 : /\ c.what = Script(task.kind')[k]
                                 /\ k < task.next' \/ (k = task.next' /\ Waiting')
    <3>1. Active /\ task.n' = task.n /\ task.kind' = task.kind /\ task.next' >= task.next
          /\ (task.next' = task.next => (Waiting => Waiting'))
      BY <2>1, <2>3
    <3>2. PICK k \in 1 .. 3 : /\ c.what = Script(task.kind)[k]
                              /\ k < task.next \/ (k = task.next /\ Waiting)
      BY <2>1, <2>3, <3>1 DEF LineInv, WrittenAreAlive
    <3>3. task.next \in 1 .. 3 /\ task.next' \in 1 .. 3
      BY <2>3, <3>1, NowIsCommand DEF LineInv, LineTasks
    <3> QED
      BY <3>1, <3>2, <3>3
  <2> QED
    BY <2>2, <2>3
<1> QED
  BY <1>2, <1>3, <1>4, <1>5, <1>6 DEF SerialInv

(* Whoever is excused stays so.                                            *)
LEMMA ExcusesStay ==
  ASSUME LineInv, givenUp \subseteq givenUp', strays \subseteq strays',
         \A s \in strays' : s \in strays \/ Excused(s.of)',
         \A c \in LineCommands : Alive(c)' =>
           Alive(c) \/ (Waiting' /\ c = Now'),
         \A c \in LineCommands : Alive(c)' /\ Waiting /\ c = Now =>
           Excused(c)' \/ (Waiting' /\ c = Now')
  PROVE  ForgottenAreExcused'
<1>1. \A c : Excused(c) => Excused(c)'
  BY DEF Excused
<1>2. \A c \in LineCommands : Alive(c)' => Excused(c)' \/ (Waiting' /\ c = Now')
  BY <1>1 DEF LineInv, ForgottenAreExcused
<1>3. \A s \in strays' : Excused(s.of)'
  BY <1>1 DEF LineInv, ForgottenAreExcused, StraysWereGivenUp, Excused
<1> QED
  BY <1>2, <1>3 DEF ForgottenAreExcused, StraysWereGivenUp, Excused

(* Steps of which the serial line knows nothing, and those that end a task *)
(* or bring it to its next command.                                        *)
LEMMA LineStart ==
  ASSUME LineInit
  PROVE  LineInv
<1> USE LineConstants DEF LineInit, Resting, Quiet
<1>1. ~ Active /\ Got = <<>> /\ ~ Waiting
  BY DEF Active, Got, Waiting
<1>2. \A c : ~ Alive(c)
  BY <1>1 DEF Alive, InTyped, AtModem, InInput, InGot
<1>3. LineTyped
  <2>1. modem \in LineModems
    BY DEF LineModems
  <2>2. sayings \in [1 .. MaxTasks -> Sayings]
    BY DEF Sayings
  <2>3. typed \in Seq(LineCommands) /\ input \in Seq(LineReadings)
    OBVIOUS
  <2>4. tasks \in 0 .. MaxTasks /\ accepted \subseteq 1 .. tasks
    OBVIOUS
  <2> QED
    BY <2>1, <2>2, <2>3, <2>4 DEF LineTyped
<1>4. TaskFits /\ TypedIsBounded /\ TerminalFits /\ BridgeIsApart
  BY <1>1 DEF TaskFits, TypedIsBounded, TerminalFits, BridgeIsApart
<1>5. ModemFits
  BY DEF ModemFits, Replies
<1>6. PromptIsLast /\ ReferenceIsFirst /\ AcceptedIsAnswered
  BY <1>1 DEF PromptIsLast, ReferenceIsFirst, AcceptedIsAnswered
<1>7. SayingsFit
  BY <1>1 DEF SayingsFit, SayingIsTrue
<1>8. TypedOnce /\ TerminalIsLast /\ WrittenAreAlive
  <2>1. DOMAIN typed = {} /\ DOMAIN input = {} /\ DOMAIN Got = {}
    BY <1>1
  <2>2. \A c : ~ AtModem(c)
    BY DEF AtModem
  <2> QED
    BY <1>2, <2>1, <2>2 DEF TypedOnce, TerminalIsLast, WrittenAreAlive
<1>9. ForgottenAreExcused
  BY <1>2 DEF ForgottenAreExcused, StraysWereGivenUp
<1> QED
  BY <1>3, <1>4, <1>5, <1>6, <1>7, <1>8, <1>9 DEF LineInv

LEMMA LineNumbers ==
  ASSUME LineInv
  PROVE  /\ MaxTasks \in Nat /\ tasks \in Nat /\ tasks <= MaxTasks
         /\ accepted \subseteq 1 .. tasks /\ sayings \in [1 .. MaxTasks -> Sayings]
         /\ typed \in Seq(LineCommands) /\ Len(typed) \in Nat
         /\ input \in Seq(LineReadings) /\ Got \in Seq(LineReadings)
         /\ modem \in LineModems
<1>1. MaxTasks \in Nat /\ LineTyped
  BY LineConstants DEF LineInv
<1>2. tasks \in 0 .. MaxTasks
  BY <1>1 DEF LineTyped
<1>3. typed \in Seq(LineCommands) /\ input \in Seq(LineReadings) /\ Got \in Seq(LineReadings)
      /\ modem \in LineModems /\ accepted \subseteq 1 .. tasks
      /\ sayings \in [1 .. MaxTasks -> Sayings]
  BY <1>1, GotTyped DEF LineTyped
<1> QED
  BY <1>1, <1>2, <1>3

LEMMA TaskNumbers ==
  ASSUME LineInv, Active
  PROVE  /\ task \in LineTasks /\ task.n = tasks /\ task.n \in 1 .. MaxTasks
         /\ task.next \in 1 .. 3 /\ task.at \in Steps /\ task.kind \in {"probe", "send"}
         /\ Got = task.got /\ Now \in LineCommands
<1>1. LineTyped /\ TaskFits
  BY DEF LineInv
<1>2. task \in LineTasks /\ Got = task.got /\ Now \in LineCommands
  BY <1>1, NowIsCommand
<1> QED
  BY <1>1, <1>2 DEF LineTasks, TaskFits

LEMMA NothingComes ==
  ASSUME UNCHANGED serial, Got' = <<>>
  PROVE  \A c : Alive(c)' => Alive(c)
<1>1. UNCHANGED <<modem, typed, input>>
  BY DEF serial
<1>2. \A c : ~ InGot(c)'
  BY DEF InGot
<1>3. \A c : /\ InTyped(c)' <=> InTyped(c)
             /\ AtModem(c)' <=> AtModem(c)
             /\ InInput(c)' <=> InInput(c)
  BY <1>1 DEF InTyped, AtModem, InInput
<1> QED
  BY <1>2, <1>3 DEF Alive

LEMMA PortClosed ==
  ASSUME LineInv, ClosePort, crashed' = crashed, transport' = transport
  PROVE  /\ TerminalFits' /\ holder' \in {"nobody", "task", "ghost"}
         /\ {settings', restores'} \subseteq {"system", "raw"}
BY DEF LineInv, LineTyped, TerminalFits, ClosePort, terminal

(* What is said of the task's message is so once the step is over.         *)
IsTrueOfTask(said) ==
  task.kind = "send" =>
    /\ said = "submitted" => task.n \in accepted'
    /\ said \in {"not dispatched", "refused"} => task.n \notin accepted'

(* The end of a task, of whose message something true is said.             *)
LEMMA FinishEnds ==
  ASSUME LineInv, Active, NEW said \in Sayings, Finish(said),
         accepted' = accepted \/ accepted' = accepted \cup {task.n},
         IsTrueOfTask(said),
         Len(typed') = Len(typed), UNCHANGED <<transport, tasks, crashed>>
  PROVE  /\ task' = Resting /\ ~ Active' /\ ~ Waiting' /\ Got' = <<>>
         /\ TaskFits' /\ TypedIsBounded' /\ TerminalFits' /\ SayingsFit'
         /\ holder' \in {"nobody", "task", "ghost"}
         /\ {settings', restores'} \subseteq {"system", "raw"}
         /\ accepted' \subseteq 1 .. tasks'
         /\ sayings' \in [1 .. MaxTasks -> Sayings]
<1>1. task' = Resting /\ ~ Active' /\ ~ Waiting' /\ Got' = <<>>
  BY DEF Finish, Resting, Active, Waiting, Got
<1>2. TaskFits'
  BY <1>1 DEF TaskFits
<1>3. tasks \in Nat /\ MaxTasks \in Nat /\ task.n = tasks /\ task.n \in 1 .. MaxTasks
      /\ task.next \in 1 .. 3 /\ accepted \subseteq 1 .. tasks
      /\ sayings \in [1 .. MaxTasks -> Sayings] /\ typed \in Seq(LineCommands)
  BY LineNumbers, TaskNumbers
<1>4. TypedIsBounded'
  <2>1. Len(typed) \in Nat /\ Len(typed) <= 3 * (tasks - 1) + (IF Waiting THEN task.next ELSE task.next - 1)
    BY <1>3 DEF LineInv, TypedIsBounded
  <2>2. Len(typed) <= 3 * tasks
    BY <1>3, <2>1
  <2> QED
    BY <1>1, <2>2 DEF TypedIsBounded
<1>5. TerminalFits' /\ holder' \in {"nobody", "task", "ghost"}
      /\ {settings', restores'} \subseteq {"system", "raw"}
  BY PortClosed DEF Finish
<1>6. accepted' \subseteq 1 .. tasks'
  <2>1. task.n \in 1 .. tasks /\ tasks' = tasks
    BY <1>3
  <2> QED
    BY <1>3, <2>1
<1>7. sayings' \in [1 .. MaxTasks -> Sayings]
  BY <1>3 DEF Finish
<1>8. SayingsFit'
  <2>1. \A n \in 1 .. MaxTasks : n >= task.n => sayings[n] = "none"
    BY <1>3 DEF LineInv, SayingsFit
  <2>2. \A n \in 1 .. MaxTasks : n # task.n =>
          sayings'[n] = sayings[n] /\ (n \in accepted' <=> n \in accepted)
    BY <1>3 DEF Finish
  <2>3. sayings'[task.n] = IF task.kind = "send" THEN said ELSE "none"
    BY <1>3, <2>1 DEF Finish
  <2>4. \A n \in 1 .. MaxTasks : n > tasks' \/ (Active' /\ n = task.n') => sayings'[n] = "none"
    BY <1>1, <1>3, <2>1, <2>2
  <2>5. SayingIsTrue'
    <3> SUFFICES ASSUME NEW n \in 1 .. MaxTasks
                 PROVE  /\ sayings'[n] = "submitted" => n \in accepted'
                        /\ sayings'[n] \in {"not dispatched", "refused"} => n \notin accepted'
      BY DEF SayingIsTrue
    <3>1. CASE n = task.n
      BY <2>3, <3>1 DEF IsTrueOfTask
    <3>2. CASE n # task.n
      BY <2>2, <3>2 DEF LineInv, SayingsFit, SayingIsTrue
    <3> QED
      BY <3>1, <3>2
  <2> QED
    BY <2>4, <2>5 DEF SayingsFit
<1> QED
  BY <1>1, <1>2, <1>4, <1>5, <1>6, <1>7, <1>8

(* The way to the next command.                                            *)
LEMMA ContinueGoesOn ==
  ASSUME LineInv, Active, task.next < 3, Continue,
         accepted' = accepted, Len(typed') = Len(typed),
         UNCHANGED <<transport, tasks, crashed>>
  PROVE  /\ task' \in LineTasks /\ Active' /\ ~ Waiting' /\ Got' = <<>>
         /\ task.n' = task.n /\ task.kind' = task.kind /\ task.next' = task.next + 1
         /\ TaskFits' /\ TypedIsBounded' /\ TerminalFits' /\ SayingsFit'
         /\ holder' \in {"nobody", "task", "ghost"}
         /\ {settings', restores'} \subseteq {"system", "raw"}
         /\ sayings' = sayings
<1>1. /\ task \in LineTasks /\ tasks \in Nat /\ MaxTasks \in Nat /\ task.n = tasks
      /\ task.next \in 1 .. 3 /\ typed \in Seq(LineCommands) /\ task.at \in Steps
  BY LineNumbers, TaskNumbers
<1>2. PICK at \in {"closed", "ready"} :
        task' = [task EXCEPT !.next = @ + 1, !.got = <<>>, !.at = at]
  BY DEF Continue
<1>3. /\ task'.at = at /\ task'.next = task.next + 1 /\ task'.got = <<>>
      /\ task'.n = task.n /\ task'.kind = task.kind
  BY <1>1, <1>2 DEF LineTasks
<1>4. <<>> \in Seq(LineReadings) /\ task.next + 1 \in 1 .. 3 /\ at \in Steps \ {"resting"}
  BY <1>1 DEF Steps
<1>5. task' \in LineTasks
  BY <1>1, <1>2, <1>4 DEF LineTasks
<1>6. Active' /\ ~ Waiting' /\ Got' = <<>>
  BY <1>3 DEF Active, Waiting, Got
<1>7. TaskFits'
  BY <1>1, <1>3, <1>6 DEF TaskFits
<1>8. TypedIsBounded'
  <2>1. Len(typed) \in Nat /\ Len(typed) <= 3 * (tasks - 1) + (IF Waiting THEN task.next ELSE task.next - 1)
    BY <1>1 DEF LineInv, TypedIsBounded
  <2> QED
    BY <1>1, <1>3, <1>6, <2>1 DEF TypedIsBounded
<1>9. TerminalFits' /\ holder' \in {"nobody", "task", "ghost"}
      /\ {settings', restores'} \subseteq {"system", "raw"}
  <2>1. CASE Via = "tty"
    BY <2>1, PortClosed DEF Continue
  <2>2. CASE Via # "tty"
    BY <2>2 DEF Continue, terminal, LineInv, LineTyped, TerminalFits
  <2> QED
    BY <2>1, <2>2
<1>10. SayingsFit' /\ sayings' = sayings
  BY <1>1, <1>3, <1>6 DEF Continue, LineInv, SayingsFit, SayingIsTrue
<1> QED
  BY <1>3, <1>5, <1>6, <1>7, <1>8, <1>9, <1>10

(* A step that ends the task and leaves the line alone keeps the           *)
(* invariant, if what was waited for is excused.                           *)
LEMMA EndKeepsLine ==
  ASSUME LineInv, Active, NEW said \in Sayings, Finish(said),
         accepted' = accepted \/ accepted' = accepted \cup {task.n},
         IsTrueOfTask(said),
         UNCHANGED <<serial, transport, tasks, crashed>>,
         givenUp \subseteq givenUp', strays \subseteq strays',
         strays' \subseteq [of : LineCommands, by : LineCommands],
         \A s \in strays' : s \in strays \/ Excused(s.of)',
         \A c \in LineCommands : Alive(c)' /\ Waiting /\ c = Now => Excused(c)'
  PROVE  LineInv'
<1>1. UNCHANGED <<modem, typed, input>>
  BY DEF serial
<1>2. /\ task' = Resting /\ ~ Active' /\ ~ Waiting' /\ Got' = <<>>
      /\ TaskFits' /\ TypedIsBounded' /\ TerminalFits' /\ SayingsFit'
      /\ holder' \in {"nobody", "task", "ghost"}
      /\ {settings', restores'} \subseteq {"system", "raw"}
      /\ accepted' \subseteq 1 .. tasks'
      /\ sayings' \in [1 .. MaxTasks -> Sayings]
  BY <1>1, FinishEnds
<1>3. LineTyped'
  BY <1>1, <1>2 DEF LineInv, LineTyped
<1>4. BridgeIsApart'
  BY <1>1, <1>2 DEF LineInv, BridgeIsApart
<1>5. SerialInv'
  <2>1. tasks' >= tasks /\ tasks' \in Nat
    BY LineNumbers
  <2> QED
    BY <1>2, <2>1, SilentKeeps
<1>6. ForgottenAreExcused'
  <2>1. \A c : Alive(c)' => Alive(c)
    BY <1>2, NothingComes
  <2> QED
    BY <2>1, ExcusesStay
<1> QED
  BY <1>2, <1>3, <1>4, <1>5, <1>6 DEF LineInv, SerialInv

LEMMA NextKeepsLine ==
  ASSUME LineInv, Active, task.next < 3, Continue,
         accepted' = accepted, task.n \notin accepted,
         task.kind = "send" => ~ Referred',
         UNCHANGED <<serial, transport, tasks, crashed>>,
         givenUp \subseteq givenUp', strays \subseteq strays',
         strays' \subseteq [of : LineCommands, by : LineCommands],
         \A s \in strays' : s \in strays \/ Excused(s.of)',
         \A c \in LineCommands : Alive(c)' /\ Waiting /\ c = Now => Excused(c)'
  PROVE  LineInv'
<1>1. UNCHANGED <<modem, typed, input>>
  BY DEF serial
<1>2. /\ task' \in LineTasks /\ Active' /\ ~ Waiting' /\ Got' = <<>>
      /\ task.n' = task.n /\ task.kind' = task.kind /\ task.next' = task.next + 1
      /\ TaskFits' /\ TypedIsBounded' /\ TerminalFits' /\ SayingsFit'
      /\ holder' \in {"nobody", "task", "ghost"}
      /\ {settings', restores'} \subseteq {"system", "raw"}
      /\ sayings' = sayings
  BY <1>1, ContinueGoesOn
<1>3. LineTyped'
  BY <1>1, <1>2 DEF LineInv, LineTyped
<1>4. BridgeIsApart'
  BY <1>1, <1>2 DEF LineInv, BridgeIsApart
<1>5. SerialInv'
  <2>1. tasks' >= tasks /\ tasks' \in Nat
    BY LineNumbers
  <2>2. task.next' >= task.next /\ task.next' # task.next
    BY <1>2, NowIsCommand DEF LineInv, LineTasks
  <2> QED
    BY <1>2, <2>1, <2>2, SilentKeeps
<1>6. ForgottenAreExcused'
  <2>1. \A c : Alive(c)' => Alive(c)
    BY <1>2, NothingComes
  <2> QED
    BY <2>1, ExcusesStay
<1> QED
  BY <1>2, <1>3, <1>4, <1>5, <1>6 DEF LineInv, SerialInv

LEMMA WhatIsUnanswered ==
  ASSUME Active, LineTyped, NEW said, Unanswered(said)
  PROVE  (Continue /\ task.kind = "probe" /\ task.next = 2) \/ Finish(said)
BY NowIsCommand DEF Unanswered

LEMMA GotStays ==
  ASSUME LineInv, UNCHANGED task
  PROVE  (Active' <=> Active) /\ (Waiting' <=> Waiting) /\ Got' = Got /\ Now' = Now
BY DEF Active, Waiting, Got, Now

LEMMA StartKeepsLine ==
  ASSUME LineInv, NEW kind \in {"probe", "send"}, Start(kind)
  PROVE  LineInv'
<1>1. ~ Active /\ ~ Waiting /\ tasks < MaxTasks /\ tasks' = tasks + 1
  BY DEF Start, Active, Waiting, Doing
<1>2. UNCHANGED <<transport, holder, settings, restores, modem, typed, input, givenUp,
                  strays, accepted, sayings, crashed>> /\ UNCHANGED serial
  BY DEF Start, terminal, serial, history
<1>3. tasks \in Nat /\ tasks' \in 1 .. MaxTasks /\ tasks' \in Nat /\ tasks' > tasks
      /\ <<>> \in Seq(LineReadings)
  BY <1>1, LineNumbers
<1>4. task' = [at |-> "closed", kind |-> kind, n |-> tasks', next |-> 1, got |-> <<>>]
  BY <1>1 DEF Start
<1>5. task' \in LineTasks
  BY <1>3, <1>4 DEF LineTasks, Steps
<1>6. /\ task'.at = "closed" /\ task'.kind = kind /\ task'.n = tasks' /\ task'.next = 1
      /\ task'.got = <<>>
  BY <1>4
<1>7. Active' /\ ~ Waiting' /\ Got' = <<>>
  BY <1>6 DEF Active, Waiting, Got
<1>8. accepted \subseteq 1 .. tasks' /\ task'.n \notin accepted'
  BY <1>2, <1>3, <1>6, LineNumbers
<1>9. LineTyped'
  <2>1. tasks' \in 0 .. MaxTasks
    BY <1>3
  <2> QED
    BY <1>2, <1>5, <1>8, <2>1 DEF LineInv, LineTyped
<1>10. TaskFits'
  BY <1>6, <1>7 DEF TaskFits
<1>11. TypedIsBounded'
  <2>1. Len(typed) \in Nat /\ Len(typed) <= 3 * tasks
    BY <1>1, LineNumbers DEF LineInv, TypedIsBounded
  <2>2. tasks' - 1 = tasks /\ task'.next - 1 = 0 /\ typed' = typed
    BY <1>1, <1>2, <1>3, <1>6
  <2> QED
    BY <1>7, <2>1, <2>2, <1>3 DEF TypedIsBounded
<1>12. TerminalFits' /\ BridgeIsApart'
  BY <1>2, <1>7 DEF LineInv, TerminalFits, BridgeIsApart
<1>13. SayingsFit'
  <2>1. \A n \in 1 .. MaxTasks : n > tasks => sayings[n] = "none"
    BY DEF LineInv, SayingsFit
  <2>2. \A n \in 1 .. MaxTasks : n > tasks' \/ n = task'.n => n > tasks
    BY <1>3, <1>6, LineNumbers
  <2>3. SayingIsTrue'
    BY <1>2 DEF LineInv, SayingsFit, SayingIsTrue
  <2> QED
    BY <1>2, <2>1, <2>2, <2>3 DEF SayingsFit
<1>14. SerialInv'
  BY <1>2, <1>3, <1>5, <1>6, <1>7, <1>8, SilentKeeps
<1>15. ForgottenAreExcused'
  BY <1>1, <1>2, <1>7, NothingComes, ExcusesStay
<1> QED
  BY <1>9, <1>10, <1>11, <1>12, <1>13, <1>14, <1>15 DEF LineInv, SerialInv

(* A session is opened: the task is ready, and nothing else changes but    *)
(* the lock and the settings.                                              *)
LEMMA ReadyKeepsLine ==
  ASSUME LineInv, Doing("closed"), task' = [task EXCEPT !.at = "ready"],
         UNCHANGED <<serial, transport, history, tasks, crashed>>, TerminalFits',
         holder' \in {"nobody", "task", "ghost"},
         {settings', restores'} \subseteq {"system", "raw"}
  PROVE  LineInv'
<1>1. Active /\ ~ Waiting
  BY DEF Doing, Active, Waiting
<1>2. UNCHANGED <<modem, typed, input, givenUp, strays, accepted, sayings>>
  BY DEF serial, history
<1>3. /\ task'.at = "ready" /\ task'.kind = task.kind /\ task'.n = task.n
      /\ task'.next = task.next /\ task'.got = task.got /\ task' \in LineTasks
      /\ task.got = <<>>
  BY <1>1, TaskNumbers DEF LineTasks, Steps, LineInv, TaskFits
<1>4. Active' /\ ~ Waiting' /\ Got' = <<>> /\ Got = <<>>
  BY <1>1, <1>3 DEF Active, Waiting, Got
<1>5. task.n \notin accepted
  BY <1>1 DEF LineInv, AcceptedIsAnswered, Waiting
<1>6. LineTyped'
  BY <1>2, <1>3 DEF LineInv, LineTyped
<1>7. TaskFits' /\ TypedIsBounded' /\ BridgeIsApart'
  BY <1>1, <1>2, <1>3, <1>4, TaskNumbers
    DEF LineInv, TaskFits, TypedIsBounded, BridgeIsApart
<1>8. SayingsFit'
  BY <1>1, <1>2, <1>3, <1>4 DEF LineInv, SayingsFit, SayingIsTrue
<1>9. SerialInv'
  <2>1. task.kind = "send" /\ task.next > 1 => ~ Referred
    BY <1>1 DEF LineInv, ReferenceIsFirst, Waiting
  <2>2. Referred' <=> Referred
    BY <1>2, <1>4 DEF Referred
  <2>3. tasks' >= tasks /\ tasks' \in Nat /\ task.next >= task.next
    BY LineNumbers, TaskNumbers, <1>1
  <2> QED
    BY <1>1, <1>2, <1>3, <1>4, <1>5, <2>1, <2>2, <2>3, SilentKeeps
<1>10. ForgottenAreExcused'
  BY <1>1, <1>2, <1>4, NothingComes, ExcusesStay
<1> QED
  BY <1>6, <1>7, <1>8, <1>9, <1>10 DEF LineInv, SerialInv

LEMMA OpenPortKeepsLine ==
  ASSUME LineInv, OpenPort
  PROVE  LineInv'
<1>1. settings' = "raw" /\ restores' = settings /\ holder' = "task" /\ transport # "bridge"
      /\ transport' = transport /\ crashed' = crashed /\ holder = "nobody"
  BY DEF OpenPort, counts
<1>2. TerminalFits' /\ {settings', restores'} \subseteq {"system", "raw"}
  BY <1>1 DEF LineInv, LineTyped, TerminalFits
<1> QED
  BY <1>1, <1>2, ReadyKeepsLine DEF OpenPort, counts

LEMMA PortFailsKeepsLine ==
  ASSUME LineInv, PortFails
  PROVE  LineInv'
<1>1. Active /\ ~ Waiting
  BY DEF PortFails, Doing, Active, Waiting
<1>2. task.n \notin accepted
  BY <1>1 DEF LineInv, AcceptedIsAnswered, Waiting
<1>3. IsTrueOfTask("not dispatched") /\ "not dispatched" \in Sayings
  BY <1>2 DEF IsTrueOfTask, Sayings, PortFails
<1>4. strays \subseteq [of : LineCommands, by : LineCommands]
  BY DEF LineInv, LineTyped
<1> QED
  BY <1>1, <1>3, <1>4, EndKeepsLine DEF PortFails, counts

LEMMA BridgeOpensKeepsLine ==
  ASSUME LineInv, NEW away \in BOOLEAN, BridgeOpens(away)
  PROVE  LineInv'
<1>1. Active /\ ~ Waiting /\ transport = "bridge" /\ holder = "nobody"
  BY DEF BridgeOpens, Doing, Active, Waiting
<1>2. UNCHANGED <<transport, settings, restores, serial, givenUp, strays, accepted,
                  tasks, crashed>>
  BY DEF BridgeOpens
<1>3. settings = "system" /\ restores = "system"
  BY <1>1 DEF LineInv, TerminalFits
<1>4. CASE ~ away
  <2>1. holder' = "task" /\ task' = [task EXCEPT !.at = "ready"] /\ sayings' = sayings
    BY <1>4 DEF BridgeOpens
  <2>2. TerminalFits'
    BY <1>1, <1>2, <1>3, <2>1 DEF TerminalFits
  <2> QED
    BY <1>2, <1>3, <2>1, <2>2, ReadyKeepsLine DEF BridgeOpens, history
<1>5. CASE away
  <2>1. /\ holder' = "ghost" /\ task' = Resting
        /\ sayings' = IF task.kind = "send" THEN [sayings EXCEPT ![task.n] = "not dispatched"]
                        ELSE sayings
    BY <1>5 DEF BridgeOpens
  <2>2. ~ Active' /\ ~ Waiting' /\ Got' = <<>>
    BY <2>1 DEF Active, Waiting, Got, Resting
  <2>3. task.n \notin accepted
    BY <1>1 DEF LineInv, AcceptedIsAnswered, Waiting
  <2>4. /\ MaxTasks \in Nat /\ tasks \in Nat /\ task.n = tasks /\ task.n \in 1 .. MaxTasks
        /\ sayings \in [1 .. MaxTasks -> Sayings]
    BY <1>1, LineNumbers, TaskNumbers
  <2>5. LineTyped'
    <3>1. sayings' \in [1 .. MaxTasks -> Sayings]
      BY <2>1, <2>4 DEF Sayings
    <3>2. UNCHANGED <<modem, typed, input>>
      BY <1>2 DEF serial
    <3> QED
      BY <1>2, <2>1, <3>1, <3>2 DEF LineInv, LineTyped
  <2>6. TaskFits' /\ TerminalFits' /\ BridgeIsApart'
    BY <1>1, <1>2, <1>3, <2>1, <2>2 DEF TaskFits, TerminalFits, LineInv, BridgeIsApart, serial
  <2>7. TypedIsBounded'
    <3>1. Len(typed) \in Nat /\ Len(typed) <= 3 * (tasks - 1) + (task.next - 1)
          /\ task.next \in 1 .. 3 /\ typed' = typed
      BY <1>1, <1>2, LineNumbers, TaskNumbers DEF LineInv, TypedIsBounded, serial
    <3>2. Len(typed) <= 3 * tasks
      BY <2>4, <3>1
    <3> QED
      BY <1>2, <2>2, <3>1, <3>2 DEF TypedIsBounded
  <2>8. SayingsFit'
    <3>1. \A n \in 1 .. MaxTasks : n # task.n => sayings'[n] = sayings[n]
      BY <2>1, <2>4
    <3>2. sayings'[task.n] \in {"none", "not dispatched"}
      BY <1>1, <2>1, <2>4 DEF LineInv, SayingsFit
    <3> QED
      <4>1. SayingIsTrue'
        BY <1>2, <2>3, <3>1, <3>2 DEF LineInv, SayingsFit, SayingIsTrue
      <4>2. \A n \in 1 .. MaxTasks : n > tasks => n # task.n /\ sayings[n] = "none"
        BY <2>4 DEF LineInv, SayingsFit
      <4> QED
        BY <1>2, <2>2, <3>1, <4>1, <4>2 DEF SayingsFit
  <2>9. SerialInv'
    BY <1>2, <2>2, <2>4, SilentKeeps
  <2>10. ForgottenAreExcused'
    BY <1>1, <1>2, <2>2, NothingComes, ExcusesStay
  <2> QED
    BY <2>5, <2>6, <2>7, <2>8, <2>9, <2>10 DEF LineInv, SerialInv
<1> QED
  BY <1>4, <1>5

LEMMA BridgeExpiresKeepsLine ==
  ASSUME LineInv, BridgeExpires
  PROVE  LineInv'
<1>1. UNCHANGED <<transport, settings, restores, task, modem, typed, input, givenUp, strays,
                  accepted, sayings, tasks, crashed>>
      /\ holder' = "nobody" /\ transport = "bridge"
  BY DEF BridgeExpires, serial, history, counts
<1>2. (Active' <=> Active) /\ (Waiting' <=> Waiting) /\ Got' = Got /\ Now' = Now
  BY <1>1, GotStays
<1>3. \A c : /\ (InTyped(c)' <=> InTyped(c)) /\ (AtModem(c)' <=> AtModem(c))
             /\ (InInput(c)' <=> InInput(c)) /\ (InGot(c)' <=> InGot(c))
             /\ (Alive(c)' <=> Alive(c)) /\ (Excused(c)' <=> Excused(c))
  BY <1>1, <1>2 DEF InTyped, AtModem, InInput, InGot, Alive, Excused
<1>4. LineTyped' /\ TaskFits' /\ TypedIsBounded'
  BY <1>1, <1>2 DEF LineInv, LineTyped, TaskFits, TypedIsBounded
<1>5. TerminalFits' /\ BridgeIsApart'
  BY <1>1, <1>2 DEF LineInv, TerminalFits, BridgeIsApart
<1>6. ModemFits' /\ PromptIsLast'
  BY <1>1, <1>2 DEF LineInv, ModemFits, PromptIsLast
<1>7. ReferenceIsFirst' /\ AcceptedIsAnswered'
  BY <1>1, <1>2 DEF LineInv, ReferenceIsFirst, Referred, AcceptedIsAnswered
<1>8. SayingsFit'
  BY <1>1, <1>2 DEF LineInv, SayingsFit, SayingIsTrue
<1>9. TypedOnce' /\ TerminalIsLast'
  BY <1>1, <1>2, <1>3 DEF LineInv, TypedOnce, TerminalIsLast
<1>10. WrittenAreAlive' /\ ForgottenAreExcused'
  BY <1>1, <1>2, <1>3 DEF LineInv, WrittenAreAlive, ForgottenAreExcused, StraysWereGivenUp,
       Excused
<1> QED
  BY <1>4, <1>5, <1>6, <1>7, <1>8, <1>9, <1>10 DEF LineInv

(* What goes unanswered ends the task, or a probe goes on.                 *)
LEMMA UnansweredKeepsLine ==
  ASSUME LineInv, Active, NEW said \in Sayings, Unanswered(said),
         IsTrueOfTask(said),
         accepted' = accepted,
         task.kind = "send" \/ task.n \notin accepted,
         UNCHANGED <<serial, transport, strays, tasks, crashed>>,
         givenUp \subseteq givenUp',
         Waiting => Now \in givenUp'
  PROVE  LineInv'
<1>1. strays \subseteq [of : LineCommands, by : LineCommands]
  BY DEF LineInv, LineTyped
<1>2. \A c : Waiting /\ c = Now => Excused(c)'
  BY DEF Excused
<1>3. CASE Continue /\ task.kind = "probe" /\ task.next = 2
  BY <1>1, <1>2, <1>3, NextKeepsLine
<1>4. CASE Finish(said)
  BY <1>1, <1>2, <1>4, EndKeepsLine
<1> QED
  BY <1>3, <1>4, WhatIsUnanswered DEF LineInv

LEMMA GiveUpKeepsLine ==
  ASSUME LineInv, GiveUp
  PROVE  LineInv'
<1> DEFINE said == IF Now.what = "submit" THEN GivingUp ELSE "not dispatched"
<1>1. Active
  BY DEF GiveUp, Doing, Active
<1>2. UNCHANGED <<serial, transport, strays, tasks, crashed>> /\ accepted' = accepted
  BY DEF GiveUp
<1>3. said \in Sayings /\ Unanswered(said)
  BY DEF GiveUp, GivingUp, Sayings
<1>4. task.n \in accepted =>
        task.kind = "send" /\ task.next = 3 /\ task.at \in {"answer", "answered"}
  BY <1>1 DEF LineInv, AcceptedIsAnswered
<1>5. said # "submitted" /\ (task.n \in accepted => said = "uncertain")
  BY <1>1, <1>4, NowIsCommand DEF GivingUp, Doing, LineInv
<1>6. IsTrueOfTask(said)
  BY <1>2, <1>5 DEF IsTrueOfTask
<1>7. givenUp \subseteq givenUp' /\ Now \in givenUp'
  BY DEF GiveUp
<1>8. task.kind = "send" \/ task.n \notin accepted
  BY <1>4
<1> HIDE DEF said
<1> QED
  BY <1>1, <1>2, <1>3, <1>6, <1>7, <1>8, UnansweredKeepsLine

LEMMA BridgeRefusesKeepsLine ==
  ASSUME LineInv, BridgeRefuses
  PROVE  LineInv'
<1> DEFINE said == IF Now.what = "submit" THEN "uncertain" ELSE "not dispatched"
<1>1. Active /\ ~ Waiting
  BY DEF BridgeRefuses, Doing, Active, Waiting
<1>2. task.n \notin accepted
  BY <1>1 DEF LineInv, AcceptedIsAnswered, Waiting
<1>3. said \in Sayings /\ Unanswered(said) /\ said # "submitted"
  BY DEF BridgeRefuses, Sayings
<1>4. UNCHANGED <<serial, transport, strays, tasks, crashed>> /\ accepted' = accepted
      /\ givenUp \subseteq givenUp'
  BY DEF BridgeRefuses, counts
<1>5. IsTrueOfTask(said)
  BY <1>2, <1>3, <1>4 DEF IsTrueOfTask
<1> HIDE DEF said
<1> QED
  BY <1>1, <1>2, <1>3, <1>4, <1>5, UnansweredKeepsLine

LEMMA BridgeRunsKeepsLine ==
  ASSUME LineInv, NEW done \in BOOLEAN, NEW away \in BOOLEAN, BridgeRuns(done, away)
  PROVE  LineInv'
<1>1. Active /\ ~ Waiting /\ transport = "bridge"
  BY DEF BridgeRuns, Doing, Active, Waiting
<1>2. task.n \notin accepted /\ task.next \in 1 .. 3 /\ LineTyped
  BY <1>1, TaskNumbers DEF LineInv, AcceptedIsAnswered, Waiting
<1>3. UNCHANGED <<serial, transport, strays, givenUp, tasks, crashed>>
      /\ UNCHANGED <<settings, restores>>
  BY DEF BridgeRuns
<1>4. Got' = <<>> => ~ Referred'
  <2>1. modem' = Quiet /\ input' = <<>>
    BY <1>1, <1>3 DEF LineInv, BridgeIsApart, serial
  <2>2. Quiet.left # <<"+CMGS", "OK">>
    BY DEF Quiet
  <2> QED
    BY <2>1, <2>2 DEF Referred
<1>5. strays \subseteq [of : LineCommands, by : LineCommands]
  BY <1>2 DEF LineTyped
<1>6. accepted' = IF done /\ Now.what = "submit" THEN accepted \cup {task.n} ELSE accepted
  BY DEF BridgeRuns
<1>7. {"uncertain", "not dispatched", "submitted", "refused"} \subseteq Sayings
  BY DEF Sayings
<1>8. CASE away
  <2> DEFINE said == IF Now.what = "submit" THEN "uncertain" ELSE "not dispatched"
  <2>1. Unanswered(said) /\ said \in Sayings /\ said # "submitted"
    BY <1>7, <1>8 DEF BridgeRuns
  <2>2. IsTrueOfTask(said)
    BY <1>2, <1>6, <2>1 DEF IsTrueOfTask
  <2>3. Now.what # "submit" => accepted' = accepted
    BY <1>6
  <2>4. Now.what = "submit" => Finish(said)
    BY <1>1, <1>2, <2>1, WhatIsUnanswered, NowIsCommand
  <2> HIDE DEF said
  <2>5. CASE Now.what = "submit"
    BY <1>1, <1>3, <1>5, <1>6, <2>1, <2>2, <2>4, <2>5, EndKeepsLine
  <2>6. CASE Now.what # "submit"
    BY <1>1, <1>2, <1>3, <2>1, <2>2, <2>3, <2>6, UnansweredKeepsLine
  <2> QED
    BY <2>5, <2>6
<1>9. CASE ~ away /\ done /\ task.next < 3
  <2>1. Now.what # "submit" /\ task.next # 3
    BY <1>1, <1>2, <1>9, NowIsCommand
  <2>2. Continue
    BY <1>9, <2>1 DEF BridgeRuns
  <2>3. accepted' = accepted
    BY <1>6, <2>1
  <2>4. Got' = <<>>
    BY <1>1, <1>3, <1>9, <2>2, <2>3, ContinueGoesOn DEF serial
  <2> QED
    BY <1>1, <1>2, <1>3, <1>4, <1>5, <1>9, <2>2, <2>3, <2>4, NextKeepsLine
<1>10. CASE ~ away /\ done /\ task.next = 3
  <2>1. Finish("submitted")
    BY <1>10 DEF BridgeRuns
  <2>2. IsTrueOfTask("submitted")
    BY <1>1, <1>2, <1>6, <1>10, NowIsCommand DEF IsTrueOfTask
  <2> QED
    BY <1>1, <1>3, <1>5, <1>6, <1>7, <2>1, <2>2, EndKeepsLine
<1>11. CASE ~ away /\ ~ done
  <2>1. accepted' = accepted
    BY <1>6, <1>11
  <2>2. PICK said \in {"refused", "not dispatched"} :
          Unanswered(IF Now.what = "submit" THEN said ELSE "not dispatched")
    BY <1>11 DEF BridgeRuns
  <2> DEFINE told == IF Now.what = "submit" THEN said ELSE "not dispatched"
  <2>3. told \in Sayings /\ told # "submitted" /\ Unanswered(told)
    BY <1>7, <2>2
  <2>4. IsTrueOfTask(told)
    BY <1>2, <2>1, <2>3 DEF IsTrueOfTask
  <2> HIDE DEF told
  <2> QED
    BY <1>1, <1>2, <1>3, <2>1, <2>3, <2>4, UnansweredKeepsLine
<1> QED
  BY <1>2, <1>8, <1>9, <1>10, <1>11

LEMMA CrashKeepsLine ==
  ASSUME LineInv, AgentCrashes
  PROVE  LineInv'
<1>1. /\ task' = Resting /\ crashed' = TRUE
      /\ holder' = IF transport = "bridge" /\ holder # "nobody" THEN "ghost" ELSE "nobody"
      /\ givenUp' = IF Waiting THEN givenUp \cup {Now} ELSE givenUp
      /\ UNCHANGED <<transport, settings, restores, serial, strays, accepted, sayings, tasks>>
  BY DEF AgentCrashes, Waiting
<1>2. ~ Active' /\ ~ Waiting' /\ Got' = <<>> /\ UNCHANGED <<modem, typed, input>>
  BY <1>1 DEF Active, Waiting, Got, Resting, serial
<1>3. LineTyped'
  BY <1>1, <1>2 DEF LineInv, LineTyped
<1>4. TaskFits' /\ TerminalFits' /\ BridgeIsApart'
  BY <1>1, <1>2 DEF TaskFits, LineInv, TerminalFits, BridgeIsApart
<1>5. TypedIsBounded'
  <2>1. Active => task.n = tasks /\ task.n \in 1 .. MaxTasks /\ task.next \in 1 .. 3
    BY TaskNumbers
  <2>2. tasks \in Nat /\ Len(typed) \in Nat
    BY LineNumbers
  <2>3. Len(typed) <= IF Active THEN 3 * (tasks - 1) + (IF Waiting THEN task.next ELSE task.next - 1)
                                ELSE 3 * tasks
    BY DEF LineInv, TypedIsBounded
  <2>4. Len(typed) <= 3 * tasks
    BY <2>1, <2>2, <2>3
  <2> QED
    BY <1>1, <1>2, <2>4 DEF TypedIsBounded
<1>6. SayingsFit'
  BY <1>1, <1>2 DEF LineInv, SayingsFit, SayingIsTrue
<1>7. SerialInv'
  BY <1>1, <1>2, LineNumbers, SilentKeeps
<1>8. ForgottenAreExcused'
  <2>1. \A c : Waiting /\ c = Now => Excused(c)'
    BY <1>1 DEF Excused
  <2> QED
    BY <1>1, <1>2, <2>1, NothingComes, ExcusesStay
<1> QED
  BY <1>3, <1>4, <1>5, <1>6, <1>7, <1>8 DEF LineInv, SerialInv

-----------------------------------------------------------------------------
(* What is concluded from an answer.                                       *)

LEMMA LeastPosition ==
  ASSUME NEW S \in SUBSET Nat, S # {}
  PROVE  Min(S) \in S /\ \A n \in S : Min(S) <= n
<1>1. PICK n \in S : \A m \in S : ~ (<<m, n>> \in OpToRel(<, Nat))
  BY NatLessThanWellFounded, WFMin
<1>2. \A m \in S : n <= m
  <2>1. \A m \in S : ~ (m < n)
    BY <1>1 DEF OpToRel
  <2> QED
    BY <2>1
<1> QED
  BY <1>2 DEF Min

(* The lines that are looked at begin the answer and hold a terminal one.  *)
LEMMA LinesRead ==
  ASSUME LineInv, task.at \in {"answered", "rejected"}
  PROVE  /\ Lines \in Seq(LineReadings) /\ Len(Lines) \in 1 .. Len(task.got)
         /\ \A i \in 1 .. Len(Lines) : Lines[i] = task.got[i]
         /\ \E i \in 1 .. Len(Lines) : task.got[i].line \in Finals
         /\ task.got \in Seq(LineReadings) /\ task.got = Got
         /\ \/ Lines = task.got
            \/ \A i \in 1 .. Len(Lines) - 1 : task.got[i].line \notin Finals
<1>1. Active /\ Has(task.got, Finals)
  BY DEF Active, LineInv, TaskFits
<1>2. task.got \in Seq(LineReadings) /\ task.got = Got
  BY <1>1, NowIsCommand DEF LineInv
<1>3. PICK i \in DOMAIN task.got : task.got[i].line \in Finals
  BY <1>1 DEF Has
<1>4. CASE Via # "tty"
  BY <1>2, <1>3, <1>4 DEF Lines
<1>5. CASE Via = "tty"
  <2> DEFINE got == task.got
             finals == {j \in DOMAIN got : got[j].line \in Finals}
             first == Min(finals)
  <2>1. first \in finals /\ \A j \in finals : first <= j
    <3>1. finals \subseteq Nat /\ finals # {}
      BY <1>2, <1>3
    <3> QED
      BY <3>1, LeastPosition
  <2>2. Lines = SubSeq(got, 1, first)
    BY <1>5 DEF Lines
  <2>3. first \in 1 .. Len(got) /\ got[first].line \in Finals
        /\ \A j \in 1 .. first - 1 : got[j].line \notin Finals
    <3>1. first \in DOMAIN got /\ got[first].line \in Finals
      BY <2>1
    <3> HIDE DEF first
    <3> QED
      BY <1>2, <2>1, <3>1
  <2> HIDE DEF first
  <2>4. /\ Lines \in Seq(LineReadings) /\ Len(Lines) = first
        /\ \A j \in 1 .. first : Lines[j] = got[j]
    BY <1>2, <2>2, <2>3
  <2> QED
    BY <1>2, <2>3, <2>4
<1> QED
  BY <1>4, <1>5

(* A message that was accepted is answered by its reference and "OK".      *)
LEMMA AcceptedIsSaid ==
  ASSUME LineInv, task.at \in {"answered", "rejected"}, task.n \in accepted
  PROVE  task.at = "answered" /\ Last(Lines).line = "OK"
<1>1. /\ Active /\ task.at = "answered" /\ Len(task.got) + Len(input) + Len(modem.left) = 2
      /\ \A i \in DOMAIN task.got : task.got[i].line = Reply[i]
  BY DEF Active, LineInv, AcceptedIsAnswered
<1>2. Len(input) \in Nat /\ Len(modem.left) \in Nat
  BY LineNumbers DEF LineModems
<1>3. Len(task.got) \in 0 .. 2 /\ task.got \in Seq(LineReadings)
  <2>1. task.got \in Seq(LineReadings) /\ Len(task.got) \in Nat
    BY LinesRead
  <2>2. Len(task.got) + Len(input) + Len(modem.left) = 2
    BY <1>1
  <2>3. \A a, b, c \in Nat : a + b + c = 2 => a \in 0 .. 2
    OBVIOUS
  <2> QED
    BY ONLY <1>2, <2>1, <2>2, <2>3
<1>4. Reply[1] = "+CMGS" /\ Reply[2] = "OK"
  BY DEF Reply
<1>5. PICK i \in 1 .. Len(Lines) : task.got[i].line \in Finals
  BY LinesRead
<1>6. i = 2 /\ Len(Lines) = 2
  BY <1>1, <1>3, <1>4, <1>5, LinesRead DEF Finals
<1>7. Last(Lines) = task.got[2] /\ 2 \in DOMAIN task.got
  BY <1>3, <1>6, LinesRead DEF Last
<1> QED
  BY <1>1, <1>4, <1>7

(* What is said of a message from the answer is so.                        *)
LEMMA SaidIsSo ==
  ASSUME LineInv, task.at \in {"answered", "rejected"}, Now.what = "submit",
         accepted' = accepted
  PROVE  SaidOfMessage \in Sayings /\ IsTrueOfTask(SaidOfMessage)
<1>1. Active /\ task.kind = "send" /\ task.next = 3
  BY NowIsCommand DEF Active, LineInv
<1>2. Said \in Sayings /\ "not dispatched" \in Sayings
  BY DEF Said, Sayings
<1>3. CASE task.at = "rejected" /\ transport = "at"
  <2>1. task.n \notin accepted
    BY <1>1, <1>3 DEF LineInv, AcceptedIsAnswered
  <2>2. SaidOfMessage = "not dispatched"
    BY <1>3 DEF SaidOfMessage, Doing
  <2> QED
    BY <1>2, <2>1, <2>2 DEF IsTrueOfTask
<1>4. CASE ~ (task.at = "rejected" /\ transport = "at")
  <2>1. SaidOfMessage = Said
    BY <1>4 DEF SaidOfMessage, Doing
  <2>2. CASE task.n \in accepted
    <3>1. Said \in {"submitted", "uncertain"}
      BY <2>2, AcceptedIsSaid DEF Said
    <3> QED
      BY <1>2, <2>1, <2>2, <3>1 DEF IsTrueOfTask
  <2>3. CASE task.n \notin accepted
    <3>1. SUFFICES ASSUME Said = "submitted" PROVE FALSE
      BY <1>2, <2>1, <2>3 DEF IsTrueOfTask
    <3>2. Body(Lines) = <<"+CMGS">>
      BY <3>1 DEF Said, Fits
    <3>3. DOMAIN Body(Lines) = 1 .. Len(Lines) - 1 /\ Body(Lines)[1] = "+CMGS"
          /\ 1 \in DOMAIN Body(Lines)
      <4>1. DOMAIN <<"+CMGS">> = 1 .. 1 /\ <<"+CMGS">>[1] = "+CMGS"
        OBVIOUS
      <4>2. DOMAIN Body(Lines) = 1 .. Len(Lines) - 1
        BY DEF Body
      <4> QED
        BY <3>2, <4>1, <4>2
    <3>4. 1 \in 1 .. Len(Lines) - 1 /\ Lines[1].line = "+CMGS"
      BY <3>3 DEF Body
    <3>5. 1 \in DOMAIN Got /\ Got[1].line = "+CMGS"
      BY <3>4, LinesRead
    <3>6. Referred
      BY <3>5 DEF Referred
    <3> QED
      BY <1>1, <2>3, <3>6 DEF LineInv, ReferenceIsFirst
  <2> QED
    BY <2>2, <2>3
<1> QED
  BY <1>3, <1>4

LEMMA TakeAnswerKeepsLine ==
  ASSUME LineInv, TakeAnswer
  PROVE  LineInv'
<1>1. task.at \in {"answered", "rejected"} /\ Active /\ Waiting
  BY DEF TakeAnswer, Doing, Active, Waiting
<1>2. UNCHANGED <<transport, serial, givenUp, accepted, tasks, crashed>>
  BY DEF TakeAnswer, counts
<1>3. /\ Got # <<>> /\ Lines \in Seq(LineReadings)
      /\ \A i \in DOMAIN Lines : i \in DOMAIN Got /\ Lines[i] = Got[i]
      /\ \E i \in DOMAIN Lines : i \in DOMAIN Got /\ Got[i].line \in Finals
  BY <1>1, LinesRead
<1>4. strays' = strays \cup {[of |-> l.of, by |-> Now] :
                             l \in {l \in Range(Lines) : l.of # Now}}
  BY DEF TakeAnswer
<1>5. \A s \in strays' : s \in strays \/
        \E i \in DOMAIN Lines : s = [of |-> Lines[i].of, by |-> Now] /\ Lines[i].of # Now
  BY <1>4 DEF Range
<1>6. \A i \in DOMAIN Lines : Lines[i].of # Now =>
        [of |-> Lines[i].of, by |-> Now] \in strays'
  BY <1>4 DEF Range
<1>7. \A i \in DOMAIN Lines : Lines[i].of \in LineCommands
  <2>1. \A i \in DOMAIN Lines : Lines[i] \in LineReadings
    BY <1>3
  <2> QED
    BY <2>1 DEF LineReadings
<1>8. /\ strays \subseteq strays'
      /\ strays' \subseteq [of : LineCommands, by : LineCommands]
  BY <1>1, <1>4, <1>5, <1>7, TaskNumbers DEF LineInv, LineTyped
<1>9. \A s \in strays' : s \in strays \/ Excused(s.of)'
  <2> SUFFICES ASSUME NEW s \in strays', NEW i \in DOMAIN Lines,
                      s = [of |-> Lines[i].of, by |-> Now], Lines[i].of # Now
               PROVE  Excused(s.of)'
    BY <1>5
  <2>1. s.of = Lines[i].of /\ s.of # Now /\ s.of \in LineCommands /\ Alive(s.of)
    BY <1>3, <1>7 DEF Alive, InGot
  <2>2. Excused(s.of)
    BY <2>1 DEF LineInv, ForgottenAreExcused
  <2> QED
    BY <1>2, <1>8, <2>2 DEF Excused
<1>10. Got' = <<>> => \A c \in LineCommands : Alive(c)' /\ Waiting /\ c = Now => Excused(c)'
  <2> SUFFICES ASSUME Got' = <<>>, NEW c \in LineCommands, c = Now, Alive(c)',
                      ~ Excused(c)'
               PROVE  FALSE
    OBVIOUS
  <2>1. \A i \in DOMAIN Lines : Lines[i].of = Now
    BY <1>6 DEF Excused
  <2>2. PICK i \in DOMAIN Lines : i \in DOMAIN Got /\ Got[i].line \in Finals
    BY <1>3
  <2>3. Got[i].of = Now
    BY <1>3, <2>1
  <2>4. ~ InTyped(c) /\ ~ AtModem(c) /\ ~ InInput(c)
    BY <2>2, <2>3 DEF LineInv, TerminalIsLast
  <2>5. InTyped(c)' \/ AtModem(c)' \/ InInput(c)'
    BY DEF Alive, InGot
  <2>6. UNCHANGED <<modem, typed, input>>
    BY <1>2 DEF serial
  <2> QED
    BY <2>4, <2>5, <2>6 DEF InTyped, AtModem, InInput
<1>11. Got' = <<>> => ~ Referred'
  BY <1>2, <1>3 DEF LineInv, ReferenceIsFirst, Referred, serial
<1>12. LineTyped /\ task.next \in 1 .. 3 /\ accepted' = accepted
  BY <1>1, <1>2, TaskNumbers DEF LineInv
<1>13. ASSUME NEW said \in Sayings, Finish(said), IsTrueOfTask(said)
       PROVE  LineInv'
  <2>1. Got' = <<>>
    BY <1>13 DEF Finish, Got, Active, Resting
  <2> QED
    BY <1>1, <1>2, <1>8, <1>9, <1>10, <1>12, <1>13, <2>1, EndKeepsLine
<1>14. ASSUME Continue, task.next < 3 PROVE LineInv'
  <2>1. Got' = <<>>
    BY <1>1, <1>2, <1>14, ContinueGoesOn DEF serial
  <2>2. task.n \notin accepted
    <3>1. task.next # 3
      BY <1>12, <1>14
    <3> QED
      BY <1>1, <3>1 DEF LineInv, AcceptedIsAnswered
  <2> QED
    BY <1>1, <1>2, <1>8, <1>9, <1>10, <1>11, <1>12, <1>14, <2>1, <2>2, NextKeepsLine
<1>15. {"none", "not dispatched"} \subseteq Sayings
  BY DEF Sayings
<1>16. CASE Now.what = "submit"
  <2>1. Finish(SaidOfMessage)
    BY <1>16 DEF TakeAnswer
  <2> QED
    BY <1>1, <1>12, <1>13, <1>16, <2>1, SaidIsSo
<1>17. CASE Now.what \in {"mode", "storage"}
  <2>1. task.kind = "send" /\ task.next < 3
    BY <1>1, <1>12, <1>17, NowIsCommand
  <2>2. CASE Said = "submitted"
    BY <1>14, <1>17, <2>1, <2>2 DEF TakeAnswer
  <2>3. CASE Said # "submitted"
    <3>1. Finish("not dispatched")
      BY <1>17, <2>3 DEF TakeAnswer
    <3>2. task.n \notin accepted
      <4>1. task.next # 3
        BY <1>12, <2>1
      <4> QED
        BY <1>1, <4>1 DEF LineInv, AcceptedIsAnswered
    <3>3. IsTrueOfTask("not dispatched")
      BY <1>12, <3>2 DEF IsTrueOfTask
    <3> QED
      BY <1>13, <1>15, <3>1, <3>3
  <2> QED
    BY <2>2, <2>3
<1>18. CASE Now.what \in {"handshake", "identity", "calls"}
  <2>1. task.kind = "probe" /\ (Now.what # "calls" => task.next < 3)
    BY <1>1, <1>12, <1>18, NowIsCommand
  <2>2. IsTrueOfTask("none")
    BY <2>1 DEF IsTrueOfTask
  <2>3. Continue \/ Finish("none")
    BY <1>18 DEF TakeAnswer
  <2>4. Now.what = "calls" => Finish("none")
    BY DEF TakeAnswer
  <2> QED
    BY <1>13, <1>14, <1>15, <2>1, <2>2, <2>3, <2>4
<1> QED
  BY <1>1, <1>16, <1>17, <1>18, TaskNumbers DEF LineCommands, Whats

-----------------------------------------------------------------------------
(* The modem, and what is written to it and read from it.                  *)

LEMMA ReadingTypes ==
  ASSUME LineInv
  PROVE  /\ \A i \in DOMAIN typed : typed[i] \in LineCommands
         /\ \A i \in DOMAIN input : input[i].of \in LineCommands /\ input[i].line \in LineTexts
         /\ \A i \in DOMAIN Got : Got[i].of \in LineCommands /\ Got[i].line \in LineTexts
<1>1. /\ \A i \in DOMAIN typed : typed[i] \in LineCommands
      /\ \A i \in DOMAIN input : input[i] \in LineReadings
      /\ \A i \in DOMAIN Got : Got[i] \in LineReadings
  BY LineNumbers
<1> QED
  BY <1>1 DEF LineReadings

LEMMA RepliesAreTexts == Replies \subseteq Seq(LineTexts)
<1> DEFINE S == LineTexts
<1>1. /\ "OK" \in S /\ "ERROR" \in S /\ ">" \in S /\ "+CPMS" \in S /\ "text" \in S
      /\ "+CLCC" \in S /\ "+CMGS" \in S
  BY DEF LineTexts
<1> HIDE DEF S
<1>2. /\ <<>> \in Seq(S) /\ <<"OK">> \in Seq(S) /\ <<"ERROR">> \in Seq(S)
      /\ <<">">> \in Seq(S)
  BY <1>1
<1>3. <<"+CPMS", "OK">> \in Seq(S)
  BY <1>1
<1>4. <<"text", "OK">> \in Seq(S)
  BY <1>1
<1>5. <<"+CLCC", "OK">> \in Seq(S)
  BY <1>1
<1>6. <<"+CMGS", "OK">> \in Seq(S)
  BY <1>1
<1>7. Replies \subseteq Seq(S)
  BY <1>2, <1>3, <1>4, <1>5, <1>6 DEF Replies
<1> QED
  BY <1>7 DEF S

(* A step of the line in which no task goes anywhere.                      *)
LEMMA LineMoves ==
  ASSUME LineInv, UNCHANGED <<transport, terminal, task, history, counts>>,
         Len(typed') <= Len(typed), transport # "bridge",
         modem' \in LineModems, typed' \in Seq(LineCommands), input' \in Seq(LineReadings)
  PROVE  LineTyped' /\ TaskFits' /\ TypedIsBounded' /\ TerminalFits' /\ BridgeIsApart'
         /\ SayingsFit'
<1>1. UNCHANGED <<transport, holder, settings, restores, task, givenUp, strays, accepted,
                  sayings, tasks, crashed>>
  BY DEF terminal, history, counts
<1>2. (Active' <=> Active) /\ (Waiting' <=> Waiting) /\ Now' = Now
  BY <1>1, GotStays
<1>3. LineTyped'
  BY <1>1 DEF LineInv, LineTyped
<1>4. TaskFits' /\ TerminalFits' /\ BridgeIsApart'
  BY <1>1, <1>2 DEF LineInv, TaskFits, TerminalFits, BridgeIsApart
<1>5. TypedIsBounded'
  <2> DEFINE bound == IF Active THEN 3 * (tasks - 1) + (IF Waiting THEN task.next ELSE task.next - 1)
                        ELSE 3 * tasks
  <2>1. Len(typed) <= bound /\ bound' = bound
    BY <1>1, <1>2 DEF LineInv, TypedIsBounded
  <2>2. bound \in Int /\ Len(typed) \in Nat /\ Len(typed') \in Nat
    BY LineNumbers, TaskNumbers
  <2>3. Len(typed') <= bound'
    <3> HIDE DEF bound
    <3> QED
      BY <2>1, <2>2
  <2> QED
    BY <2>3 DEF TypedIsBounded
<1>6. SayingsFit'
  BY <1>1, <1>2 DEF LineInv, SayingsFit, SayingIsTrue
<1> QED
  BY <1>3, <1>4, <1>5, <1>6

LEMMA ExecutesKeepsLine ==
  ASSUME LineInv, Executes
  PROVE  LineInv'
<1>1. modem = Quiet /\ typed # <<>> /\ typed' = Tail(typed)
      /\ UNCHANGED <<transport, terminal, task, input, history, counts>>
  BY DEF Executes
<1>2. PICK lines \in Answers(Head(typed).what) :
        modem' = [Quiet EXCEPT !.of = Head(typed), !.left = lines]
  BY DEF Executes
<1>3. /\ typed \in Seq(LineCommands) /\ Head(typed) = typed[1] /\ typed[1] \in LineCommands
      /\ typed' \in Seq(LineCommands) /\ Len(typed') = Len(typed) - 1 /\ 1 \in DOMAIN typed
      /\ \A i \in DOMAIN typed' : typed'[i] = typed[i + 1] /\ i + 1 \in DOMAIN typed
      /\ Len(typed) \in Nat
  BY <1>1, LineNumbers, TailOf
<1>4. lines \in {<<"OK">>, <<"ERROR">>, <<"+CPMS", "OK">>, <<"text", "OK">>, <<"+CLCC", "OK">>,
                 <<">">>}
  BY <1>2 DEF Answers
<1>5. lines # <<>> /\ lines # <<"+CMGS", "OK">> /\ lines \in Replies
      /\ lines \in Seq(LineTexts)
  <2>1. lines # <<>>
    BY <1>4
  <2>2. lines # <<"+CMGS", "OK">>
    BY <1>4
  <2>3. lines \in Replies
    BY <1>4 DEF Replies
  <2> QED
    BY <2>1, <2>2, <2>3, RepliesAreTexts
<1>6. /\ modem'.of = typed[1] /\ modem'.left = lines /\ ~ modem'.prompting
      /\ modem' \in LineModems /\ modem' # Quiet
      /\ modem' = [of |-> typed[1], left |-> lines, prompting |-> FALSE, text |-> <<>>]
  <2>1. modem' = [of |-> typed[1], left |-> lines, prompting |-> FALSE, text |-> <<>>]
    BY <1>2, <1>3 DEF Quiet
  <2>2. modem'.left # Quiet.left
    BY <1>5, <2>1 DEF Quiet
  <2> QED
    BY <1>3, <1>5, <2>1, <2>2 DEF LineModems
<1>7. UNCHANGED <<task, input, accepted, givenUp, strays, tasks>>
  BY <1>1 DEF history, counts
<1>8. (Active' <=> Active) /\ (Waiting' <=> Waiting) /\ Got' = Got /\ Now' = Now
  BY <1>7, GotStays
<1>9. transport # "bridge"
  BY <1>1 DEF LineInv, BridgeIsApart
<1>10. LineTyped' /\ TaskFits' /\ TypedIsBounded' /\ TerminalFits' /\ BridgeIsApart'
       /\ SayingsFit'
  <2>1. Len(typed') <= Len(typed) /\ input' \in Seq(LineReadings)
    BY <1>3, <1>7, LineNumbers
  <2> QED
    BY <1>1, <1>3, <1>6, <1>9, <2>1, LineMoves
<1>11. \A c \in LineCommands :
         /\ InTyped(c)' => InTyped(c) /\ c # typed[1]
         /\ AtModem(c)' <=> c = typed[1]
         /\ InInput(c)' <=> InInput(c)
         /\ InGot(c)' <=> InGot(c)
         /\ Alive(c)' => Alive(c)
  <2> SUFFICES ASSUME NEW c \in LineCommands
               PROVE  /\ InTyped(c)' => InTyped(c) /\ c # typed[1]
                      /\ AtModem(c)' <=> c = typed[1]
                      /\ InInput(c)' <=> InInput(c)
                      /\ InGot(c)' <=> InGot(c)
                      /\ Alive(c)' => Alive(c)
    OBVIOUS
  <2>1. InTyped(c)' => InTyped(c) /\ c # typed[1]
    <3> SUFFICES ASSUME NEW i \in DOMAIN typed', typed'[i] = c
                 PROVE  InTyped(c) /\ c # typed[1]
      BY DEF InTyped
    <3>1. i + 1 \in DOMAIN typed /\ typed[i + 1] = c /\ i + 1 # 1
      BY <1>3
    <3> QED
      BY <1>3, <3>1 DEF InTyped, LineInv, TypedOnce
  <2>2. AtModem(c)' <=> c = typed[1]
    BY <1>6 DEF AtModem
  <2>3. (InInput(c)' <=> InInput(c)) /\ (InGot(c)' <=> InGot(c))
    BY <1>7, <1>8 DEF InInput, InGot
  <2>4. InTyped(typed[1])
    BY <1>3 DEF InTyped
  <2> QED
    BY <2>1, <2>2, <2>3, <2>4 DEF Alive
<1>12. ModemFits'
  BY <1>3, <1>5, <1>6 DEF ModemFits
<1>13. PromptIsLast'
  <2>1. ~ modem.prompting
    BY <1>1 DEF Quiet
  <2> QED
    BY <1>7, <1>8, <2>1 DEF LineInv, PromptIsLast
<1>14. ReferenceIsFirst'
  <2>1. Referred' => Referred
    BY <1>5, <1>6, <1>7, <1>8 DEF Referred
  <2> QED
    BY <1>5, <1>6, <1>7, <1>8, <2>1 DEF LineInv, ReferenceIsFirst
<1>15. AcceptedIsAnswered'
  <2>1. ~ (Active /\ task.n \in accepted)
    BY <1>1 DEF LineInv, AcceptedIsAnswered
  <2> QED
    BY <1>7, <1>8, <2>1 DEF AcceptedIsAnswered
<1>16. TypedOnce'
  <2>1. \A i, j \in DOMAIN typed' : typed'[i] = typed'[j] => i = j
    <3> SUFFICES ASSUME NEW i \in DOMAIN typed', NEW j \in DOMAIN typed', typed'[i] = typed'[j]
                 PROVE  i = j
      OBVIOUS
    <3>1. i + 1 = j + 1
      BY <1>3 DEF LineInv, TypedOnce
    <3>2. i \in Nat /\ j \in Nat
      BY <1>3
    <3> QED
      BY <3>1, <3>2
  <2> QED
    BY <1>11, <2>1 DEF TypedOnce
<1>17. TerminalIsLast'
  <2>1. \A i \in DOMAIN input : input[i].of \in LineCommands /\ input[i].of # typed[1]
                                /\ ~ InTyped(input[i].of)
    <3>1. \A i \in DOMAIN input : input[i].of \in LineCommands
      BY ReadingTypes
    <3> QED
      BY <1>3, <3>1 DEF LineInv, TerminalIsLast, InTyped
  <2>2. \A i \in DOMAIN Got : Got[i].of \in LineCommands /\ Got[i].of # typed[1]
                              /\ ~ InTyped(Got[i].of)
    <3>1. \A i \in DOMAIN Got : Got[i].of \in LineCommands
      BY ReadingTypes
    <3> QED
      BY <1>3, <3>1 DEF LineInv, TerminalIsLast, InTyped
  <2>3. \A c \in LineCommands : InInput(c)' => InInput(c)
    BY <1>11
  <2>4. \A c \in LineCommands : c # typed[1] /\ ~ InTyped(c) => ~ InTyped(c)' /\ ~ AtModem(c)'
    BY <1>11
  <2>5. \A i \in DOMAIN input : ~ InTyped(input[i].of)' /\ ~ AtModem(input[i].of)'
    BY <1>7, <2>1, <2>4
  <2>6. \A i \in DOMAIN Got : ~ InTyped(Got[i].of)' /\ ~ AtModem(Got[i].of)'
    BY <1>8, <2>2, <2>4
  <2>7. \A i \in DOMAIN Got : Got[i].line \in Finals => ~ InInput(Got[i].of)'
    BY <1>8, <2>2, <2>3 DEF LineInv, TerminalIsLast
  <2> QED
    BY <1>7, <1>8, <2>5, <2>6, <2>7 DEF LineInv, TerminalIsLast
<1>18. WrittenAreAlive'
  BY <1>7, <1>8, <1>11 DEF LineInv, WrittenAreAlive
<1>19. ForgottenAreExcused'
  BY <1>7, <1>8, <1>11, ExcusesStay
<1> QED
  BY <1>10, <1>12, <1>13, <1>14, <1>15, <1>16, <1>17, <1>18, <1>19 DEF LineInv

(* What is left to say, and what a line of it can be.                      *)
LEMMA LeftToSay ==
  ASSUME LineInv, modem.left # <<>>
  PROVE  LET left == modem.left
         IN /\ left \in Seq(LineTexts) /\ Len(left) \in 1 .. 2 /\ Head(left) = left[1]
            /\ left[1] \in LineTexts
            /\ left[1] \in Finals \cup {">"} => Len(left) = 1
            /\ left[1] = "+CMGS" => left = <<"+CMGS", "OK">>
            /\ Len(left) = 2 => /\ Tail(left) \in Replies /\ Tail(left) \in Seq(LineTexts)
                                /\ Tail(left) # <<>> /\ Tail(left) # <<"+CMGS", "OK">>
                                /\ Len(Tail(left)) = 1 /\ Tail(left)[1] = left[2]
<1> DEFINE left == modem.left
<1>1. left \in Seq(LineTexts)
  BY LineNumbers DEF LineModems
<1>2. left \in {<<"OK">>, <<"ERROR">>, <<"+CPMS", "OK">>, <<"text", "OK">>,
                <<"+CLCC", "OK">>, <<">">>, <<"+CMGS", "OK">>}
  BY DEF LineInv, ModemFits, Replies
<1> HIDE DEF left
<1>3. CASE left \in {<<"OK">>, <<"ERROR">>, <<">">>}
  <2>1. Len(left) = 1 /\ Head(left) = left[1] /\ left[1] \in {"OK", "ERROR", ">"}
    BY <1>3
  <2> QED
    BY <1>1, <2>1 DEF left, LineTexts
<1>4. CASE left \in {<<"+CPMS", "OK">>, <<"text", "OK">>, <<"+CLCC", "OK">>, <<"+CMGS", "OK">>}
  <2>1. PICK x \in {"+CPMS", "text", "+CLCC", "+CMGS"} : left = <<x, "OK">>
    BY <1>4
  <2>2. Len(left) = 2 /\ Head(left) = left[1] /\ Tail(left) = <<"OK">> /\ left[2] = "OK"
        /\ left[1] = x
    BY <2>1
  <2>3. <<"OK">> # <<"+CMGS", "OK">> /\ Len(<<"OK">>) = 1 /\ <<"OK">>[1] = "OK"
    OBVIOUS
  <2>4. <<"OK">> \in Replies /\ <<"OK">> \in Seq(LineTexts) /\ <<"OK">> # <<>>
    BY RepliesAreTexts DEF Replies
  <2>5. x \notin Finals \cup {">"} /\ x \in LineTexts
    BY DEF Finals, LineTexts
  <2>6. left[1] = "+CMGS" => left = <<"+CMGS", "OK">>
    BY <2>1, <2>2
  <2>7. /\ Tail(left) \in Replies /\ Tail(left) \in Seq(LineTexts)
        /\ Tail(left) # <<>> /\ Tail(left) # <<"+CMGS", "OK">>
        /\ Len(Tail(left)) = 1 /\ Tail(left)[1] = left[2]
    BY <2>2, <2>3, <2>4
  <2>8. /\ left \in Seq(LineTexts) /\ Len(left) \in 1 .. 2 /\ Head(left) = left[1]
        /\ left[1] \in LineTexts
        /\ left[1] \in Finals \cup {">"} => Len(left) = 1
    BY <1>1, <2>2, <2>5
  <2> QED
    BY <2>6, <2>7, <2>8 DEF left
<1> QED
  BY <1>2, <1>3, <1>4

LEMMA EmitKeepsLine ==
  ASSUME LineInv, Emit
  PROVE  LineInv'
<1> DEFINE left == modem.left
           said == [of |-> modem.of, line |-> left[1]]
<1>1. left # <<>> /\ input' = Append(input, said)
      /\ UNCHANGED <<transport, terminal, task, history, counts>>
  BY LeftToSay DEF Emit
<1>2. /\ left \in Seq(LineTexts) /\ Len(left) \in 1 .. 2 /\ left[1] \in LineTexts
      /\ left[1] \in Finals \cup {">"} => Len(left) = 1
      /\ left[1] = "+CMGS" => left = <<"+CMGS", "OK">>
      /\ Len(left) = 2 => /\ Tail(left) \in Replies /\ Tail(left) \in Seq(LineTexts)
                          /\ Tail(left) # <<>> /\ Tail(left) # <<"+CMGS", "OK">>
                          /\ Len(Tail(left)) = 1 /\ Tail(left)[1] = left[2]
  BY <1>1, LeftToSay
<1>3. modem # Quiet /\ modem.of \in LineCommands /\ ~ modem.prompting /\ modem \in LineModems
  BY <1>1, LineNumbers DEF LineInv, ModemFits, Quiet
<1>5. /\ modem' \in LineModems /\ (modem' = Quiet \/ modem'.of = modem.of)
      /\ modem'.left \in Replies /\ modem'.left # <<"+CMGS", "OK">>
      /\ Len(modem'.left) = Len(left) - 1
      /\ \A i \in DOMAIN modem'.left : i = 1 /\ modem'.left[1] = left[2] /\ 2 \in DOMAIN left
      /\ modem'.prompting <=> left[1] = ">"
      /\ modem'.left = <<>> /\ ~ modem'.prompting => modem' = Quiet
      /\ modem'.prompting => modem'.left = <<>> /\ typed' = <<>>
      /\ left[1] \in Finals => modem' = Quiet
      /\ typed' = typed \/ typed' = <<>>
      /\ left[1] # ">" => typed' = typed
  <2>1. CASE left[1] = ">"
    <3>1. modem' = [modem EXCEPT !.left = <<>>, !.prompting = TRUE, !.text = typed]
          /\ typed' = <<>> /\ Len(left) = 1
      BY <1>1, <1>2, <2>1, LeftToSay DEF Emit
    <3>2. modem'.left = <<>> /\ modem'.prompting /\ modem'.of = modem.of
          /\ modem' \in LineModems
      <4>1. <<>> \in Seq(LineTexts) /\ typed \in Seq(LineCommands)
        BY LineNumbers
      <4> QED
        BY <1>3, <3>1, <4>1 DEF LineModems
    <3>3. <<>> \in Replies /\ <<>> # <<"+CMGS", "OK">> /\ ">" \notin Finals
      BY DEF Replies, Finals
    <3> QED
      BY <2>1, <3>1, <3>2, <3>3
  <2>2. CASE left[1] # ">" /\ Len(left) = 1
    <3>1. modem' = Quiet /\ typed' = typed
      BY <1>1, <2>2, LeftToSay DEF Emit
    <3>2. Quiet.left = <<>> /\ ~ Quiet.prompting /\ Quiet \in LineModems
      BY DEF Quiet, LineModems
    <3>3. <<>> \in Replies /\ <<>> # <<"+CMGS", "OK">>
      BY DEF Replies
    <3> QED
      BY <2>2, <3>1, <3>2, <3>3
  <2>3. CASE left[1] # ">" /\ Len(left) = 2
    <3>1. modem' = [modem EXCEPT !.left = Tail(left)] /\ typed' = typed
      BY <1>1, <2>3, LeftToSay DEF Emit
    <3>2. modem'.left = Tail(left) /\ ~ modem'.prompting /\ modem'.of = modem.of
          /\ modem' \in LineModems
      BY <1>2, <1>3, <2>3, <3>1 DEF LineModems
    <3>3. \A i \in DOMAIN Tail(left) : i = 1 /\ Tail(left)[1] = left[2] /\ 2 \in DOMAIN left
      <4>1. Tail(left) \in Seq(LineTexts) /\ Len(Tail(left)) = 1 /\ Tail(left)[1] = left[2]
        BY <1>2, <2>3
      <4>2. DOMAIN Tail(left) = 1 .. 1
        <5>1. \A t \in Seq(LineTexts) : DOMAIN t = 1 .. Len(t)
          OBVIOUS
        <5> QED
          BY <4>1, <5>1
      <4>3. 2 \in DOMAIN left
        BY <1>2, <2>3
      <4> QED
        BY <4>1, <4>2, <4>3
    <3>4. modem'.left \in Replies /\ modem'.left # <<"+CMGS", "OK">> /\ modem'.left # <<>>
          /\ Len(modem'.left) = Len(left) - 1 /\ left[1] \notin Finals
      BY <1>2, <2>3, <3>2
    <3> QED
      BY <2>3, <3>1, <3>2, <3>3, <3>4
  <2> QED
    BY <1>2, <2>1, <2>2, <2>3
<1>6. UNCHANGED <<task, accepted, givenUp, strays, tasks>>
  BY <1>1 DEF history, counts
<1>7. (Active' <=> Active) /\ (Waiting' <=> Waiting) /\ Got' = Got /\ Now' = Now
  BY <1>6, GotStays
<1>8. /\ said \in LineReadings /\ said.of = modem.of /\ said.line = left[1]
      /\ input' \in Seq(LineReadings) /\ Len(input') = Len(input) + 1 /\ Len(input) \in Nat
      /\ \A i \in DOMAIN input : input'[i] = input[i] /\ i \in DOMAIN input'
                                 /\ i \in 1 .. Len(input)
      /\ input'[Len(input) + 1] = said
      /\ \A i \in DOMAIN input' : i \in DOMAIN input \/ i = Len(input) + 1
  <2>1. said \in LineReadings
    BY <1>2, <1>3 DEF LineReadings
  <2> HIDE DEF said
  <2>2. input \in Seq(LineReadings) /\ Len(input) \in Nat
    BY LineNumbers
  <2>3. /\ input' \in Seq(LineReadings) /\ Len(input') = Len(input) + 1
        /\ \A i \in DOMAIN input : input'[i] = input[i] /\ i \in DOMAIN input'
        /\ input'[Len(input) + 1] = said
        /\ \A i \in DOMAIN input' : i \in DOMAIN input \/ i = Len(input) + 1
    BY <1>1, <2>1, <2>2, AppendedTo
  <2> QED
    BY <2>1, <2>2, <2>3 DEF said
<1> HIDE DEF left, said
<1>9. LineTyped' /\ TaskFits' /\ TypedIsBounded' /\ TerminalFits' /\ BridgeIsApart'
      /\ SayingsFit'
  <2>1. transport # "bridge"
    BY <1>3 DEF LineInv, BridgeIsApart
  <2>2. typed' \in Seq(LineCommands) /\ Len(typed') <= Len(typed)
    <3>1. typed \in Seq(LineCommands) /\ Len(typed) \in Nat /\ <<>> \in Seq(LineCommands)
          /\ Len(<<>>) = 0
      BY LineNumbers
    <3>2. CASE typed' = typed
      BY <3>1, <3>2
    <3>3. CASE typed' = <<>>
      BY <3>1, <3>3
    <3> QED
      BY <1>5, <3>2, <3>3
  <2> QED
    BY <1>1, <1>5, <1>8, <2>1, <2>2, LineMoves
<1>10. \A c \in LineCommands :
         /\ InTyped(c)' => InTyped(c)
         /\ AtModem(c)' => AtModem(c)
         /\ InInput(c)' => InInput(c) \/ c = modem.of
         /\ InGot(c)' <=> InGot(c)
         /\ Alive(c)' => Alive(c)
  <2> SUFFICES ASSUME NEW c \in LineCommands
               PROVE  /\ InTyped(c)' => InTyped(c)
                      /\ AtModem(c)' => AtModem(c)
                      /\ InInput(c)' => InInput(c) \/ c = modem.of
                      /\ InGot(c)' <=> InGot(c)
                      /\ Alive(c)' => Alive(c)
    OBVIOUS
  <2>1. InTyped(c)' => InTyped(c)
    BY <1>5 DEF InTyped
  <2>2. AtModem(c)' => AtModem(c)
    BY <1>3, <1>5 DEF AtModem
  <2>3. InInput(c)' => InInput(c) \/ c = modem.of
    BY <1>8 DEF InInput
  <2>4. InGot(c)' <=> InGot(c)
    BY <1>7 DEF InGot
  <2>5. AtModem(modem.of)
    BY <1>3 DEF AtModem
  <2> QED
    BY <2>1, <2>2, <2>3, <2>4, <2>5 DEF Alive
<1>11. ModemFits'
  <2>1. modem' # Quiet => modem'.of \in LineCommands
    BY <1>3, <1>5
  <2> QED
    BY <1>5, <2>1 DEF ModemFits
<1>12. PromptIsLast'
  <2>1. (\A i \in DOMAIN input : input[i].line # ">") /\ (\A i \in DOMAIN Got : Got[i].line # ">")
    BY <1>3 DEF LineInv, PromptIsLast
  <2> QED
    BY <1>5, <1>7, <1>8, <2>1 DEF PromptIsLast
<1>13. ReferenceIsFirst'
  <2>1. left[1] = "+CMGS" => Len(input) = 0 /\ Got = <<>> /\ Referred
    BY <1>2 DEF LineInv, ReferenceIsFirst, Referred, left
  <2>2. Referred' => Referred
    BY <1>5, <1>7, <1>8, <2>1 DEF Referred
  <2>3. \A i \in DOMAIN input' : input'[i].line = "+CMGS" => i = 1 /\ Got = <<>>
    BY <1>8, <2>1 DEF LineInv, ReferenceIsFirst
  <2> QED
    BY <1>5, <1>6, <1>7, <2>2, <2>3 DEF LineInv, ReferenceIsFirst
<1>14. AcceptedIsAnswered'
  <2> SUFFICES ASSUME Active, task.n \in accepted
               PROVE  AcceptedIsAnswered'
    BY <1>6, <1>7 DEF AcceptedIsAnswered
  <2>1. /\ task.kind = "send" /\ task.next = 3 /\ task.at \in {"answer", "answered"}
        /\ typed = <<>> /\ Len(task.got) + Len(input) + Len(left) = 2
        /\ \A i \in DOMAIN task.got : task.got[i].line = Reply[i]
        /\ \A i \in DOMAIN input : input[i].line = Reply[Len(task.got) + i]
        /\ \A i \in DOMAIN left : left[i] = Reply[Len(task.got) + Len(input) + i]
    BY DEF LineInv, AcceptedIsAnswered, left
  <2>2. Len(task.got) \in Nat
    BY LineNumbers, TaskNumbers
  <2>3. 1 \in DOMAIN left /\ Len(task.got) + Len(input) + 1 \in {1, 2}
        /\ left[1] = Reply[Len(task.got) + Len(input) + 1]
    BY <1>2, <1>8, <2>1, <2>2
  <2>4. left[1] # ">"
    BY <2>3 DEF Reply
  <2>5. \A i \in DOMAIN input' : input'[i].line = Reply[Len(task.got) + i]
    <3> SUFFICES ASSUME NEW i \in DOMAIN input'
                 PROVE  input'[i].line = Reply[Len(task.got) + i]
      OBVIOUS
    <3>1. CASE i \in DOMAIN input
      BY <1>8, <2>1, <3>1
    <3>2. CASE i = Len(input) + 1
      <4>1. Len(task.got) + i = Len(task.got) + Len(input) + 1
        <5>1. Len(input) \in Nat
          BY <1>8
        <5>2. \A a, b \in Nat : a + (b + 1) = a + b + 1
          OBVIOUS
        <5> QED
          BY <2>2, <3>2, <5>1, <5>2, Zenon
      <4> QED
        BY <1>8, <2>3, <3>2, <4>1
    <3> QED
      BY <1>8, <3>1, <3>2
  <2>6. \A i \in DOMAIN modem'.left : modem'.left[i] = Reply[Len(task.got) + Len(input') + i]
    <3> SUFFICES ASSUME NEW i \in DOMAIN modem'.left
                 PROVE  modem'.left[i] = Reply[Len(task.got) + Len(input') + i]
      OBVIOUS
    <3>1. i = 1 /\ modem'.left[1] = left[2] /\ 2 \in DOMAIN left
      BY <1>5
    <3>2. Len(task.got) + Len(input') + i = Len(task.got) + Len(input) + 2
      <4>1. Len(input) \in Nat /\ Len(input') = Len(input) + 1
        BY <1>8
      <4>2. i = 1
        BY <3>1
      <4>3. \A a, b \in Nat : a + (b + 1) + 1 = a + b + 2
        OBVIOUS
      <4> QED
        BY <2>2, <4>1, <4>2, <4>3, Zenon
    <3> QED
      BY <2>1, <3>1, <3>2
  <2>7. Len(task.got) + Len(input') + Len(modem'.left) = 2
    <3>2. Len(left) \in Nat /\ Len(left) - 1 = Len(modem'.left)
      BY <1>2, <1>5
    <3>3. Len(input) \in Nat /\ Len(input') = Len(input) + 1
      BY <1>8
    <3>4. Len(task.got) + Len(input) + Len(left) = 2
      BY <2>1
    <3>5. Len(modem'.left) = Len(left) - 1
      BY <3>2
    <3>6. Len(left) \in Nat
      BY <3>2
    <3>7. \A a, b, c \in Nat : a + b + c = 2 => a + (b + 1) + (c - 1) = 2
      OBVIOUS
    <3>8. Len(task.got) + (Len(input) + 1) + (Len(left) - 1) = 2
      BY <2>2, <3>3, <3>4, <3>6, <3>7, Zenon
    <3> QED
      BY <3>3, <3>5, <3>8, Zenon
  <2> QED
    BY <1>5, <1>6, <1>7, <2>1, <2>4, <2>5, <2>6, <2>7 DEF AcceptedIsAnswered
<1>15. TypedOnce'
  <2>1. \A i, j \in DOMAIN typed' : typed'[i] = typed'[j] => i = j
    BY <1>5 DEF LineInv, TypedOnce
  <2> QED
    BY <1>10, <2>1 DEF LineInv, TypedOnce
<1>16. TerminalIsLast'
  <2>1. ~ InTyped(modem.of) /\ AtModem(modem.of)
    BY <1>3 DEF LineInv, TypedOnce, AtModem
  <2>2. \A i \in DOMAIN input' : input'[i].of \in LineCommands
    BY <1>3, <1>8, ReadingTypes
  <2>3. \A i \in DOMAIN input' : ~ InTyped(input[i].of)'
    <3> SUFFICES ASSUME NEW i \in DOMAIN input', NEW c \in LineCommands, c = input'[i].of
                 PROVE  ~ InTyped(c)'
      BY <2>2 DEF InTyped
    <3>1. ~ InTyped(c)
      BY <1>8, <2>1 DEF LineInv, TerminalIsLast
    <3> QED
      BY <1>10, <3>1
  <2>4. \A i \in DOMAIN Got : ~ InTyped(Got[i].of)'
    <3> SUFFICES ASSUME NEW i \in DOMAIN Got, NEW c \in LineCommands, c = Got[i].of
                 PROVE  ~ InTyped(c)'
      BY <1>7, ReadingTypes DEF InTyped
    <3> QED
      BY <1>10 DEF LineInv, TerminalIsLast
  <2>5. ASSUME NEW i \in DOMAIN input', input'[i].line \in Finals,
               NEW c \in LineCommands, c = input'[i].of
        PROVE  ~ AtModem(c)' /\ \A j \in DOMAIN input' : j > i => input'[j].of # c
    <3>1. CASE i \in DOMAIN input
      <4>1. ~ AtModem(c) /\ \A j \in DOMAIN input : j > i => input[j].of # c
        BY <1>8, <2>5, <3>1 DEF LineInv, TerminalIsLast
      <4>2. c # modem.of
        BY <2>1, <4>1
      <4> QED
        BY <1>8, <1>10, <4>1, <4>2
    <3>2. CASE i = Len(input) + 1
      <4>1. modem' = Quiet
        BY <1>5, <1>8, <2>5, <3>2
      <4>2. ~ AtModem(c)'
        BY <4>1 DEF AtModem
      <4>3. \A j \in DOMAIN input' : ~ (j > i)
        BY <1>8, <3>2
      <4> QED
        BY <4>2, <4>3
    <3> QED
      BY <1>8, <3>1, <3>2
  <2>6. ASSUME NEW i \in DOMAIN Got, Got[i].line \in Finals,
               NEW c \in LineCommands, c = Got[i].of
        PROVE  ~ AtModem(c)' /\ ~ InInput(c)'
    <3>1. ~ AtModem(c) /\ ~ InInput(c)
      BY <2>6 DEF LineInv, TerminalIsLast
    <3> QED
      BY <1>10, <2>1, <3>1
  <2>7. \A i \in DOMAIN input' : input'[i].line \in Finals =>
          /\ ~ AtModem(input[i].of)'
          /\ \A j \in DOMAIN input' : j > i => input'[j].of # input'[i].of
    BY <2>2, <2>5 DEF AtModem
  <2>8. \A i \in DOMAIN Got' : Got'[i].line \in Finals =>
          ~ AtModem(Got[i].of)' /\ ~ InInput(Got[i].of)'
    BY <1>7, <2>6, ReadingTypes DEF AtModem, InInput
  <2> QED
    BY <1>7, <2>3, <2>4, <2>7, <2>8 DEF TerminalIsLast
<1>17. WrittenAreAlive'
  BY <1>6, <1>7, <1>10 DEF LineInv, WrittenAreAlive
<1>18. ForgottenAreExcused'
  BY <1>6, <1>7, <1>10, ExcusesStay
<1> QED
  BY <1>9, <1>11, <1>12, <1>13, <1>14, <1>15, <1>16, <1>17, <1>18 DEF LineInv

(* A command is written: it alone is new, and nothing has come yet.        *)
LEMMA WriteKeepsLine ==
  ASSUME LineInv, Write
  PROVE  LineInv'
<1>1. /\ Active /\ ~ Waiting /\ task.at = "ready" /\ transport # "bridge" /\ input' = <<>>
      /\ UNCHANGED <<transport, terminal, history, counts>>
  BY DEF Write, Doing, Active, Waiting
<1>2. UNCHANGED <<transport, holder, settings, restores, givenUp, strays, accepted, sayings,
                  tasks, crashed>>
  BY <1>1 DEF terminal, history, counts
<1>3. PICK at \in {"prompt", "answer"} :
        /\ task' = [task EXCEPT !.at = at]
        /\ at = "prompt" => Now.what = "submit"
  BY DEF Write
<1>4. task \in LineTasks /\ Now \in LineCommands /\ task.got = <<>> /\ Got = <<>>
      /\ task.n = tasks /\ task.next \in 1 .. 3
  BY <1>1, TaskNumbers DEF LineInv, TaskFits
<1>5. /\ task'.at = at /\ task'.kind = task.kind /\ task'.n = task.n
      /\ task'.next = task.next /\ task'.got = <<>> /\ task' \in LineTasks
  BY <1>3, <1>4 DEF LineTasks, Steps
<1>6. Active' /\ Waiting' /\ Got' = <<>> /\ Now' = Now
  BY <1>5 DEF Active, Waiting, Got, Now
<1>7. ~ Alive(Now)
  BY <1>1, NowIsNew DEF LineInv
<1>8. /\ modem' \in LineModems /\ modem'.of = modem.of /\ modem'.left = modem.left
      /\ modem'.prompting = modem.prompting
      /\ modem.prompting => modem' # Quiet
      /\ ~ modem.prompting => modem' = modem
      /\ IF modem.prompting THEN typed' = typed ELSE typed' = Append(typed, Now)
  <2>1. CASE modem.prompting
    <3>1. modem' = [modem EXCEPT !.text = Append(@, Now)] /\ typed' = typed
      BY <2>1 DEF Write, Type
    <3>2. modem \in LineModems /\ Append(modem.text, Now) \in Seq(LineCommands)
      <4>1. modem \in LineModems /\ modem.text \in Seq(LineCommands)
        BY LineNumbers DEF LineModems
      <4> QED
        BY <1>4, <4>1
    <3>3. modem'.prompting /\ ~ Quiet.prompting
      BY <2>1, <3>1, <3>2 DEF Quiet, LineModems
    <3> QED
      BY <2>1, <3>1, <3>2, <3>3 DEF LineModems
  <2>2. CASE ~ modem.prompting
    BY <2>2, LineNumbers DEF Write, Type
  <2> QED
    BY <2>1, <2>2
<1>9. /\ typed' \in Seq(LineCommands) /\ Len(typed) \in Nat
      /\ Len(typed') <= Len(typed) + 1
      /\ \A i \in DOMAIN typed : typed'[i] = typed[i] /\ i \in 1 .. Len(typed)
      /\ \A i \in DOMAIN typed' : i \in DOMAIN typed \/ (i = Len(typed) + 1 /\ typed'[i] = Now)
  <2>1. typed \in Seq(LineCommands) /\ Len(typed) \in Nat
    BY LineNumbers
  <2>2. CASE typed' = typed
    BY <2>1, <2>2
  <2>3. CASE typed' = Append(typed, Now)
    BY <1>4, <2>1, <2>3, AppendedTo
  <2> QED
    BY <1>8, <2>2, <2>3
<1>10. LineTyped'
  BY <1>1, <1>2, <1>5, <1>8, <1>9 DEF LineInv, LineTyped
<1>11. TaskFits'
  BY <1>2, <1>3, <1>4, <1>5, <1>6 DEF TaskFits, Has
<1>12. TypedIsBounded'
  <2>1. Len(typed) <= 3 * (tasks - 1) + (task.next - 1)
    BY <1>1 DEF LineInv, TypedIsBounded
  <2>2. Len(typed') \in Nat /\ Len(typed') <= Len(typed) + 1 /\ Len(typed) \in Nat
        /\ tasks \in Nat
    BY <1>9, LineNumbers
  <2>3. \A a, b, t, n \in Int : a <= b + 1 /\ b <= 3 * (t - 1) + (n - 1) => a <= 3 * (t - 1) + n
    OBVIOUS
  <2>4. Len(typed') <= 3 * (tasks - 1) + task.next
    BY <1>4, <2>1, <2>2, <2>3
  <2> QED
    BY <1>2, <1>5, <1>6, <2>4 DEF TypedIsBounded
<1>13. TerminalFits' /\ BridgeIsApart' /\ SayingsFit'
  BY <1>1, <1>2, <1>5, <1>6 DEF LineInv, TerminalFits, BridgeIsApart, SayingsFit, SayingIsTrue
<1>14. DOMAIN input' = {} /\ DOMAIN Got' = {}
  BY <1>1, <1>6
<1>15. \A c \in LineCommands :
         /\ InTyped(c)' => InTyped(c) \/ c = Now
         /\ AtModem(c)' <=> AtModem(c)
         /\ Alive(c)' => Alive(c) \/ c = Now
  <2> SUFFICES ASSUME NEW c \in LineCommands
               PROVE  /\ InTyped(c)' => InTyped(c) \/ c = Now
                      /\ AtModem(c)' <=> AtModem(c)
                      /\ Alive(c)' => Alive(c) \/ c = Now
    OBVIOUS
  <2>1. InTyped(c)' => InTyped(c) \/ c = Now
    BY <1>9 DEF InTyped
  <2>2. modem' # Quiet <=> modem # Quiet
    <3>1. modem.prompting => modem # Quiet
      BY DEF Quiet
    <3> QED
      BY <1>8, <3>1
  <2>3. AtModem(c)' <=> AtModem(c)
    BY <1>8, <2>2 DEF AtModem
  <2>4. ~ InInput(c)' /\ ~ InGot(c)'
    BY <1>14 DEF InInput, InGot
  <2> QED
    BY <2>1, <2>3, <2>4 DEF Alive
<1>16. ModemFits'
  <2>1. CASE modem.prompting
    <3>1. modem # Quiet
      BY <2>1 DEF Quiet
    <3> QED
      BY <1>8, <2>1, <3>1 DEF LineInv, ModemFits
  <2>2. CASE ~ modem.prompting
    BY <1>8, <2>2 DEF LineInv, ModemFits
  <2> QED
    BY <2>1, <2>2
<1>17. PromptIsLast' /\ TerminalIsLast'
  BY <1>14 DEF PromptIsLast, TerminalIsLast
<1>18. ReferenceIsFirst'
  <2>1. task.kind = "send" /\ task.next > 1 => ~ Referred
    BY <1>1 DEF LineInv, ReferenceIsFirst, Waiting
  <2>2. Referred' => Referred
    BY <1>8, <1>14 DEF Referred
  <2> QED
    BY <1>1, <1>5, <1>6, <1>14, <2>1, <2>2 DEF ReferenceIsFirst
<1>19. AcceptedIsAnswered'
  BY <1>1, <1>2, <1>5 DEF LineInv, AcceptedIsAnswered, Waiting
<1>20. TypedOnce'
  <2>1. \A i, j \in DOMAIN typed' : typed'[i] = typed'[j] => i = j
    <3>1. \A i \in DOMAIN typed : typed[i] # Now
      BY <1>7 DEF Alive, InTyped
    <3> QED
      BY <1>9, <3>1 DEF LineInv, TypedOnce
  <2>2. ~ AtModem(Now)
    BY <1>7 DEF Alive
  <2> QED
    BY <1>15, <2>1, <2>2 DEF LineInv, TypedOnce
<1>21. WrittenAreAlive'
  <2> SUFFICES ASSUME NEW c \in LineCommands, Alive(c)'
               PROVE  /\ c.n <= tasks'
                      /\ c.n = task'.n =>
                           \E k \in 1 .. 3 : /\ c.what = Script(task'.kind)[k]
                                             /\ k < task'.next \/ (k = task'.next /\ Waiting')
    BY DEF WrittenAreAlive
  <2>1. CASE Alive(c)
    BY <1>1, <1>2, <1>5, <2>1 DEF LineInv, WrittenAreAlive
  <2>2. CASE c = Now
    <3>1. c.n = task.n /\ c.what = Script(task.kind)[task.next]
      BY <1>1, <2>2, NowIsCommand DEF LineInv
    <3> QED
      BY <1>2, <1>4, <1>5, <1>6, <3>1, LineNumbers
  <2> QED
    BY <1>15, <2>1, <2>2
<1>22. ForgottenAreExcused'
  BY <1>1, <1>2, <1>6, <1>15, ExcusesStay
<1> QED
  BY <1>10, <1>11, <1>12, <1>13, <1>16, <1>17, <1>18, <1>19, <1>20, <1>21, <1>22 DEF LineInv

(* The message breaks off: what was read is lost, and the task is over.    *)
LEMMA MessageBreaksKeepsLine ==
  ASSUME LineInv, MessageBreaks
  PROVE  LineInv'
<1>1. /\ Active /\ Waiting /\ task.at = "prompt" /\ input' = <<>> /\ Finish("uncertain")
      /\ givenUp' = givenUp \cup {Now}
      /\ UNCHANGED <<transport, typed, strays, accepted, tasks, crashed>>
  BY DEF MessageBreaks, Doing, Active, Waiting
<1>2. "uncertain" \in Sayings /\ IsTrueOfTask("uncertain")
  BY DEF Sayings, IsTrueOfTask
<1>3. /\ task' = Resting /\ ~ Active' /\ ~ Waiting' /\ Got' = <<>>
      /\ TaskFits' /\ TypedIsBounded' /\ TerminalFits' /\ SayingsFit'
      /\ holder' \in {"nobody", "task", "ghost"}
      /\ {settings', restores'} \subseteq {"system", "raw"}
      /\ accepted' \subseteq 1 .. tasks'
      /\ sayings' \in [1 .. MaxTasks -> Sayings]
  BY <1>1, <1>2, FinishEnds
<1>4. /\ modem' \in LineModems /\ modem'.of = modem.of /\ modem'.left = modem.left
      /\ modem'.prompting = modem.prompting
      /\ modem' # Quiet <=> modem # Quiet
  <2>1. modem \in LineModems /\ modem.text \in Seq(LineCommands) /\ Now \in LineCommands
    BY <1>1, LineNumbers, TaskNumbers DEF LineModems
  <2>2. CASE modem.prompting
    <3>1. modem' = [modem EXCEPT !.text = Append(@, Now)]
      BY <2>2 DEF MessageBreaks
    <3>2. Append(modem.text, Now) \in Seq(LineCommands)
      BY <2>1
    <3>3. modem'.prompting /\ ~ Quiet.prompting
      BY <2>1, <2>2, <3>1 DEF Quiet, LineModems
    <3> QED
      BY <2>1, <2>2, <3>1, <3>2, <3>3 DEF LineModems
  <2>3. CASE ~ modem.prompting
    BY <2>1, <2>3 DEF MessageBreaks
  <2> QED
    BY <2>2, <2>3
<1>5. input' \in Seq(LineReadings) /\ DOMAIN input' = {} /\ DOMAIN Got' = {}
  BY <1>1, <1>3
<1>6. LineTyped'
  BY <1>1, <1>3, <1>4, <1>5 DEF LineInv, LineTyped
<1>7. BridgeIsApart'
  BY <1>1 DEF LineInv, BridgeIsApart
<1>8. \A c \in LineCommands :
        (InTyped(c)' <=> InTyped(c)) /\ (AtModem(c)' <=> AtModem(c)) /\ (Alive(c)' => Alive(c))
  <2> SUFFICES ASSUME NEW c \in LineCommands
               PROVE  (InTyped(c)' <=> InTyped(c)) /\ (AtModem(c)' <=> AtModem(c))
                      /\ (Alive(c)' => Alive(c))
    OBVIOUS
  <2>1. ~ InInput(c)' /\ ~ InGot(c)'
    BY <1>5 DEF InInput, InGot
  <2>2. (InTyped(c)' <=> InTyped(c)) /\ (AtModem(c)' <=> AtModem(c))
    BY <1>1, <1>4 DEF InTyped, AtModem
  <2> QED
    BY <2>1, <2>2 DEF Alive
<1>9. ModemFits'
  BY <1>1, <1>4 DEF LineInv, ModemFits
<1>10. PromptIsLast' /\ TerminalIsLast' /\ ReferenceIsFirst' /\ AcceptedIsAnswered'
  BY <1>1, <1>3, <1>5 DEF PromptIsLast, TerminalIsLast, ReferenceIsFirst, AcceptedIsAnswered
<1>11. TypedOnce'
  BY <1>1, <1>8 DEF LineInv, TypedOnce
<1>12. WrittenAreAlive'
  BY <1>1, <1>3, <1>8 DEF LineInv, WrittenAreAlive
<1>13. ForgottenAreExcused'
  <2>1. \A c : c = Now => Excused(c)'
    BY <1>1 DEF Excused
  <2> QED
    BY <1>1, <1>8, <2>1, ExcusesStay
<1> QED
  BY <1>3, <1>6, <1>7, <1>9, <1>10, <1>11, <1>12, <1>13 DEF LineInv

(* A read takes lines from the input; a terminal line or a prompt brings   *)
(* the task on, and a prompt the message to the modem.                     *)
LEMMA ReceiveKeepsLine ==
  ASSUME LineInv, NEW k \in 1 .. Len(input), Receive(k)
  PROVE  LineInv'
<1> DEFINE all == task.got \o SubSeq(input, 1, k)
<1>1. /\ Active /\ Waiting /\ task.at \in {"answer", "prompt"} /\ transport # "bridge"
      /\ input' = SubSeq(input, k + 1, Len(input))
      /\ UNCHANGED <<transport, terminal, typed, givenUp, strays, sayings, counts>>
  BY DEF Receive, Doing, Active, Waiting, LineInv, BridgeIsApart
<1>2. UNCHANGED <<transport, holder, settings, restores, typed, givenUp, strays, sayings,
                  tasks, crashed>>
  BY <1>1 DEF terminal, counts
<1>3. /\ task \in LineTasks /\ Now \in LineCommands /\ Got = task.got
      /\ task.got \in Seq(LineReadings) /\ task.n = tasks /\ task.next \in 1 .. 3
      /\ Len(task.got) \in Nat /\ Len(input) \in Nat /\ input \in Seq(LineReadings)
  BY <1>1, TaskNumbers, LineNumbers
<1>4. /\ input' \in Seq(LineReadings) /\ Len(input') = Len(input) - k /\ Len(input') \in Nat
      /\ \A i \in DOMAIN input' : i \in Nat /\ input'[i] = input[k + i] /\ k + i \in DOMAIN input
                                  /\ k + i # 1
  <2>1. /\ input' \in Seq(LineReadings) /\ Len(input') = Len(input) - k
        /\ \A i \in DOMAIN input' : input'[i] = input[k + i] /\ k + i \in DOMAIN input
    BY <1>1, <1>3, CutAfter
  <2>2. \A i \in DOMAIN input' : i \in Nat /\ i >= 1
    BY <2>1
  <2> QED
    BY <1>3, <2>1, <2>2
<1>5. /\ all \in Seq(LineReadings) /\ Len(all) = Len(task.got) + k /\ Len(all) \in Nat
      /\ \A i \in DOMAIN task.got : all[i] = task.got[i]
      /\ \A i \in 1 .. k : all[Len(task.got) + i] = input[i]
      /\ \A i \in DOMAIN all :
           i \in DOMAIN task.got \/ (i - Len(task.got) \in 1 .. k /\ i - Len(task.got) \in DOMAIN input)
      /\ all # <<>>
  <2>1. /\ all \in Seq(LineReadings) /\ Len(all) = Len(task.got) + k
        /\ \A i \in DOMAIN task.got : all[i] = task.got[i]
        /\ \A i \in 1 .. k : all[Len(task.got) + i] = input[i]
        /\ \A i \in DOMAIN all :
             i \in DOMAIN task.got \/ (i - Len(task.got) \in 1 .. k /\ i - Len(task.got) \in DOMAIN input)
    BY <1>3, ReadOn
  <2> HIDE DEF all
  <2>2. k \in Nat /\ k >= 1
    BY <1>3
  <2>3. Len(all) \in Nat /\ Len(all) # 0
    <3>1. \A a, b \in Nat : b >= 1 => a + b \in Nat /\ a + b # 0
      OBVIOUS
    <3> QED
      BY <1>3, <2>1, <2>2, <3>1, Zenon
  <2>4. all # <<>>
    BY <2>3
  <2> QED
    BY <2>1, <2>3, <2>4
<1>6. \A i \in DOMAIN all : \/ i \in DOMAIN task.got /\ all[i] = task.got[i]
                            \/ \E j \in DOMAIN input : j \in 1 .. k /\ i = Len(task.got) + j
                                                       /\ all[i] = input[j]
  <2> SUFFICES ASSUME NEW i \in DOMAIN all, i \notin DOMAIN task.got
               PROVE  \E j \in DOMAIN input : j \in 1 .. k /\ i = Len(task.got) + j
                                              /\ all[i] = input[j]
    BY <1>5
  <2> DEFINE j == i - Len(task.got)
  <2>1. j \in 1 .. k /\ j \in DOMAIN input
    BY <1>5
  <2>2. i \in Nat /\ i = Len(task.got) + j
    BY <1>3, <1>5
  <2> QED
    BY <1>5, <2>1, <2>2
<1>7. ~ Has(task.got, Finals)
  BY <1>1 DEF LineInv, TaskFits
<1>8. PICK at \in Steps \ {"resting"}, got \in {all, <<>>} :
        /\ task' = [task EXCEPT !.got = got, !.at = at]
        /\ \/ /\ Has(all, Finals) /\ got = all
              /\ at = IF task.at = "prompt" THEN "rejected" ELSE "answered"
              /\ UNCHANGED <<modem, accepted>>
           \/ /\ ~ Has(all, Finals) /\ task.at = "prompt" /\ Has(all, {">"})
              /\ got = <<>> /\ at = "answer" /\ TypeMessage(task.n)
           \/ /\ ~ Has(all, Finals) /\ got = all /\ at = task.at
              /\ UNCHANGED <<modem, accepted>>
  <2> DEFINE Reads(at, got) ==
        /\ task' = [task EXCEPT !.got = got, !.at = at]
        /\ \/ /\ Has(all, Finals) /\ got = all
              /\ at = IF task.at = "prompt" THEN "rejected" ELSE "answered"
              /\ UNCHANGED <<modem, accepted>>
           \/ /\ ~ Has(all, Finals) /\ task.at = "prompt" /\ Has(all, {">"})
              /\ got = <<>> /\ at = "answer" /\ TypeMessage(task.n)
           \/ /\ ~ Has(all, Finals) /\ got = all /\ at = task.at
              /\ UNCHANGED <<modem, accepted>>
  <2>1. CASE Has(all, Finals) /\ task.at = "prompt"
    <3>1. task' = [task EXCEPT !.got = all, !.at = "rejected"] /\ UNCHANGED <<modem, accepted>>
      BY <1>3, <2>1 DEF Receive, LineTasks
    <3>2. Reads("rejected", all)
      BY <2>1, <3>1
    <3>3. "rejected" \in Steps \ {"resting"}
      BY DEF Steps
    <3> QED
      BY <3>2, <3>3
  <2>2. CASE Has(all, Finals) /\ task.at = "answer"
    <3>1. task' = [task EXCEPT !.got = all, !.at = "answered"] /\ UNCHANGED <<modem, accepted>>
      BY <1>3, <2>2 DEF Receive, LineTasks
    <3>2. Reads("answered", all)
      BY <2>2, <3>1
    <3>3. "answered" \in Steps \ {"resting"}
      BY DEF Steps
    <3> QED
      BY <3>2, <3>3
  <2>3. CASE ~ Has(all, Finals) /\ task.at = "prompt" /\ Has(all, {">"})
    <3>1. task' = [task EXCEPT !.got = <<>>, !.at = "answer"] /\ TypeMessage(task.n)
      BY <2>3 DEF Receive, Doing
    <3>2. Reads("answer", <<>>)
      BY <2>3, <3>1
    <3>3. "answer" \in Steps \ {"resting"}
      BY DEF Steps
    <3> QED
      BY <3>2, <3>3
  <2>4. CASE ~ Has(all, Finals) /\ ~ (task.at = "prompt" /\ Has(all, {">"}))
    <3>1. task' = [task EXCEPT !.got = all] /\ UNCHANGED <<modem, accepted>>
      BY <2>4 DEF Receive, Doing
    <3>2. task' = [task EXCEPT !.got = all, !.at = task.at] /\ task.at \in Steps \ {"resting"}
      BY <1>3, <3>1 DEF LineTasks
    <3>3. Reads(task.at, all)
      BY <2>4, <3>1, <3>2
    <3> QED
      BY <3>2, <3>3
  <2> QED
    BY <1>1, <2>1, <2>2, <2>3, <2>4
<1> HIDE DEF all
<1>9. /\ task'.at = at /\ task'.kind = task.kind /\ task'.n = task.n
      /\ task'.next = task.next /\ task'.got = got /\ task' \in LineTasks
      /\ got \in Seq(LineReadings) /\ at \in {"answered", "rejected", "answer", "prompt"}
  <2>1. got \in Seq(LineReadings)
    <3>1. got = all \/ got = <<>>
      BY <1>8
    <3>2. <<>> \in Seq(LineReadings)
      OBVIOUS
    <3> QED
      BY <1>5, <3>1, <3>2
  <2>2. at \in {"answered", "rejected", "answer", "prompt"}
    BY <1>1, <1>8
  <2> QED
    BY <1>3, <1>8, <2>1, <2>2 DEF LineTasks
<1>10. Active' /\ Waiting' /\ Got' = got /\ Now' = Now
  BY <1>9 DEF Active, Waiting, Got, Now
<1>11. task.at = "prompt" => task.n \notin accepted /\ task.kind = "send" /\ task.next = 3
  BY <1>1, NowIsCommand DEF LineInv, TaskFits, AcceptedIsAnswered
<1>12. TaskFits'
  <2>1. Now.what = "submit" <=> task.kind = "send" /\ task.next = 3
    BY <1>1, NowIsCommand DEF LineInv
  <2>2. /\ at \in {"prompt", "rejected"} => task.at = "prompt"
        /\ at \in {"prompt", "answer"} => ~ Has(got, Finals)
        /\ at \in {"answered", "rejected"} => Has(got, Finals)
    <3>1. ~ Has(<<>>, Finals)
      BY DEF Has
    <3> QED
      BY <1>1, <1>8, <3>1
  <2>3. task'.n = tasks' /\ Now'.what = Now.what
    BY <1>2, <1>3, <1>9, <1>10
  <2>4. at \in {"prompt", "rejected"} => Now'.what = "submit"
    BY <1>11, <2>1, <2>2, <2>3
  <2> QED
    BY <1>9, <1>10, <2>2, <2>3, <2>4 DEF TaskFits
<1>13. TypedIsBounded' /\ TerminalFits' /\ BridgeIsApart'
  BY <1>1, <1>2, <1>9, <1>10
     DEF LineInv, TypedIsBounded, TerminalFits, BridgeIsApart
(* A prompt that brings the message is the modem's, and all there was.     *)
<1>14. ASSUME got = <<>>
       PROVE  /\ modem.prompting /\ modem.left = <<>> /\ typed = <<>> /\ input' = <<>>
              /\ task.at = "prompt" /\ TypeMessage(task.n) /\ at = "answer"
  <2>1. task.at = "prompt" /\ Has(all, {">"}) /\ TypeMessage(task.n) /\ at = "answer"
    BY <1>5, <1>8, <1>14
  <2>2. PICK i \in DOMAIN all : all[i].line = ">"
    BY <2>1 DEF Has
  <2>3. modem.prompting /\ input' = <<>>
    <3>1. CASE i \in DOMAIN task.got /\ all[i] = task.got[i]
      <4>1. input = <<>>
        BY <1>3, <2>2, <3>1 DEF LineInv, PromptIsLast
      <4> QED
        BY <1>3, <4>1
    <3>2. CASE \E j \in DOMAIN input : j \in 1 .. k /\ all[i] = input[j]
      <4>1. PICK j \in DOMAIN input : j \in 1 .. k /\ all[i] = input[j]
        BY <3>2
      <4>2. modem.prompting /\ j = Len(input)
        BY <2>2, <4>1 DEF LineInv, PromptIsLast
      <4>3. Len(input') = 0
        BY <1>3, <1>4, <4>1, <4>2
      <4> QED
        BY <1>4, <4>2, <4>3
    <3> QED
      BY <1>6, <3>1, <3>2
  <2> QED
    BY <2>1, <2>3 DEF LineInv, ModemFits
<1>15. got # <<>> => got = all /\ modem' = modem /\ accepted' = accepted
  BY <1>8
<1>16. modem' \in LineModems /\ accepted' \subseteq 1 .. tasks /\ accepted \subseteq accepted'
      /\ accepted' \subseteq accepted \cup {task.n}
      /\ (modem' # Quiet <=> modem # Quiet) /\ modem'.of = modem.of
  <2>1. CASE got # <<>>
    BY <1>15, <2>1, LineNumbers
  <2>2. CASE got = <<>>
    <3>1. modem.prompting /\ TypeMessage(task.n)
      BY <1>14, <2>2
    <3>2. PICK lines \in {<<"ERROR">>, <<"+CMGS", "OK">>} :
            modem' = [modem EXCEPT !.prompting = FALSE, !.left = lines]
      BY <3>1 DEF TypeMessage
    <3>3. lines \in Seq(LineTexts) /\ lines # <<>>
      <4>1. lines \in Replies
        BY DEF Replies
      <4>2. <<"ERROR">> # <<>> /\ <<"+CMGS", "OK">> # <<>>
        OBVIOUS
      <4> QED
        BY <4>1, <4>2, RepliesAreTexts
    <3>4. modem'.left = lines /\ modem'.of = modem.of /\ modem' \in LineModems
      BY <3>2, <3>3, LineNumbers DEF LineModems
    <3>5. modem' # Quiet /\ modem # Quiet
      BY <3>1, <3>3, <3>4 DEF Quiet
    <3>6. accepted' = accepted \/ accepted' = accepted \cup {task.n}
      BY <3>1 DEF TypeMessage
    <3>7. accepted \subseteq 1 .. tasks /\ task.n \in 1 .. tasks
      BY <1>1, LineNumbers, TaskNumbers
    <3> QED
      BY <3>4, <3>5, <3>6, <3>7
  <2> QED
    BY <2>1, <2>2
<1>17. LineTyped'
  BY <1>2, <1>4, <1>9, <1>16 DEF LineInv, LineTyped
<1>18. SayingsFit'
  <2>1. sayings[task.n] = "none"
    BY <1>1, TaskNumbers DEF LineInv, SayingsFit
  <2>2. SayingIsTrue'
    BY <1>2, <1>16, <2>1 DEF LineInv, SayingsFit, SayingIsTrue
  <2>3. \A n \in 1 .. MaxTasks : n > tasks' \/ (Active' /\ n = task'.n) => sayings'[n] = "none"
    BY <1>1, <1>2, <1>9 DEF LineInv, SayingsFit
  <2> QED
    BY <2>2, <2>3 DEF SayingsFit
<1>19. \A c \in LineCommands :
         /\ InTyped(c)' <=> InTyped(c)
         /\ AtModem(c)' <=> AtModem(c)
         /\ InInput(c)' => InInput(c)
         /\ Alive(c)' => Alive(c)
  <2> SUFFICES ASSUME NEW c \in LineCommands
               PROVE  /\ InTyped(c)' <=> InTyped(c)
                      /\ AtModem(c)' <=> AtModem(c)
                      /\ InInput(c)' => InInput(c)
                      /\ Alive(c)' => Alive(c)
    OBVIOUS
  <2>1. (InTyped(c)' <=> InTyped(c)) /\ (AtModem(c)' <=> AtModem(c))
    BY <1>2, <1>16 DEF InTyped, AtModem
  <2>2. InInput(c)' => InInput(c)
    BY <1>4 DEF InInput
  <2>3. InGot(c)' => InGot(c) \/ InInput(c)
    <3> SUFFICES ASSUME NEW i \in DOMAIN got, got[i].of = c
                 PROVE  InGot(c) \/ InInput(c)
      BY <1>10 DEF InGot
    <3>1. got = all
      BY <1>8
    <3>2. CASE i \in DOMAIN task.got /\ all[i] = task.got[i]
      BY <1>3, <3>1, <3>2 DEF InGot
    <3>3. CASE \E j \in DOMAIN input : all[i] = input[j]
      BY <3>1, <3>3 DEF InInput
    <3> QED
      BY <1>6, <3>1, <3>2, <3>3
  <2> QED
    BY <2>1, <2>2, <2>3 DEF Alive
<1>20. TypedOnce'
  BY <1>2, <1>19 DEF LineInv, TypedOnce
<1>21. WrittenAreAlive'
  BY <1>1, <1>2, <1>9, <1>10, <1>19 DEF LineInv, WrittenAreAlive
<1>22. ForgottenAreExcused'
  BY <1>1, <1>2, <1>10, <1>19, ExcusesStay
(* The message is typed: its answer alone is still to come.                *)
<1>23. ASSUME got = <<>>
       PROVE  ModemFits' /\ PromptIsLast' /\ ReferenceIsFirst' /\ AcceptedIsAnswered' /\ TerminalIsLast'
  <2>1. /\ modem.prompting /\ typed' = <<>> /\ input' = <<>> /\ task.at = "prompt"
        /\ TypeMessage(task.n) /\ at = "answer" /\ Got' = <<>> /\ task'.got = <<>>
    BY <1>2, <1>9, <1>10, <1>14, <1>23
  <2>2. task.n \notin accepted /\ task.kind = "send" /\ task.next = 3
    BY <1>11, <2>1
  <2>3. PICK lines \in {<<"ERROR">>, Reply} :
          /\ modem' = [modem EXCEPT !.prompting = FALSE, !.left = lines]
          /\ task.n \in accepted' <=> lines = Reply
    <3>1. <<"ERROR">> # Reply
      BY DEF Reply
    <3> QED
      BY <2>1, <2>2, <3>1 DEF TypeMessage, Reply
  <2>4. modem'.left = lines /\ ~ modem'.prompting
    BY <2>3, LineNumbers DEF LineModems
  <2>5. lines \in Replies /\ lines # <<>>
    BY DEF Replies, Reply
  <2>6. DOMAIN input' = {} /\ DOMAIN Got' = {} /\ DOMAIN task'.got = {}
    BY <2>1
  <2>7. ModemFits'
    <3>1. modem # Quiet
      BY <2>1 DEF Quiet
    <3> QED
      BY <1>16, <2>4, <2>5, <3>1 DEF LineInv, ModemFits
  <2>8. PromptIsLast' /\ TerminalIsLast'
    BY <2>6 DEF PromptIsLast, TerminalIsLast
  <2>9. ReferenceIsFirst'
    <3>1. modem'.left = <<"+CMGS", "OK">> => task'.n \in accepted'
      BY <1>9, <2>3, <2>4 DEF Reply
    <3> QED
      BY <1>9, <2>1, <2>2, <2>6, <3>1 DEF ReferenceIsFirst, Referred
  <2>10. AcceptedIsAnswered'
    <3> SUFFICES ASSUME lines = Reply
                 PROVE  /\ Len(task'.got) + Len(input') + Len(modem'.left) = 2
                        /\ \A i \in DOMAIN modem'.left :
                             modem'.left[i] = Reply[Len(task'.got) + Len(input') + i]
      BY <1>9, <2>1, <2>2, <2>3, <2>4, <2>6 DEF AcceptedIsAnswered
    <3>1. Len(task'.got) = 0 /\ Len(input') = 0 /\ modem'.left = Reply
      BY <2>1, <2>4
    <3>2. Len(Reply) = 2 /\ DOMAIN Reply = 1 .. 2
      BY DEF Reply
    <3>3. \A i \in 1 .. 2 : 0 + 0 + i = i
      OBVIOUS
    <3> QED
      BY <3>1, <3>2, <3>3
  <2> QED
    BY <2>7, <2>8, <2>9, <2>10
(* Lines go from the input to what was read, in their order.               *)
<1>24. ASSUME got # <<>>
       PROVE  ModemFits' /\ PromptIsLast' /\ ReferenceIsFirst' /\ AcceptedIsAnswered' /\ TerminalIsLast'
  <2>1. Got' = all /\ task'.got = all /\ modem' = modem /\ accepted' = accepted /\ typed' = typed
    BY <1>2, <1>9, <1>10, <1>15, <1>24
  <2>2. k \in Nat /\ k >= 1 /\ k <= Len(input) /\ input # <<>>
    BY <1>3
  <2>3. ModemFits'
    BY <2>1 DEF LineInv, ModemFits
  <2>4. PromptIsLast'
    <3>1. ASSUME NEW i \in DOMAIN input', input'[i].line = ">"
          PROVE  modem.prompting /\ i = Len(input')
      <4>1. modem.prompting /\ k + i = Len(input)
        BY <1>4, <3>1 DEF LineInv, PromptIsLast
      <4>2. i \in Nat
        BY <1>4
      <4> QED
        BY <1>3, <1>4, <2>2, <4>1, <4>2
    <3>2. ASSUME NEW i \in DOMAIN all, all[i].line = ">"
          PROVE  modem.prompting /\ i = Len(all) /\ input' = <<>>
      <4>1. ~ (i \in DOMAIN task.got /\ all[i] = task.got[i])
        BY <1>3, <2>2, <3>2 DEF LineInv, PromptIsLast
      <4>2. PICK j \in DOMAIN input : j \in 1 .. k /\ i = Len(task.got) + j /\ all[i] = input[j]
        BY <1>6, <4>1
      <4>3. modem.prompting /\ j = Len(input)
        BY <3>2, <4>2 DEF LineInv, PromptIsLast
      <4>4. j = k /\ Len(input') = 0
        BY <1>3, <1>4, <2>2, <4>2, <4>3
      <4>5. input' = <<>>
        BY <1>4, <4>4
      <4> QED
        BY <1>5, <4>2, <4>3, <4>4, <4>5
    <3> QED
      BY <2>1, <3>1, <3>2 DEF PromptIsLast
  <2>5. ReferenceIsFirst'
    <3>1. ASSUME NEW i \in DOMAIN all, all[i].line = "+CMGS"
          PROVE  i = 1 /\ Referred
      <4>1. CASE i \in DOMAIN task.got /\ all[i] = task.got[i]
        BY <1>3, <3>1, <4>1 DEF LineInv, ReferenceIsFirst, Referred
      <4>2. CASE \E j \in DOMAIN input : i = Len(task.got) + j /\ all[i] = input[j]
        <5>1. PICK j \in DOMAIN input : i = Len(task.got) + j /\ all[i] = input[j]
          BY <4>2
        <5>2. j = 1 /\ task.got = <<>> /\ Referred
          BY <1>3, <3>1, <5>1 DEF LineInv, ReferenceIsFirst, Referred
        <5> QED
          BY <5>1, <5>2
      <4> QED
        BY <1>6, <4>1, <4>2
    <3>2. \A i \in DOMAIN input' : input'[i].line # "+CMGS"
      BY <1>4 DEF LineInv, ReferenceIsFirst
    <3>3. modem.left # <<"+CMGS", "OK">>
      BY <2>2 DEF LineInv, ReferenceIsFirst
    <3>4. Referred' => Referred
      BY <2>1, <3>1, <3>2, <3>3 DEF Referred
    <3>5. task.at = "answer" => at \in {"answer", "answered"}
      BY <1>8
    <3>6. task.kind = "send" /\ task.next > 1 /\ Referred =>
            task.next = 3 /\ task.at = "answer" /\ task.n \in accepted
      BY <1>1 DEF LineInv, ReferenceIsFirst
    <3> QED
      BY <1>9, <2>1, <3>1, <3>2, <3>3, <3>4, <3>5, <3>6 DEF ReferenceIsFirst
  <2>6. AcceptedIsAnswered'
    <3> SUFFICES ASSUME task.n \in accepted
                 PROVE  AcceptedIsAnswered'
      BY <1>9, <2>1 DEF AcceptedIsAnswered
    <3> DEFINE g == Len(task.got)
               n == Len(input)
               m == Len(modem.left)
    <3>1. /\ task.kind = "send" /\ task.next = 3 /\ task.at = "answer"
          /\ typed = <<>> /\ ~ modem.prompting /\ g + n + m = 2
          /\ \A i \in DOMAIN task.got : task.got[i].line = Reply[i]
          /\ \A i \in DOMAIN input : input[i].line = Reply[g + i]
          /\ \A i \in DOMAIN modem.left : modem.left[i] = Reply[g + n + i]
      BY <1>1 DEF LineInv, AcceptedIsAnswered
    <3>2. g \in Nat /\ n \in Nat /\ m \in Nat /\ modem.left \in Seq(LineTexts)
      BY <1>3, LineNumbers DEF LineModems
    <3>3. Len(all) = g + k /\ Len(input') = n - k /\ k <= n
      BY <1>4, <1>5, <2>2
    <3> HIDE DEF g, n, m
    <3>4. Len(all) + Len(input') + m = 2
      <4>1. \A a, b, c, d \in Nat : a + b + c = 2 => (a + d) + (b - d) + c = 2
        OBVIOUS
      <4>2. (g + k) + (n - k) + m = 2
        BY <2>2, <3>1, <3>2, <4>1
      <4> QED
        BY <3>3, <4>2, Zenon
    <3>5. \A i \in DOMAIN all : all[i].line = Reply[i]
      <4> SUFFICES ASSUME NEW i \in DOMAIN all
                   PROVE  all[i].line = Reply[i]
        OBVIOUS
      <4>1. CASE i \in DOMAIN task.got /\ all[i] = task.got[i]
        BY <3>1, <4>1
      <4>2. CASE \E j \in DOMAIN input : i = g + j /\ all[i] = input[j]
        BY <3>1, <4>2
      <4> QED
        BY <1>6, <4>1, <4>2 DEF g
    <3>6. \A i \in DOMAIN input' : input'[i].line = Reply[Len(all) + i]
      <4> SUFFICES ASSUME NEW i \in DOMAIN input'
                   PROVE  input'[i].line = Reply[Len(all) + i]
        OBVIOUS
      <4>1. input'[i] = input[k + i] /\ k + i \in DOMAIN input /\ i \in Nat
        BY <1>4
      <4>2. input'[i].line = Reply[g + (k + i)]
        BY <3>1, <4>1
      <4>3. \A a, b, c \in Nat : a + (b + c) = (a + b) + c
        OBVIOUS
      <4>4. g + (k + i) = (g + k) + i
        BY <2>2, <3>2, <4>1, <4>3, Zenon
      <4> QED
        BY <3>3, <4>2, <4>4, Zenon
    <3>7. \A i \in DOMAIN modem.left : modem.left[i] = Reply[Len(all) + Len(input') + i]
      <4> SUFFICES ASSUME NEW i \in DOMAIN modem.left
                   PROVE  modem.left[i] = Reply[Len(all) + Len(input') + i]
        OBVIOUS
      <4>1. i \in Nat
        BY <3>2
      <4>2. \A a, b, c, d \in Nat : (a + d) + (b - d) + c = a + b + c
        OBVIOUS
      <4>3. (g + k) + (n - k) + i = g + n + i
        BY <2>2, <3>2, <4>1, <4>2
      <4>4. modem.left[i] = Reply[g + n + i]
        BY <3>1
      <4> QED
        BY <3>3, <4>3, <4>4, Zenon
    <3>8. at \in {"answer", "answered"}
      BY <1>8, <3>1
    <3> QED
      BY <1>9, <2>1, <3>1, <3>4, <3>5, <3>6, <3>7, <3>8 DEF AcceptedIsAnswered, m
  <2>7. TerminalIsLast'
    <3>1. \A i \in DOMAIN input' : ~ InTyped(input[i].of)'
      BY <1>4, <2>1 DEF LineInv, TerminalIsLast, InTyped
    <3>2. \A i \in DOMAIN all : ~ \E j \in DOMAIN typed : typed[j] = all[i].of
      <4> SUFFICES ASSUME NEW i \in DOMAIN all
                   PROVE  ~ \E j \in DOMAIN typed : typed[j] = all[i].of
        OBVIOUS
      <4>1. CASE i \in DOMAIN task.got /\ all[i] = task.got[i]
        BY <1>3, <4>1 DEF LineInv, TerminalIsLast, InTyped
      <4>2. CASE \E j \in DOMAIN input : all[i] = input[j]
        BY <4>2 DEF LineInv, TerminalIsLast, InTyped
      <4> QED
        BY <1>6, <4>1, <4>2
    <3>3. ASSUME NEW i \in DOMAIN input', input'[i].line \in Finals
          PROVE  /\ ~ (modem.of = input'[i].of /\ modem # Quiet)
                 /\ \A j \in DOMAIN input' : j > i => input'[j].of # input'[i].of
      <4>1. /\ ~ (modem.of = input[k + i].of /\ modem # Quiet)
            /\ \A j \in DOMAIN input : j > k + i => input[j].of # input[k + i].of
        BY <1>4, <3>3 DEF LineInv, TerminalIsLast, AtModem
      <4>2. ASSUME NEW j \in DOMAIN input', j > i
            PROVE  input'[j].of # input'[i].of
        <5>1. i \in Nat /\ j \in Nat /\ input'[j] = input[k + j] /\ k + j \in DOMAIN input
              /\ input'[i] = input[k + i]
          BY <1>4
        <5>2. k + j > k + i
          BY <2>2, <4>2, <5>1
        <5> QED
          BY <4>1, <5>1, <5>2
      <4> QED
        BY <1>4, <4>1, <4>2
    <3>4. ASSUME NEW i \in DOMAIN all, all[i].line \in Finals
          PROVE  /\ ~ (modem.of = all[i].of /\ modem # Quiet)
                 /\ \A j \in DOMAIN input' : input'[j].of # all[i].of
      <4>1. ~ (i \in DOMAIN task.got /\ all[i] = task.got[i])
        BY <1>7, <3>4 DEF Has
      <4>2. PICK j \in DOMAIN input : j \in 1 .. k /\ all[i] = input[j]
        BY <1>6, <4>1
      <4>3. /\ ~ (modem.of = input[j].of /\ modem # Quiet)
            /\ \A l \in DOMAIN input : l > j => input[l].of # input[j].of
        BY <3>4, <4>2 DEF LineInv, TerminalIsLast, AtModem
      <4>4. ASSUME NEW l \in DOMAIN input'
            PROVE  input'[l].of # all[i].of
        <5>1. input'[l] = input[k + l] /\ k + l \in DOMAIN input /\ l \in Nat /\ k + l # k
          <6>1. l \in Nat /\ l >= 1
            BY <1>4
          <6> QED
            BY <1>4, <2>2, <6>1
        <5>2. k + l > j
          BY <2>2, <4>2, <5>1
        <5> QED
          BY <4>2, <4>3, <5>1, <5>2
      <4> QED
        BY <4>2, <4>3, <4>4
    <3> QED
      BY <2>1, <3>1, <3>2, <3>3, <3>4 DEF TerminalIsLast, AtModem, InTyped, InInput
  <2> QED
    BY <2>3, <2>4, <2>5, <2>6, <2>7
<1> QED
  BY <1>12, <1>13, <1>17, <1>18, <1>20, <1>21, <1>22, <1>23, <1>24 DEF LineInv

(* Every step of the line keeps the invariant.                             *)
LEMMA LineStaysSafe ==
  ASSUME LineInv, [LineNext]_lineVars
  PROVE  LineInv'
<1>1. CASE LineNext
  <2>1. CASE Executes \/ Emit \/ BridgeExpires \/ AgentCrashes
    BY <2>1, ExecutesKeepsLine, EmitKeepsLine, BridgeExpiresKeepsLine, CrashKeepsLine
  <2>2. CASE \E kind \in {"probe", "send"} : Start(kind)
    BY <2>2, StartKeepsLine
  <2>3. CASE OpenPort \/ PortFails \/ Write
    BY <2>3, OpenPortKeepsLine, PortFailsKeepsLine, WriteKeepsLine
  <2>4. CASE \E k \in 1 .. Len(input) : Receive(k)
    BY <2>4, ReceiveKeepsLine
  <2>5. CASE GiveUp \/ MessageBreaks \/ TakeAnswer
    BY <2>5, GiveUpKeepsLine, MessageBreaksKeepsLine, TakeAnswerKeepsLine
  <2>6. CASE \E away \in BOOLEAN : BridgeOpens(away)
    BY <2>6, BridgeOpensKeepsLine
  <2>7. CASE BridgeRefuses
    BY <2>7, BridgeRefusesKeepsLine
  <2>8. CASE \E done, away \in BOOLEAN : BridgeRuns(done, away)
    BY <2>8, BridgeRunsKeepsLine
  <2> QED
    BY <1>1, <2>1, <2>2, <2>3, <2>4, <2>5, <2>6, <2>7, <2>8 DEF LineNext
<1>2. CASE UNCHANGED lineVars
  <2>1. UNCHANGED <<transport, holder, settings, restores, task, modem, typed, input,
                    givenUp, strays, accepted, sayings, tasks, crashed>>
    BY <1>2 DEF lineVars
  <2>2. LineTyped'
    BY <2>1 DEF LineInv, LineTyped
  <2>3. (Active' <=> Active) /\ (Waiting' <=> Waiting) /\ Got' = Got /\ Now' = Now
    BY <2>1, GotStays
  <2>4. TaskFits' /\ TypedIsBounded' /\ TerminalFits' /\ BridgeIsApart' /\ ModemFits'
        /\ PromptIsLast' /\ SayingsFit'
    BY <2>1, <2>3 DEF LineInv, TaskFits, TypedIsBounded, TerminalFits, BridgeIsApart, ModemFits,
                      PromptIsLast, SayingsFit, SayingIsTrue
  <2>5. (Referred' <=> Referred) /\ ReferenceIsFirst' /\ AcceptedIsAnswered'
    BY <2>1, <2>3 DEF LineInv, ReferenceIsFirst, AcceptedIsAnswered, Referred
  <2>6. TypedOnce' /\ TerminalIsLast' /\ WrittenAreAlive' /\ ForgottenAreExcused'
    BY <2>1, <2>3 DEF LineInv, TypedOnce, TerminalIsLast, WrittenAreAlive, ForgottenAreExcused,
         Alive, InTyped, AtModem, InInput, InGot, Excused, StraysWereGivenUp
  <2> QED
    BY <2>2, <2>4, <2>5, <2>6 DEF LineInv
<1> QED
  BY <1>1, <1>2

(* The invariant says all that a run checks.                               *)
LEMMA LineSays ==
  ASSUME LineInv
  PROVE  LineIsSafe
<1>1. LineTypeOK
  <2>1. task.at \in Steps
    <3>1. CASE Active
      BY <3>1, TaskNumbers
    <3>2. CASE ~ Active
      BY <3>2 DEF Active, Steps
    <3> QED
      BY <3>1, <3>2
  <2>2. Len(typed) <= 3 * MaxTasks
    <3>1. MaxTasks \in Nat /\ tasks \in Nat /\ tasks <= MaxTasks /\ Len(typed) \in Nat
      BY LineNumbers
    <3>2. CASE Active
      <4>1. task.next \in 1 .. 3
        BY <3>2, TaskNumbers
      <4>2. Len(typed) <= 3 * (tasks - 1) + task.next \/ Len(typed) <= 3 * (tasks - 1) + (task.next - 1)
        BY <3>2 DEF LineInv, TypedIsBounded
      <4>3. \A a, t, m \in Nat : \A n \in 1 .. 3 :
              t <= m /\ (a <= 3 * (t - 1) + n \/ a <= 3 * (t - 1) + (n - 1)) => a <= 3 * m
        OBVIOUS
      <4> QED
        BY <3>1, <4>1, <4>2, <4>3
    <3>3. CASE ~ Active
      <4>1. Len(typed) <= 3 * tasks
        BY <3>3 DEF LineInv, TypedIsBounded
      <4>2. \A a, t, m \in Nat : t <= m /\ a <= 3 * t => a <= 3 * m
        OBVIOUS
      <4> QED
        BY <3>1, <4>1, <4>2
    <3> QED
      BY <3>2, <3>3
  <2> QED
    BY <2>1, <2>2 DEF LineInv, LineTyped, LineTypeOK
<1>2. SayingIsTrue /\ StraysWereGivenUp
  BY DEF LineInv, SayingsFit, ForgottenAreExcused
<1>3. SettingsAreRestored
  BY DEF LineInv, TerminalFits, SettingsAreRestored
<1> QED
  BY <1>1, <1>2, <1>3 DEF LineIsSafe

(* What the driver says of a message is so, an answer holds a line of      *)
(* another command only if nobody waited for that one, and the terminal is *)
(* left as it was found, for any number of tasks, timeouts, failing writes *)
(* and crashes over any of the transports.                                 *)
THEOREM LineHolds == LineSpec => []LineIsSafe
<1>1. LineInit => LineInv
  BY LineStart
<1>2. LineInv /\ [LineNext]_lineVars => LineInv'
  BY LineStaysSafe
<1>3. LineInv => LineIsSafe
  BY LineSays
<1> QED
  BY <1>1, <1>2, <1>3, PTL DEF LineSpec

(* The card's channels are closed again, save those whose closing or       *)
(* opening failed, and its identity is of one source; what is said of a    *)
(* message is so, whatever late lines are still to come; a line of another *)
(* command is only in an answer if that one was given up or was itself     *)
(* answered by another's; the terminal is restored unless the agent        *)
(* stopped (ML307A adapter, attransport, atremote, standardsms).           *)
THEOREM ConversationsHold == SimSpec /\ LineSpec => []ConversationsAreSafe
BY SimHolds, LineHolds, PTL DEF ConversationsAreSafe
=============================================================================
