--------------------------- MODULE ResourceLeases ---------------------------
(***************************************************************************)
(* Leases of resource groups in the runtime database: an operation or a    *)
(* call holds a modem's resources for a bounded time, under a fencing      *)
(* token.  Each method is one serializable transaction or one statement;   *)
(* an error rolls everything back.  The callers are external; their clock  *)
(* does not go back.                                                       *)
(***************************************************************************)
EXTENDS Naturals, FiniteSets

CONSTANTS
  Holders,         \* operation ids; each asks for one group and kind
  GroupOf, KindOf,
  MaxConcurrent,   \* a group's MaxConcurrentOperations
  MaxCalls,        \* a group's MaxActiveCalls
  MaxGeneration,   \* bound: generations of a group
  MaxTime          \* bound: the clock

LeaseAssumption ==
  /\ \A h \in Holders : KindOf[h] \in {"operation", "call"}
  /\ MaxConcurrent \in Nat \ {0} /\ MaxCalls \in Nat /\ MaxGeneration \in Nat
  /\ MaxTime \in Nat
ASSUME LeaseAssumption

VARIABLES
  leases,        \* resource_group_leases
  leaseFences,   \* resource_group_fences: latest generation and token
  grants,        \* resource_group_lease_operations: never removed
  clock

leaseVars == <<leases, leaseFences, grants, clock>>

LeaseGroups == {GroupOf[h] : h \in Holders}
Generations == 1 .. MaxGeneration
Leases == [holder : Holders, generation : Generations, token : Nat \ {0},
           expires : Nat]

LeaseTypeOK ==
  /\ leases \subseteq Leases
  /\ leaseFences \in [LeaseGroups -> [generation : 0 .. MaxGeneration, token : Nat]]
  /\ \A h \in DOMAIN grants :
       h \in Holders /\ grants[h] \in [generation : Generations, token : Nat \ {0}]
  /\ clock \in 0 .. MaxTime

(* Generation 0 and token 0: no row yet.                                   *)
LeaseInit ==
  /\ leases = {}
  /\ leaseFences = [g \in LeaseGroups |-> [generation |-> 0, token |-> 0]]
  /\ grants = << >>
  /\ clock = 0

Unexpired == {l \in leases : l.expires > clock}
InGroup(ls, g) == {l \in ls : GroupOf[l.holder] = g}
OfKind(ls, k) == {l \in ls : KindOf[l.holder] = k}

(* What an acquisition leaves of the leases: those that have not expired   *)
(* and, in its group, none of an older generation.                         *)
MutantSurvivors(g, generation) == Unexpired
Survivors(g, generation) ==
  {l \in Unexpired : GroupOf[l.holder] = g => l.generation >= generation}

(* A call excludes operations and operations exclude a call.               *)
Room(h, ls) ==
  IF KindOf[h] = "operation"
    THEN /\ Cardinality(OfKind(ls, "operation")) < MaxConcurrent
         /\ OfKind(ls, "call") = {}
    ELSE /\ OfKind(ls, "operation") = {}
         /\ Cardinality(OfKind(ls, "call")) < MaxCalls

(* AcquireResourceGroupLease for a new operation id.                       *)
AcquireLease(h, generation, seconds) ==
  LET g == GroupOf[h]
      left == Survivors(g, generation)
      token == leaseFences[g].token + 1
  IN /\ h \notin DOMAIN grants
     /\ generation >= leaseFences[g].generation
     /\ Room(h, InGroup(left, g))
     /\ leaseFences' = [leaseFences EXCEPT
          ![g] = [generation |-> generation, token |-> token]]
     /\ leases' = left \cup {[holder |-> h, generation |-> generation,
                              token |-> token, expires |-> clock + seconds]}
     /\ grants' = [x \in DOMAIN grants \cup {h} |->
          IF x = h THEN [generation |-> generation, token |-> token]
                   ELSE grants[x]]
     /\ UNCHANGED clock

(* The same request again: its lease if it is still there; otherwise the   *)
(* id is closed and everything is rolled back.                             *)
ReplayLease(h) ==
  /\ h \in DOMAIN grants
  /\ grants[h].generation = leaseFences[GroupOf[h]].generation
  /\ \E l \in Unexpired : l.holder = h
  /\ leases' = Survivors(GroupOf[h], grants[h].generation)
  /\ UNCHANGED <<leaseFences, grants, clock>>

RenewLease(l, seconds) ==
  /\ l \in Unexpired
  /\ leases' = (leases \ {l}) \cup {[l EXCEPT !.expires = clock + seconds]}
  /\ UNCHANGED <<leaseFences, grants, clock>>

ReleaseLease(l) ==
  /\ l \in leases
  /\ leases' = leases \ {l}
  /\ UNCHANGED <<leaseFences, grants, clock>>

Tick ==
  /\ clock < MaxTime
  /\ clock' = clock + 1
  /\ UNCHANGED <<leases, leaseFences, grants>>

LeaseNext ==
  \/ \E h \in Holders, n \in Generations, s \in 1 .. 2 : AcquireLease(h, n, s)
  \/ \E h \in Holders : ReplayLease(h)
  \/ \E l \in leases, s \in 1 .. 2 : RenewLease(l, s)
  \/ \E l \in leases : ReleaseLease(l)
  \/ Tick

LeaseSpec == LeaseInit /\ [][LeaseNext]_leaseVars

-----------------------------------------------------------------------------

(* What is held can be held together: no operation during a call, no more  *)
(* than the group allows, also after expiry, renewal and regeneration.     *)
HeldTogether ==
  \A g \in LeaseGroups :
    LET held == InGroup(Unexpired, g) IN
      /\ OfKind(held, "operation") = {} \/ OfKind(held, "call") = {}
      /\ Cardinality(OfKind(held, "operation")) <= MaxConcurrent
      /\ Cardinality(OfKind(held, "call")) <= MaxCalls

(* A fencing token names one grant; an id is granted once; what is held is *)
(* of the latest generation, under the id's own token.                     *)
TokensFence ==
  /\ \A h1, h2 \in DOMAIN grants :
       GroupOf[h1] = GroupOf[h2] /\ grants[h1].token = grants[h2].token
         => h1 = h2
  /\ \A l \in leases :
       /\ l.holder \in DOMAIN grants /\ l.token = grants[l.holder].token
       /\ l.generation = leaseFences[GroupOf[l.holder]].generation

LeasesAreSafe == LeaseTypeOK /\ HeldTogether /\ TokensFence
=============================================================================
