-------------------------- MODULE ImsWorker_proofs --------------------------
(* Theorems of ImsCorrelation, for any number of references and any report *)
(* wait longer than the network's delay, and of ImsRegistration, for any   *)
(* set of P-CSCF addresses; both without the bounds of the runs.           *)
EXTENDS ImsCorrelation, ImsRegistration, FiniteSetTheorems, WellFoundedInduction, TLAPS

Clocks ==
  /\ now \in Nat /\ session \in Nat
  /\ \A r \in DOMAIN retired : retired[r] \in Nat
  /\ \A s \in sent : /\ s.at \in Nat /\ s.at <= now
                     /\ s.segment.session \in Nat /\ s.segment.session <= session

(* Pending segments were sent, in the present session.                     *)
Entries == [segment : {s.segment : s \in sent}, reported : BOOLEAN]
PendingIsPresent ==
  \A r \in DOMAIN segments :
    /\ segments[r] \in Entries
    /\ segments[r].segment.session = session

(* The reference of a segment of this session is the segment's, or retired *)
(* for as long as the network may report, or the network may not report on *)
(* it any more.                                                            *)
Held(s) == s.reference \in DOMAIN segments
             /\ segments[s.reference].segment = s.segment
RetiredFor(s) == /\ s.reference \in DOMAIN retired \ DOMAIN segments
                 /\ retired[s.reference] >= s.at + ReportWait
TooLate(s) == s.at + MaxDelay < now
ReferencesAreReserved ==
  \A s \in sent : s.segment.session = session =>
    Held(s) \/ RetiredFor(s) \/ TooLate(s)

(* The inductive invariant behind ReportsAreCorrelated.                    *)
CorrelationInv == /\ Clocks /\ PendingIsPresent /\ ReferencesAreReserved
                  /\ gateway \in Gateways
                  /\ mode \in {"unknown", "supported", "unsupported"}
                  /\ ReportsFindTheirSegment /\ ModeSuitsGateway

-----------------------------------------------------------------------------
LEMMA CorrelationInvInit == CorrelationInit => CorrelationInv
BY DEF CorrelationInit, CorrelationInv, Clocks, PendingIsPresent,
   ReferencesAreReserved, NoEntries, ReportsFindTheirSegment, ModeSuitsGateway

(* A set of natural numbers that is not empty has a least one.             *)
LEMMA LeastOne ==
  ASSUME NEW S \in SUBSET Nat, S # {}
  PROVE  \E k \in S : \A j \in S : k <= j
<1>1. PICK k \in S : \A j \in S : ~(<<j, k>> \in OpToRel(<, Nat))
  BY NatLessThanWellFounded, WFMin
<1>2. \A j \in S : ~(j < k)
  BY <1>1 DEF OpToRel
<1>3. QED
  BY <1>2

(* The search for a reference ends at a free one.                          *)
LEMMA NextIsFree ==
  ASSUME AvailableFrom # {}
  PROVE  Free(NextReference)
<1>1. AvailableFrom \in SUBSET Nat
  BY CorrelationAssumption DEF AvailableFrom, References
<1> DEFINE first == CHOOSE k \in AvailableFrom : \A j \in AvailableFrom : k <= j
<1>2. first \in AvailableFrom
  BY <1>1, LeastOne
<1>3. QED
  BY <1>2 DEF AvailableFrom, NextReference

(* What is cleaned up keeps its references for the report wait.            *)
LEMMA CleanupReserves ==
  ASSUME CorrelationInv, NEW ids, Cleanup(ids),
         UNCHANGED <<now, session, sent>>
  PROVE  Clocks' /\ PendingIsPresent' /\ ReferencesAreReserved'
<1> DEFINE gone == ReferencesOf(ids)
<1>1. /\ gone \subseteq DOMAIN segments
      /\ DOMAIN segments' = DOMAIN segments \ gone
      /\ \A r \in DOMAIN segments \ gone : segments'[r] = segments[r]
  BY DEF Cleanup, Without, ReferencesOf
<1>2. /\ DOMAIN retired' = DOMAIN retired \cup gone
      /\ \A r \in gone : retired'[r] = now + ReportWait
      /\ \A r \in DOMAIN retired \ gone : retired'[r] = retired[r]
  BY DEF Cleanup
<1> HIDE DEF gone
<1>3. Clocks'
  BY CorrelationAssumption, <1>2 DEF CorrelationInv, Clocks
<1>4. PendingIsPresent'
  BY <1>1 DEF CorrelationInv, PendingIsPresent, Entries
<1>5. ASSUME NEW s \in sent, s.segment.session = session
      PROVE  (Held(s) \/ RetiredFor(s) \/ TooLate(s))'
  <2>1. CASE Held(s) /\ s.reference \notin gone
    BY <1>1, <2>1 DEF Held
  <2>2. CASE Held(s) /\ s.reference \in gone
    <3>1. now + ReportWait >= s.at + ReportWait
      BY CorrelationAssumption DEF CorrelationInv, Clocks
    <3>2. QED
      BY <1>1, <1>2, <2>2, <3>1 DEF RetiredFor
  <2>3. CASE RetiredFor(s)
    BY <1>1, <1>2, <2>3 DEF RetiredFor
  <2>4. CASE TooLate(s)
    BY <2>4 DEF TooLate
  <2>5. QED
    BY <1>5, <2>1, <2>2, <2>3, <2>4 DEF CorrelationInv, ReferencesAreReserved
<1>6. ReferencesAreReserved'
  BY <1>5 DEF ReferencesAreReserved
<1>7. QED
  BY <1>3, <1>4, <1>6

(* A new segment takes a reference no other one may be reported by.        *)
LEMMA SendReserves ==
  ASSUME CorrelationInv, SendSegment
  PROVE  Clocks' /\ PendingIsPresent' /\ ReferencesAreReserved'
<1> DEFINE taken == NextReference
           segment == [session |-> session, operation |-> submitting,
                       index |-> Current.count + 1]
           new == [segment |-> segment, reference |-> taken, at |-> now]
<1>1. Free(taken)
  BY NextIsFree DEF SendSegment
<1>2. /\ DOMAIN segments' = DOMAIN segments \cup {taken}
      /\ segments'[taken] = [segment |-> segment, reported |-> FALSE]
      /\ \A r \in DOMAIN segments \ {taken} : segments'[r] = segments[r]
  BY DEF SendSegment, With
<1>3. /\ DOMAIN retired' = DOMAIN retired \ {taken}
      /\ \A r \in DOMAIN retired' : retired'[r] = retired[r]
  BY DEF SendSegment, Without
<1>4. sent' = sent \cup {new} /\ UNCHANGED <<now, session>>
  BY DEF SendSegment
<1>5. new.segment = segment /\ new.reference = taken /\ new.at = now
      /\ segment.session = session
  OBVIOUS
<1> HIDE DEF taken, segment, new
<1>6. Clocks'
  BY <1>3, <1>4, <1>5 DEF CorrelationInv, Clocks
<1>7. PendingIsPresent'
  <2>1. ASSUME NEW r \in DOMAIN segments'
        PROVE  segments'[r] \in Entries' /\ segments'[r].segment.session = session
    <3>1. CASE r = taken
      <4>1. segment \in {s.segment : s \in sent'}
        BY <1>4, <1>5
      <4>2. [segment |-> segment, reported |-> FALSE] \in Entries'
        BY <4>1 DEF Entries
      <4>3. [segment |-> segment, reported |-> FALSE].segment.session = session
        BY <1>5
      <4>4. segments'[r] = [segment |-> segment, reported |-> FALSE]
        BY <1>2, <3>1
      <4>5. QED
        BY <4>2, <4>3, <4>4
    <3>2. CASE r # taken
      BY <1>2, <1>4, <2>1, <3>2 DEF CorrelationInv, PendingIsPresent, Entries
    <3>3. QED
      BY <3>1, <3>2
  <2>2. QED
    BY <1>4, <2>1 DEF PendingIsPresent
<1>8. ASSUME NEW s \in sent, s.segment.session = session
      PROVE  (Held(s) \/ RetiredFor(s) \/ TooLate(s))'
  <2>1. CASE Held(s)
    BY <1>1, <1>2, <2>1 DEF Held, Free
  <2>2. CASE RetiredFor(s) /\ s.reference # taken
    BY <1>2, <1>3, <2>2 DEF RetiredFor
  <2>3. CASE RetiredFor(s) /\ s.reference = taken
    <3>1. retired[taken] <= now /\ retired[taken] >= s.at + ReportWait
      BY <1>1, <2>3 DEF RetiredFor, Free
    <3>2. retired[taken] \in Nat /\ now \in Nat /\ s.at \in Nat
      BY <2>3 DEF CorrelationInv, Clocks, RetiredFor
    <3>3. s.at + MaxDelay < now
      BY <3>1, <3>2, CorrelationAssumption
    <3>4. QED
      BY <1>4, <3>3 DEF TooLate
  <2>4. CASE TooLate(s)
    BY <1>4, <2>4 DEF TooLate
  <2>5. QED
    BY <1>8, <2>1, <2>2, <2>3, <2>4 DEF CorrelationInv, ReferencesAreReserved
<1>9. new.reference \in DOMAIN segments' /\ segments'[new.reference].segment = new.segment
  BY <1>2, <1>5
<1>10. ASSUME NEW s \in sent', s.segment.session = session'
       PROVE  (Held(s) \/ RetiredFor(s) \/ TooLate(s))'
  <2>1. CASE s = new
    BY <1>9, <2>1 DEF Held
  <2>2. CASE s # new
    BY <1>4, <1>8, <1>10, <2>2
  <2>3. QED
    BY <2>1, <2>2
<1>11. QED
  BY <1>6, <1>7, <1>10 DEF ReferencesAreReserved

(* Marking an entry as reported leaves its segment.                        *)
LEMMA OnlyMarked ==
  ASSUME NEW S, NEW f \in [segment : S, reported : BOOLEAN]
  PROVE  /\ [f EXCEPT !.reported = TRUE] \in [segment : S, reported : BOOLEAN]
         /\ [f EXCEPT !.reported = TRUE].segment = f.segment
OBVIOUS

(* A report that is counted is its segment's own, or of an earlier session *)
(* through a gateway without In-Reply-To.                                  *)
LEMMA CreditIsDue ==
  ASSUME CorrelationInv, NEW s \in sent,
         now <= s.at + MaxDelay, Matches(s, Named)
  PROVE  LET to == segments[s.reference].segment
         IN  s.segment = to \/ (gateway # "requires" /\ s.segment.session # to.session)
<1>1. segments[s.reference].segment.session = session
  BY DEF Matches, CorrelationInv, PendingIsPresent
<1>2. CASE s.segment.session = session
  <2>1. ~TooLate(s)
    BY CorrelationAssumption DEF TooLate, CorrelationInv, Clocks
  <2>2. ~RetiredFor(s)
    BY DEF Matches, RetiredFor
  <2>3. QED
    BY <1>2, <2>1, <2>2 DEF CorrelationInv, ReferencesAreReserved, Held
<1>3. CASE s.segment.session # session
  BY <1>1, <1>3 DEF Matches, Named
<1>4. QED
  BY <1>2, <1>3

LEMMA CorrelationInvNext ==
  CorrelationInv /\ [CorrelationNext]_correlationVars => CorrelationInv'
<1> SUFFICES ASSUME CorrelationInv, [CorrelationNext]_correlationVars
             PROVE  CorrelationInv'
  OBVIOUS
<1> DEFINE Reserved == Clocks /\ PendingIsPresent /\ ReferencesAreReserved
           Taught == gateway \in Gateways
                       /\ mode \in {"unknown", "supported", "unsupported"}
                       /\ ModeSuitsGateway
<1>1. Reserved /\ Taught /\ ReportsFindTheirSegment
  BY DEF CorrelationInv
<1>2. Reserved' /\ Taught' /\ ReportsFindTheirSegment' => CorrelationInv'
  BY DEF CorrelationInv
<1>3. UNCHANGED <<gateway, mode>> => Taught'
  BY <1>1 DEF ModeSuitsGateway
<1>4. UNCHANGED <<gateway, credited>> => ReportsFindTheirSegment'
  BY <1>1 DEF ReportsFindTheirSegment
<1>5. UNCHANGED <<now, session, segments, retired, sent>> => Reserved'
  BY <1>1 DEF Clocks, PendingIsPresent, Entries, ReferencesAreReserved, Held, RetiredFor,
     TooLate
<1> HIDE DEF Taught
<1>6. ASSUME ExpireReports \/ SubmissionFails PROVE CorrelationInv'
  <2>1. /\ \E ids : Cleanup(ids)
        /\ UNCHANGED <<now, session, sent, credited, gateway, mode>>
    BY <1>6 DEF ExpireReports, SubmissionFails
  <2>2. QED
    BY <1>2, <1>3, <1>4, <2>1, CleanupReserves
<1>7. ASSUME NEW total, BeginSubmission(total) PROVE CorrelationInv'
  BY <1>2, <1>3, <1>4, <1>5, <1>7 DEF BeginSubmission
<1>8. ASSUME SendSegment PROVE CorrelationInv'
  <2>1. UNCHANGED <<credited, gateway, mode>>
    BY <1>8 DEF SendSegment
  <2>2. QED
    BY <1>2, <1>3, <1>4, <1>8, <2>1, SendReserves
<1>9. ASSUME SegmentAnswered PROVE CorrelationInv'
  <2>1. UNCHANGED <<now, session, sent, credited, gateway, mode>>
    BY <1>9 DEF SegmentAnswered
  <2>2. (\E ids : Cleanup(ids)) \/ UNCHANGED <<segments, retired>>
    BY <1>9 DEF SegmentAnswered
  <2>3. Reserved'
    BY <1>5, <2>1, <2>2, CleanupReserves
  <2>4. QED
    BY <1>2, <1>3, <1>4, <2>1, <2>3
<1>10. ASSUME NEW s \in sent, ReportComes(s) PROVE CorrelationInv'
  <2> DEFINE entry == segments[s.reference]
  <2>1. /\ UNCHANGED <<now, session, sent, gateway>>
        /\ mode' = IF Named THEN "supported" ELSE "unsupported"
    BY <1>10 DEF ReportComes
  <2>2. Taught'
    BY <1>1, <2>1 DEF Taught, Named, ModeSuitsGateway, Gateways
  <2>3. ReportsFindTheirSegment'
    <3>1. credited' = credited
            \/ credited' = credited \cup {[of |-> s.segment, to |-> entry.segment]}
      BY <1>10 DEF ReportComes
    <3>2. s.segment = entry.segment
            \/ (gateway # "requires" /\ s.segment.session # entry.segment.session)
      BY <1>10, CreditIsDue DEF ReportComes
    <3>3. QED
      BY <1>1, <2>1, <3>1, <3>2 DEF ReportsFindTheirSegment
  <2>4. \/ \E ids : Cleanup(ids)
        \/ UNCHANGED <<segments, retired>>
        \/ /\ segments' = [segments EXCEPT ![s.reference].reported = TRUE]
           /\ UNCHANGED retired
    BY <1>10 DEF ReportComes
  <2>5. ASSUME segments' = [segments EXCEPT ![s.reference].reported = TRUE],
               UNCHANGED retired
        PROVE  Reserved'
    <3>1. DOMAIN segments' = DOMAIN segments
      BY <2>5
    <3>2. ASSUME NEW r \in DOMAIN segments
          PROVE  /\ segments'[r] \in Entries
                 /\ segments'[r].segment = segments[r].segment
      <4>1. segments[r] \in Entries
        BY <1>1 DEF PendingIsPresent
      <4>2. segments'[r] = segments[r]
              \/ segments'[r] = [segments[r] EXCEPT !.reported = TRUE]
        BY <2>5
      <4>3. QED
        BY <4>1, <4>2, OnlyMarked DEF Entries
    <3>3. \A r \in DOMAIN segments : segments'[r].segment = segments[r].segment
      BY <3>2
    <3>4. PendingIsPresent'
      BY <1>1, <2>1, <3>1, <3>2, <3>3 DEF PendingIsPresent, Entries
    <3>5. Clocks' /\ ReferencesAreReserved'
      BY <1>1, <2>1, <2>5, <3>1, <3>3 DEF Clocks, ReferencesAreReserved, Held,
         RetiredFor, TooLate
    <3>6. QED
      BY <3>4, <3>5
  <2>6. Reserved'
    BY <1>5, <2>1, <2>4, <2>5, CleanupReserves
  <2>7. QED
    BY <1>2, <2>2, <2>3, <2>6
<1>11. ASSUME AcknowledgeDelivery PROVE CorrelationInv'
  <2>1. Taught'
    BY <1>1, <1>11 DEF AcknowledgeDelivery, Accepts, Taught, ModeSuitsGateway,
       Gateways
  <2>2. QED
    BY <1>2, <1>4, <1>5, <1>11, <2>1 DEF AcknowledgeDelivery
<1>12. ASSUME Tick PROVE CorrelationInv'
  <2>1. now' = now + 1 /\ now \in Nat
    BY <1>1, <1>12 DEF Tick, Clocks
  <2>2. Clocks' /\ PendingIsPresent'
    BY <1>1, <1>12, <2>1 DEF Tick, Clocks, PendingIsPresent, Entries
  <2>3. ReferencesAreReserved'
    BY CorrelationAssumption, <1>1, <1>12, <2>1
       DEF Tick, Clocks, ReferencesAreReserved, Held, RetiredFor, TooLate
  <2>4. QED
    BY <1>2, <1>3, <1>4, <1>12, <2>2, <2>3 DEF Tick
<1>13. ASSUME NewSession PROVE CorrelationInv'
  <2>1. Clocks' /\ PendingIsPresent'
    BY <1>1, <1>13 DEF NewSession, NoEntries, Clocks, PendingIsPresent
  <2>2. ReferencesAreReserved'
    BY <1>1, <1>13 DEF NewSession, Clocks, ReferencesAreReserved
  <2>3. Taught'
    BY <1>1, <1>13 DEF NewSession, Taught, ModeSuitsGateway
  <2>4. QED
    BY <1>2, <1>4, <1>13, <2>1, <2>2, <2>3 DEF NewSession
<1>14. ASSUME UNCHANGED correlationVars PROVE CorrelationInv'
  BY <1>2, <1>3, <1>4, <1>5, <1>14 DEF correlationVars
<1>15. QED
  BY <1>6, <1>7, <1>8, <1>9, <1>10, <1>11, <1>12, <1>13, <1>14 DEF CorrelationNext

-----------------------------------------------------------------------------
(* Types.                                                                  *)

Operation == [total : 1 .. MaxSegments, count : Nat, answered : Nat,
              reported : Nat, deadline : Nat]

(* The submission that holds the mutex has no deadline yet, so that nothing *)
(* cleans it up but its own failure.                                       *)
OperationsAreTyped ==
  /\ \A o \in DOMAIN operations : operations[o] \in Operation
  /\ submitting # 0 => operations[submitting].deadline = 0

CorrelationTyped == CorrelationTypeOK /\ OperationsAreTyped

LEMMA Wraps ==
  ASSUME NEW n \in Nat
  PROVE  n % ReferenceSpace \in References
BY CorrelationAssumption DEF References

LEMMA NextIsReference ==
  ASSUME CorrelationTypeOK, AvailableFrom # {}
  PROVE  NextReference \in References
<1>1. AvailableFrom \in SUBSET Nat
  BY CorrelationAssumption DEF AvailableFrom, References
<1> DEFINE first == CHOOSE k \in AvailableFrom : \A j \in AvailableFrom : k <= j
<1>2. first \in AvailableFrom
  BY <1>1, LeastOne
<1> HIDE DEF first
<1>3. first \in Nat /\ reference \in Nat
  <2>1. first \in Nat
    BY <1>1, <1>2
  <2>2. reference \in References
    BY DEF CorrelationTypeOK
  <2>3. QED
    BY <2>1, <2>2, CorrelationAssumption DEF References
<1>4. reference + first \in Nat
  BY <1>3
<1>5. Following(first) \in References
  BY <1>4, Wraps DEF Following
<1>6. QED
  BY <1>5 DEF NextReference, first

(* Cleaning up leaves no segment of an operation that is gone.             *)
LEMMA CleanupKeepsTypes ==
  ASSUME CorrelationTyped, NEW ids, Cleanup(ids),
         submitting' \in {0, submitting}, submitting' \in ids => submitting' = 0,
         UNCHANGED <<now, session, reference, gateway>>,
         mode' \in {"unknown", "supported", "unsupported"}
  PROVE  CorrelationTyped'
<1> DEFINE gone == ReferencesOf(ids)
<1>1. /\ DOMAIN operations' = DOMAIN operations \ ids
      /\ \A o \in DOMAIN operations \ ids : operations'[o] = operations[o]
  BY DEF Cleanup, Without
<1>2. /\ DOMAIN segments' = DOMAIN segments \ gone
      /\ \A r \in DOMAIN segments \ gone : segments'[r] = segments[r]
  BY DEF Cleanup, Without
<1>3. DOMAIN retired' = DOMAIN retired \cup gone
  BY DEF Cleanup
<1>4. /\ gone \subseteq DOMAIN segments
      /\ \A r \in DOMAIN segments \ gone : segments[r].segment.operation \notin ids
  BY DEF ReferencesOf
<1> HIDE DEF gone
<1>5. Domains'
  BY <1>1, <1>2, <1>3, <1>4 DEF CorrelationTyped, CorrelationTypeOK, Domains
<1>6. \A r \in DOMAIN segments' : segments'[r].segment.operation \in DOMAIN operations'
  BY <1>1, <1>2, <1>4 DEF CorrelationTyped, CorrelationTypeOK
<1>7. submitting' \in {0} \cup DOMAIN operations'
  BY <1>1 DEF CorrelationTyped, CorrelationTypeOK
<1>8. OperationsAreTyped'
  BY <1>1, <1>7 DEF CorrelationTyped, OperationsAreTyped
<1>9. QED
  BY <1>5, <1>6, <1>7, <1>8 DEF CorrelationTyped, CorrelationTypeOK, References

LEMMA CorrelationTypedInit == CorrelationInit => CorrelationTyped
BY CorrelationAssumption DEF CorrelationInit, CorrelationTyped, CorrelationTypeOK,
   OperationsAreTyped, NoEntries, Domains, References

(* Counting an answer or a report keeps an operation one.                  *)
LEMMA OperationCounts ==
  ASSUME NEW o \in Operation, NEW deadline \in Nat
  PROVE  /\ [o EXCEPT !.count = @ + 1] \in Operation
         /\ [o EXCEPT !.count = @ + 1].deadline = o.deadline
         /\ [o EXCEPT !.reported = @ + 1] \in Operation
         /\ [o EXCEPT !.reported = @ + 1].deadline = o.deadline
         /\ [o EXCEPT !.answered = @ + 1, !.deadline = deadline] \in Operation
         /\ [o EXCEPT !.answered = @ + 1, !.deadline = deadline].deadline = deadline
<1> DEFINE counted == [o EXCEPT !.count = @ + 1]
           reported == [o EXCEPT !.reported = @ + 1]
           answered == [o EXCEPT !.answered = @ + 1, !.deadline = deadline]
<1>1. /\ o.total \in 1 .. MaxSegments /\ o.count \in Nat /\ o.answered \in Nat
      /\ o.reported \in Nat /\ o.deadline \in Nat
  BY DEF Operation
<1>2. counted \in Operation /\ counted.deadline = o.deadline
  BY <1>1 DEF Operation
<1>3. reported \in Operation /\ reported.deadline = o.deadline
  BY <1>1 DEF Operation
<1>4. answered \in Operation /\ answered.deadline = deadline
  <2> DEFINE first == [o EXCEPT !.answered = @ + 1]
  <2>1. first \in Operation
    BY <1>1 DEF Operation
  <2>2. answered = [first EXCEPT !.deadline = deadline]
    BY Zenon
  <2> HIDE DEF first, answered
  <2>3. QED
    BY <2>1, <2>2 DEF Operation
<1>5. QED
  BY <1>2, <1>3, <1>4

(* A changed operation and entries that keep their operation.              *)
LEMMA ChangeKeepsTypes ==
  ASSUME CorrelationTyped, NEW o \in DOMAIN operations, NEW op \in Operation,
         operations' = [operations EXCEPT ![o] = op],
         DOMAIN segments' = DOMAIN segments,
         \A r \in DOMAIN segments : segments'[r].segment = segments[r].segment,
         submitting' \in {0, submitting},
         submitting' = o => op.deadline = 0,
         mode' \in {"unknown", "supported", "unsupported"},
         UNCHANGED <<now, session, reference, retired, gateway>>
  PROVE  CorrelationTyped'
<1>1. /\ DOMAIN operations' = DOMAIN operations
      /\ operations'[o] = op
      /\ \A p \in DOMAIN operations \ {o} : operations'[p] = operations[p]
  OBVIOUS
<1>2. OperationsAreTyped'
  BY <1>1 DEF CorrelationTyped, OperationsAreTyped, CorrelationTypeOK
<1>3. Domains' /\ submitting' \in {0} \cup DOMAIN operations'
  BY <1>1 DEF CorrelationTyped, CorrelationTypeOK, Domains
<1>4. \A r \in DOMAIN segments' : segments'[r].segment.operation \in DOMAIN operations'
  BY <1>1 DEF CorrelationTyped, CorrelationTypeOK
<1>5. QED
  BY <1>2, <1>3, <1>4 DEF CorrelationTyped, CorrelationTypeOK, References

LEMMA CorrelationTypedNext ==
  CorrelationTyped /\ CorrelationInv /\ [CorrelationNext]_correlationVars => CorrelationTyped'
<1> SUFFICES ASSUME CorrelationTyped, CorrelationInv, [CorrelationNext]_correlationVars
             PROVE  CorrelationTyped'
  OBVIOUS
<1>1. mode \in {"unknown", "supported", "unsupported"} /\ 0 \notin DOMAIN operations
  BY DEF CorrelationTyped, CorrelationTypeOK, Domains
<1>2. ASSUME ExpireReports PROVE CorrelationTyped'
  <2>1. Cleanup(Overdue)
    BY <1>2 DEF ExpireReports
  <2>2. submitting' = 0 /\ submitting = 0 /\ UNCHANGED <<now, session, reference, gateway, mode>>
    BY <1>2 DEF ExpireReports
  <2>3. QED
    BY <1>1, <2>1, <2>2, CleanupKeepsTypes
<1>3. ASSUME SubmissionFails PROVE CorrelationTyped'
  <2>1. Cleanup({submitting}) /\ submitting' = 0
    BY <1>3 DEF SubmissionFails
  <2>2. UNCHANGED <<now, session, reference, gateway, mode>>
    BY <1>3 DEF SubmissionFails
  <2>3. QED
    BY <1>1, <2>1, <2>2, CleanupKeepsTypes
<1>4. ASSUME NEW total \in 1 .. MaxSegments, BeginSubmission(total) PROVE CorrelationTyped'
  <2> DEFINE begun == [total |-> total, count |-> 0, answered |-> 0, reported |-> 0,
                       deadline |-> 0]
  <2>1. PICK o \in 1 .. MaxSubmissions :
             submitting' = o /\ operations' = With(operations, o, begun)
    BY <1>4 DEF BeginSubmission
  <2>2. UNCHANGED <<now, session, reference, segments, retired, gateway, mode>>
    BY <1>4 DEF BeginSubmission
  <2>3. begun \in Operation /\ begun.deadline = 0
    BY DEF Operation
  <2> HIDE DEF begun
  <2>4. /\ DOMAIN operations' = DOMAIN operations \cup {o}
        /\ operations'[o] = begun
        /\ \A p \in DOMAIN operations \ {o} : operations'[p] = operations[p]
    BY <2>1 DEF With
  <2>5. OperationsAreTyped'
    BY <2>1, <2>3, <2>4 DEF CorrelationTyped, OperationsAreTyped
  <2>6. Domains' /\ submitting' \in {0} \cup DOMAIN operations'
    BY <2>1, <2>2, <2>4 DEF CorrelationTyped, CorrelationTypeOK, Domains
  <2>7. QED
    BY <2>2, <2>4, <2>5, <2>6 DEF CorrelationTyped, CorrelationTypeOK, References
<1>5. ASSUME SendSegment PROVE CorrelationTyped'
  <2> DEFINE taken == NextReference
             op == [Current EXCEPT !.count = @ + 1]
             entry == [segment |-> [session |-> session, operation |-> submitting,
                                    index |-> Current.count + 1], reported |-> FALSE]
  <2>1. /\ submitting # 0 /\ AvailableFrom # {}
        /\ segments' = With(segments, taken, entry)
        /\ retired' = Without(retired, {taken})
        /\ reference' = (taken + 1) % ReferenceSpace
        /\ operations' = [operations EXCEPT ![submitting].count = @ + 1]
        /\ UNCHANGED <<now, session, submitting, gateway, mode>>
    BY <1>5 DEF SendSegment, Sending
  <2>2. submitting \in DOMAIN operations /\ Current \in Operation /\ Current.deadline = 0
    BY <2>1 DEF CorrelationTyped, CorrelationTypeOK, OperationsAreTyped, Current
  <2>3. op \in Operation /\ op.deadline = 0
    BY <2>2, OperationCounts
  <2>4. operations' = [operations EXCEPT ![submitting] = op]
    BY <2>1, <2>2 DEF Current
  <2>5. entry.segment.operation = submitting
    OBVIOUS
  <2>6. taken \in References
    BY <2>1, NextIsReference DEF CorrelationTyped
  <2> HIDE DEF taken, op, entry
  <2>7. reference' \in References
    BY <2>1, <2>6, Wraps, CorrelationAssumption DEF References
  <2>8. /\ DOMAIN segments' = DOMAIN segments \cup {taken}
        /\ segments'[taken] = entry
        /\ \A r \in DOMAIN segments \ {taken} : segments'[r] = segments[r]
        /\ DOMAIN retired' = DOMAIN retired \ {taken}
    BY <2>1 DEF With, Without
  <2>9. /\ DOMAIN operations' = DOMAIN operations
        /\ operations'[submitting] = op
        /\ \A p \in DOMAIN operations \ {submitting} : operations'[p] = operations[p]
    BY <2>2, <2>4
  <2>10. OperationsAreTyped'
    BY <2>1, <2>3, <2>9 DEF CorrelationTyped, OperationsAreTyped
  <2>11. Domains'
    BY <2>6, <2>8, <2>9 DEF CorrelationTyped, CorrelationTypeOK, Domains
  <2>12. \A r \in DOMAIN segments' : segments'[r].segment.operation \in DOMAIN operations'
    BY <2>2, <2>5, <2>8, <2>9 DEF CorrelationTyped, CorrelationTypeOK
  <2>13. QED
    BY <2>1, <2>2, <2>7, <2>9, <2>10, <2>11, <2>12
       DEF CorrelationTyped, CorrelationTypeOK, References
<1>6. ASSUME SegmentAnswered PROVE CorrelationTyped'
  <2> DEFINE last == Current.count = Current.total
             deadline == IF last THEN now + ReportWait ELSE 0
             op == [Current EXCEPT !.answered = @ + 1, !.deadline = deadline]
  <2>1. /\ submitting # 0
        /\ submitting' = IF last THEN 0 ELSE submitting
        /\ UNCHANGED <<now, session, reference, gateway, mode>>
    BY <1>6 DEF SegmentAnswered, Waiting
  <2>2. \/ Complete(submitting, op) /\ Cleanup({submitting})
        \/ /\ operations' = [operations EXCEPT ![submitting] = op]
           /\ UNCHANGED <<segments, retired>>
    BY <1>6 DEF SegmentAnswered
  <2>3. submitting \in DOMAIN operations /\ Current \in Operation
    BY <2>1 DEF CorrelationTyped, CorrelationTypeOK, OperationsAreTyped, Current
  <2>4. deadline \in Nat
    BY CorrelationAssumption DEF CorrelationTyped, CorrelationTypeOK
  <2>5. op \in Operation /\ op.deadline = deadline
    BY <2>3, <2>4, OperationCounts
  <2>6. ~last => deadline = 0
    OBVIOUS
  <2> HIDE DEF deadline, op, last
  <2>7. CASE Complete(submitting, op) /\ Cleanup({submitting})
    <3>1. last
      BY <2>5, <2>6, <2>7 DEF Complete
    <3>2. QED
      BY <1>1, <2>1, <2>7, <3>1, CleanupKeepsTypes
  <2>8. CASE operations' = [operations EXCEPT ![submitting] = op]
             /\ UNCHANGED <<segments, retired>>
    BY <1>1, <2>1, <2>3, <2>5, <2>6, <2>8, ChangeKeepsTypes
  <2>9. QED
    BY <2>2, <2>7, <2>8
<1>7. ASSUME NEW s \in sent, ReportComes(s) PROVE CorrelationTyped'
  <2> DEFINE entry == segments[s.reference]
             o == entry.segment.operation
             op == [operations[o] EXCEPT !.reported = @ + 1]
  <2>1. /\ s.reference \in DOMAIN segments
        /\ UNCHANGED <<now, session, reference, submitting, gateway>>
        /\ mode' \in {"unknown", "supported", "unsupported"}
    BY <1>7 DEF ReportComes, Matches
  <2>2. \/ UNCHANGED <<segments, retired, operations>>
        \/ Complete(o, op) /\ Cleanup({o})
        \/ /\ operations' = [operations EXCEPT ![o] = op]
           /\ segments' = [segments EXCEPT ![s.reference].reported = TRUE]
           /\ UNCHANGED retired
    BY <1>7 DEF ReportComes
  <2>3. o \in DOMAIN operations /\ operations[o] \in Operation
    BY <2>1 DEF CorrelationTyped, CorrelationTypeOK, OperationsAreTyped
  <2>4. op \in Operation /\ op.deadline = operations[o].deadline
    BY <2>3, OperationCounts
  <2>5. submitting = o => op.deadline = 0
    BY <1>1, <2>3, <2>4 DEF CorrelationTyped, OperationsAreTyped
  <2>6. \A r \in DOMAIN segments : segments[r] \in Entries
    BY DEF CorrelationInv, PendingIsPresent
  <2> HIDE DEF op, o
  <2>7. CASE UNCHANGED <<segments, retired, operations>>
    BY <2>1, <2>7 DEF CorrelationTyped, CorrelationTypeOK, OperationsAreTyped, Domains
  <2>8. CASE Complete(o, op) /\ Cleanup({o})
    BY <2>1, <2>5, <2>8, CleanupKeepsTypes DEF Complete
  <2>9. CASE /\ operations' = [operations EXCEPT ![o] = op]
             /\ segments' = [segments EXCEPT ![s.reference].reported = TRUE]
             /\ UNCHANGED retired
    <3>1. DOMAIN segments' = DOMAIN segments
      BY <2>9
    <3>2. ASSUME NEW r \in DOMAIN segments
          PROVE  segments'[r].segment = segments[r].segment
      <4>1. segments'[r] = segments[r]
              \/ segments'[r] = [segments[r] EXCEPT !.reported = TRUE]
        BY <2>9
      <4>2. QED
        BY <2>6, <4>1, OnlyMarked DEF Entries
    <3>3. QED
      BY <2>1, <2>3, <2>4, <2>5, <2>9, <3>1, <3>2, ChangeKeepsTypes
  <2>10. QED
    BY <2>2, <2>7, <2>8, <2>9
<1>8. ASSUME AcknowledgeDelivery PROVE CorrelationTyped'
  BY <1>8 DEF AcknowledgeDelivery, CorrelationTyped, CorrelationTypeOK,
     OperationsAreTyped, Domains
<1>9. ASSUME Tick PROVE CorrelationTyped'
  <2>1. now' \in 0 .. MaxTime
    BY <1>9, CorrelationAssumption DEF Tick, CorrelationTyped, CorrelationTypeOK
  <2>2. QED
    BY <1>9, <2>1 DEF Tick, CorrelationTyped, CorrelationTypeOK, OperationsAreTyped, Domains
<1>10. ASSUME NewSession PROVE CorrelationTyped'
  <2>1. session' \in 1 .. MaxSessions
    BY <1>10, CorrelationAssumption DEF NewSession, CorrelationTyped, CorrelationTypeOK
  <2>2. QED
    BY <1>10, <2>1, CorrelationAssumption DEF NewSession, CorrelationTyped,
       CorrelationTypeOK, OperationsAreTyped, Domains, NoEntries, References
<1>11. ASSUME UNCHANGED correlationVars PROVE CorrelationTyped'
  BY <1>11 DEF correlationVars, CorrelationTyped, CorrelationTypeOK, OperationsAreTyped,
     Domains
<1>12. QED
  BY <1>2, <1>3, <1>4, <1>5, <1>6, <1>7, <1>8, <1>9, <1>10, <1>11 DEF CorrelationNext

(* However often references wrap around, sessions end and reports are late *)
(* or repeated, a report is counted for its own segment, apart from one of *)
(* an earlier session through a gateway without In-Reply-To, and the       *)
(* session sends such headers as its gateway takes (IMSSession).           *)
THEOREM ReportsBelong == CorrelationSpec => []ReportsAreCorrelated
<1>1. CorrelationInv /\ CorrelationTyped => ReportsAreCorrelated
  BY DEF CorrelationInv, CorrelationTyped, ReportsAreCorrelated
<1>2. QED
  BY <1>1, CorrelationInvInit, CorrelationInvNext, CorrelationTypedInit,
     CorrelationTypedNext, PTL DEF CorrelationSpec

-----------------------------------------------------------------------------
(* ImsRegistration.                                                        *)

Live == worker.at \in {"register", "online"} /\ ims # NoSession
Away == {"prepare", "strongSwan", "tunnel", "discover", "ended", "backoff", "stopped"}

(* What there is at each place of RunWorker; a session outlives its        *)
(* attempt's online time only until its deferred close.                    *)
PlacesFit ==
  /\ worker.at \in Away => ims = NoSession
  /\ worker.at \in Away \ {"tunnel", "discover"} => ~charon
  /\ At("stopped") => worker.stopping
  /\ server => ims # NoSession /\ ims.step = "open" /\ worker.at \in {"online", "close"}
  /\ mutex = "submission" =>
       ims # NoSession /\ ims.step = "open" /\ worker.at \in {"online", "close"}
  /\ event = "online" => /\ worker.at \in {"online", "close", "ended", "stopped"}
                         /\ ims # NoSession => ims.step = "open"
  /\ worker.late \/ worker.waits # "no" => At("online")
  /\ mutex = "loop" => At("online") /\ worker.waits = "refresh"

(* The lead is used up by waiting and by one exchange, within its limit.   *)
TimeFits ==
  /\ binding.took <= ExchangeLimit
  /\ mutex # "loop" => binding.took = 0
  /\ Lead <= binding.life + binding.waited + binding.took

RegisteredFits ==
  /\ At("online") => event = "online" /\ ims # NoSession /\ ims.step = "open"
  /\ Live /\ ims.step = "open" => binding.call = ims.call /\ TimeFits

(* The digest state of a session is ahead of what the registrar saw.       *)
DigestsFit ==
  /\ DigestsAreFresh
  /\ \A s \in seen : s.nonce <= issued
  /\ ims # NoSession =>
       /\ ims.nonce <= issued /\ (ims.nonce = 0 <=> ims.step = "initial")
       /\ ims.step \in {"keyed", "protected", "open"} => ims.keys = ims.nonce
       /\ ims.step \in {"protected", "open"} =>
            kernel = {[call |-> ims.call, key |-> ims.nonce]}
  /\ Live =>
       /\ \A s \in seen : s.call = ims.call =>
            /\ s.sequence <= ims.sequence
            /\ ims.step = "initial" => s.sequence # ims.sequence
       /\ \A s \in seen : s.nonce = ims.nonce /\ ims.nonce # 0 =>
            ims.step = "open" /\ s.count <= ims.count

(* The calls so far have a last one.                                       *)
CallsAreBounded == \E n \in Nat : \A c \in Calls : c <= n

(* The inductive invariant behind RegistrationIsSafe.                      *)
RegistrationInv == ImsTypeOK /\ CallsAreBounded /\ PlacesFit /\ RegisteredFits /\ DigestsFit

-----------------------------------------------------------------------------
LEMMA WorkerMoves ==
  ASSUME NEW w \in Workers, NEW p \in Places, NEW n \in Nat
  PROVE  /\ [w EXCEPT !.at = p] \in Workers
         /\ [w EXCEPT !.at = p, !.waits = "no", !.late = FALSE] \in Workers
         /\ [w EXCEPT !.at = p, !.target = n] \in Workers
         /\ [w EXCEPT !.stopping = TRUE, !.at = p] \in Workers
BY DEF Workers

LEMMA WorkerWaits ==
  ASSUME NEW w \in Workers, NEW b \in {"no", "poll", "keepalive", "refresh"}
  PROVE  /\ [w EXCEPT !.waits = b] \in Workers /\ [w EXCEPT !.late = TRUE] \in Workers
         /\ [w EXCEPT !.waits = b, !.late = FALSE] \in Workers
BY DEF Workers

LEMMA WorkerTries ==
  ASSUME NEW w \in Workers
  PROVE  /\ w.left # <<>> => [w EXCEPT !.left = Tail(@)] \in Workers
         /\ \A order \in [1 .. Cardinality(Proxies) -> Proxies] :
              [w EXCEPT !.at = "register", !.left = order] \in Workers
<1>1. Cardinality(Proxies) \in Nat
  BY ImsAssumption, FS_CardinalityType DEF ImsAssumption
<1>2. w.left # <<>> => Tail(w.left) \in Seq(Proxies)
  BY DEF Workers
<1>3. \A order \in [1 .. Cardinality(Proxies) -> Proxies] : order \in Seq(Proxies)
  BY <1>1
<1>4. QED
  BY <1>2, <1>3 DEF Workers, Places

(* What a step does to a session keeps its type.                           *)
LEMMA SessionSteps ==
  ASSUME NEW s \in ImsSessions, NEW t \in ImsSteps
  PROVE  /\ [s EXCEPT !.step = t] \in ImsSessions
         /\ \A n \in Nat : [s EXCEPT !.step = t, !.nonce = n] \in ImsSessions
         /\ [s EXCEPT !.step = t, !.keys = s.nonce] \in ImsSessions
         /\ [s EXCEPT !.step = t, !.sequence = s.sequence + 1, !.count = 1] \in ImsSessions
<1>1. s.sequence + 1 \in Nat /\ s.nonce \in Nat
  BY DEF ImsSessions
<1>2. QED
  BY <1>1 DEF ImsSessions

LEMMA SessionCounts ==
  ASSUME NEW s \in ImsSessions
  PROVE  /\ [s EXCEPT !.sequence = s.sequence + 1, !.retried = TRUE] \in ImsSessions
         /\ [s EXCEPT !.sequence = s.sequence + 1, !.count = s.count + 1] \in ImsSessions
         /\ \A n \in Nat :
              [s EXCEPT !.sequence = s.sequence + 1, !.nonce = n, !.tries = s.tries + 1]
                \in ImsSessions
<1>1. s.sequence + 1 \in Nat /\ s.tries + 1 \in Nat /\ s.count + 1 \in Nat
  BY DEF ImsSessions
<1>2. QED
  BY <1>1 DEF ImsSessions

(* The calls so far have a greatest, so there is a next one.               *)
LEMMA NextCallIsNew ==
  ASSUME ImsTypeOK, CallsAreBounded
  PROVE  NextCall \in Nat /\ \A c \in Calls : c \in Nat /\ c < NextCall
<1>1. Calls \in SUBSET Nat /\ Calls # {}
  BY DEF Calls, ImsTypeOK, Registers, Bindings
<1> DEFINE bounds == {n \in Nat : \A c \in Calls : c <= n}
<1>2. PICK n \in bounds : \A m \in bounds : n <= m
  BY LeastOne DEF CallsAreBounded
<1>3. n \in Nat /\ \A c \in Calls : c <= n
  BY <1>2
<1>4. \A m \in Nat : (\A c \in Calls : c <= m) => n <= m
  BY <1>2
<1> HIDE DEF bounds
<1>5. n \in Calls
  <2>1. SUFFICES ASSUME n \notin Calls PROVE FALSE
    OBVIOUS
  <2>2. \A c \in Calls : c \in Nat /\ c # n /\ c <= n
    BY <1>1, <1>3, <2>1
  <2>3. PICK c \in Calls : TRUE
    BY <1>1
  <2>4. n - 1 \in Nat /\ \A d \in Calls : d <= n - 1
    BY <1>3, <2>2, <2>3
  <2>5. n <= n - 1
    BY <1>4, <2>4
  <2>6. QED
    BY <1>3, <2>5
<1>6. PICK k \in Calls : k \in Nat /\ NextCall = 1 + k /\ \A d \in Calls : d <= k
  <2>1. \E k \in Calls : \A d \in Calls : d <= k
    BY <1>3, <1>5
  <2> DEFINE k == CHOOSE c \in Calls : \A d \in Calls : d <= c
  <2>2. k \in Calls /\ \A d \in Calls : d <= k
    BY <2>1
  <2>3. k \in Nat /\ NextCall = 1 + k
    BY <1>1, <2>2 DEF NextCall
  <2> HIDE DEF k
  <2>4. QED
    BY <2>2, <2>3
<1>7. QED
  BY <1>1, <1>6

(* A request the session has not made before, under a nonce and a count    *)
(* that were not used together, is fresh.                                  *)
LEMMA Arrived ==
  ASSUME ImsTypeOK, CallsAreBounded, ims \in ImsSessions,
         NEW sequence \in Nat, NEW nonce \in Nat, NEW count \in Nat,
         Arrives(sequence, nonce, count)
  PROVE  /\ seen' \subseteq Registers /\ IsFiniteSet(seen')
         /\ \E n \in Nat : ims.call <= n /\ \A s \in seen' : s.call <= n
         /\ \E new : /\ seen' = seen \cup {new} /\ new \in Registers
                     /\ new.call = ims.call /\ new.sequence = sequence
                     /\ new.nonce = nonce /\ new.count = count
<1> DEFINE new == [call |-> ims.call, sequence |-> sequence, nonce |-> nonce,
                   count |-> count, branch |-> Cardinality(seen)]
<1>1. new \in Registers
  BY FS_CardinalityType DEF Registers, ImsSessions, ImsTypeOK
<1>2. seen' = seen \cup {new}
  BY DEF Arrives
<1>3. IsFiniteSet(seen')
  BY <1>2, FS_AddElement DEF ImsTypeOK
<1>4. PICK n \in Nat : \A c \in Calls : c <= n
  BY DEF CallsAreBounded
<1>5. \A s \in seen : s.call <= n + ims.call /\ ims.call <= n + ims.call
  <2>1. \A s \in seen : s.call <= n /\ s.call \in Nat
    BY <1>4 DEF Calls, ImsTypeOK, Registers
  <2>2. ims.call \in Nat
    BY DEF ImsSessions
  <2>3. QED
    BY <2>1, <2>2
<1>6. n + ims.call \in Nat /\ ims.call <= n + ims.call
  BY DEF ImsSessions
<1>7. QED
  BY <1>1, <1>2, <1>3, <1>5, <1>6 DEF ImsTypeOK
LEMMA GivesUp ==
  ASSUME ImsTypeOK, Gives
  PROVE  /\ ims' = NoSession /\ kernel' \subseteq [call : Nat, key : Nat]
         /\ worker' \in Workers /\ worker' \in {worker, [worker EXCEPT !.at = "close",
                                                  !.waits = "no", !.late = FALSE]}
BY WorkerMoves DEF Gives, Removed, Ends, ImsTypeOK, Places

LEMMA BindsTo ==
  ASSUME ImsTypeOK, ims \in ImsSessions
  PROVE  Fresh(ims.call) \in Bindings
BY ImsAssumption DEF ImsSessions, ImsAssumption, Fresh, Bindings

LEMMA TimeCounts ==
  ASSUME NEW b \in Bindings, b.life > 0
  PROVE  /\ [b EXCEPT !.life = b.life - 1, !.waited = b.waited + 1] \in Bindings
         /\ [b EXCEPT !.life = b.life - 1, !.took = b.took + 1] \in Bindings
         /\ [b EXCEPT !.life = b.life - 1] \in Bindings
<1>1. b.life - 1 \in 0 .. Lead + 1 /\ b.waited + 1 \in Nat /\ b.took + 1 \in Nat
  BY ImsAssumption DEF ImsAssumption, Bindings
<1>2. QED
  BY <1>1 DEF Bindings

(* What a tick leaves of a binding.                                        *)
LEMMA Passed ==
  ASSUME ImsTypeOK, TimePasses
  PROVE  /\ binding' \in Bindings /\ binding'.call = binding.call
         /\ binding'.life = binding.life - 1
         /\ binding'.waited = IF Due /\ Waits THEN binding.waited + 1 ELSE binding.waited
         /\ binding'.took = IF mutex = "loop" THEN binding.took + 1 ELSE binding.took
<1>1. binding \in Bindings /\ binding.life > 0
  BY DEF ImsTypeOK, TimePasses
<1>2. \/ /\ binding' = [binding EXCEPT !.life = binding.life - 1, !.waited = binding.waited + 1]
         /\ Due /\ Waits /\ mutex # "loop"
      \/ /\ binding' = [binding EXCEPT !.life = binding.life - 1, !.took = binding.took + 1]
         /\ ~(Due /\ Waits) /\ mutex = "loop"
      \/ /\ binding' = [binding EXCEPT !.life = binding.life - 1]
         /\ ~(Due /\ Waits) /\ mutex # "loop"
  <2>1. binding' = [binding EXCEPT !.life = binding.life - 1,
          !.waited = IF Due /\ Waits THEN binding.waited + 1 ELSE binding.waited,
          !.took = IF mutex = "loop" THEN binding.took + 1 ELSE binding.took]
    BY DEF TimePasses
  <2>2. CASE Due /\ Waits
    BY <1>1, <2>1, <2>2 DEF Waits, Bindings
  <2>3. CASE ~(Due /\ Waits)
    BY <1>1, <2>1, <2>3 DEF Bindings
  <2>4. QED
    BY <2>2, <2>3
<1>3. QED
  BY <1>1, <1>2, TimeCounts DEF Bindings

LEMMA RegTypes == RegistrationInv /\ [ImsNext]_imsVars => ImsTypeOK'
<1> SUFFICES ASSUME ImsTypeOK, CallsAreBounded, PlacesFit, RegisteredFits, [ImsNext]_imsVars
             PROVE  ImsTypeOK'
  BY DEF RegistrationInv
<1> USE DEF ImsTypeOK, outside, counters, Untouched, ImsFault, Establishing, At
<1>1. ASSUME Prepare PROVE ImsTypeOK'
  BY <1>1, WorkerMoves DEF Prepare, Moves, Ends, Places
<1>2. ASSUME StartStrongSwan PROVE ImsTypeOK'
  BY <1>2, WorkerMoves DEF StartStrongSwan, Moves, Ends, Places
<1>3. ASSUME Initiate PROVE ImsTypeOK'
  BY <1>3, WorkerMoves DEF Initiate, Moves, Ends, Places
<1>4. ASSUME Discover PROVE ImsTypeOK'
  <2>1. worker' \in Workers
    <3>1. PICK order \in [1 .. Cardinality(Proxies) -> Proxies] :
            worker' = [worker EXCEPT !.at = "register", !.left = order]
      BY <1>4 DEF Discover
    <3>2. QED
      BY <3>1, WorkerTries
  <2>2. QED
    BY <1>4, <2>1 DEF Discover
<1>5. ASSUME StepFails PROVE ImsTypeOK'
  BY <1>5, WorkerMoves DEF StepFails, Moves, Ends, Places
<1>6. ASSUME OpenSession PROVE ImsTypeOK'
  <2>1. worker' \in Workers
    BY <1>6, WorkerTries DEF OpenSession
  <2>2. ims' \in ImsSessions
    BY <1>6, NextCallIsNew DEF OpenSession, ImsSessions, ImsSteps
  <2>3. QED
    BY <1>6, <2>1, <2>2 DEF OpenSession
<1>7. ASSUME Challenged PROVE ImsTypeOK'
  <2>1. ims \in ImsSessions /\ ims.sequence \in Nat
    BY <1>7 DEF Challenged, ImsSessions
  <2>2. seen' \subseteq Registers /\ IsFiniteSet(seen')
    BY <1>7, <2>1, Arrived DEF Challenged
  <2>3. issued' \in 0 .. MaxNonces /\ issued' \in Nat
    BY <1>7, ImsAssumption DEF Challenged, ImsAssumption
  <2>4. ims' \in ImsSessions
    BY <1>7, <2>1, <2>3, SessionSteps DEF Challenged, ImsSteps
  <2>5. QED
    BY <1>7, <2>2, <2>3, <2>4 DEF Challenged
<1>8. ASSUME IntervalTooBrief PROVE ImsTypeOK'
  <2>1. ims \in ImsSessions /\ ims.sequence \in Nat
    BY <1>8 DEF IntervalTooBrief, ImsSessions
  <2>2. seen' \subseteq Registers /\ IsFiniteSet(seen')
    BY <1>8, <2>1, Arrived DEF IntervalTooBrief
  <2>3. ims' \in ImsSessions
    BY <1>8, <2>1, SessionCounts DEF IntervalTooBrief
  <2>4. QED
    BY <1>8, <2>2, <2>3 DEF IntervalTooBrief
<1>9. ASSUME Authenticates PROVE ImsTypeOK'
  BY <1>9, SessionSteps DEF Authenticates, ImsSteps
<1>10. ASSUME Resynchronises PROVE ImsTypeOK'
  <2>1. ims \in ImsSessions /\ ims.sequence \in Nat /\ ims.nonce \in Nat
    BY <1>10 DEF Resynchronises, ImsSessions
  <2>2. seen' \subseteq Registers /\ IsFiniteSet(seen')
    <3>1. Arrives(ims.sequence + 1, ims.nonce, 1) /\ ims.sequence + 1 \in Nat
      BY <1>10, <2>1 DEF Resynchronises
    <3>2. QED
      BY <2>1, <3>1, Arrived
  <2>3. PICK new \in {ims.nonce, issued + 1} :
          /\ new <= MaxNonces
          /\ issued' = IF new = ims.nonce THEN issued ELSE new
          /\ IF Refreshed(new)
               THEN /\ ims' = [ims EXCEPT !.sequence = @ + 1, !.nonce = new, !.tries = @ + 1]
                    /\ UNCHANGED <<worker, kernel>>
               ELSE Gives
    BY <1>10 DEF Resynchronises
  <2>4. new \in Nat /\ issued' \in 0 .. MaxNonces
    BY <2>1, <2>3, ImsAssumption DEF ImsAssumption
  <2>5. CASE Refreshed(new)
    <3>1. ims' = [ims EXCEPT !.sequence = ims.sequence + 1, !.nonce = new,
                             !.tries = ims.tries + 1]
      BY <2>3, <2>5
    <3>2. ims' \in ImsSessions
      BY <2>1, <2>4, <3>1, SessionCounts
    <3>3. QED
      BY <1>10, <2>2, <2>3, <2>4, <2>5, <3>2 DEF Resynchronises
  <2>6. CASE ~Refreshed(new)
    BY <1>10, <2>2, <2>3, <2>4, <2>6, GivesUp DEF Resynchronises
  <2>7. QED
    BY <2>5, <2>6
<1>11. ASSUME InstallXfrm PROVE ImsTypeOK'
  <2>1. ims \in ImsSessions /\ ims' \in ImsSessions
    BY <1>11, SessionSteps DEF InstallXfrm, ImsSteps
  <2>2. kernel' \subseteq [call : Nat, key : Nat]
    BY <1>11, <2>1 DEF InstallXfrm, Associations, ImsSessions
  <2>3. QED
    BY <1>11, <2>1, <2>2 DEF InstallXfrm
<1>12. ASSUME Registered PROVE ImsTypeOK'
  <2>1. ims \in ImsSessions /\ ims.sequence + 1 \in Nat /\ ims.nonce \in Nat
    BY <1>12 DEF Registered, ImsSessions
  <2>2. seen' \subseteq Registers /\ IsFiniteSet(seen')
    BY <1>12, <2>1, Arrived DEF Registered
  <2>3. ims' \in ImsSessions
    BY <1>12, <2>1, SessionSteps DEF Registered, ImsSteps
  <2>4. QED
    BY <1>12, <2>1, <2>2, <2>3, BindsTo DEF Registered
<1>13. ASSUME GoOnline PROVE ImsTypeOK'
  BY <1>13, WorkerMoves DEF GoOnline, Moves, Ends, Places
<1>14. ASSUME EstablishmentFails PROVE ImsTypeOK'
  <2>1. ims \in ImsSessions /\ ims.sequence + 1 \in Nat /\ ims.nonce \in Nat
        /\ ims.sequence \in Nat
    BY <1>14 DEF EstablishmentFails, ImsSessions
  <2>2. seen' = seen \/ RequestOfStep
    BY <1>14 DEF EstablishmentFails
  <2>3. seen' \subseteq Registers /\ IsFiniteSet(seen')
    BY <2>1, <2>2, Arrived DEF RequestOfStep
  <2>4. binding' \in Bindings
    BY <1>14, <2>1, BindsTo DEF EstablishmentFails
  <2>5. Gives
    BY <1>14 DEF EstablishmentFails
  <2>6. QED
    BY <1>14, <2>3, <2>4, <2>5, GivesUp DEF EstablishmentFails
<1>15. ASSUME AgentChanged PROVE ImsTypeOK'
  BY <1>15, WorkerMoves DEF AgentChanged, Moves, Ends, Places, Removed, Gives
<1>16. ASSUME \E what \in {"poll", "keepalive", "refresh"} : CallSession(what) PROVE ImsTypeOK'
  BY <1>16, WorkerWaits DEF CallSession, Called
<1>17. ASSUME WaitTooLong PROVE ImsTypeOK'
  BY <1>17, WorkerWaits DEF WaitTooLong, Called
<1>18. ASSUME Keepalive PROVE ImsTypeOK'
  BY <1>18, WorkerWaits, WorkerMoves DEF Keepalive, Called, Ends, Places
<1>19. ASSUME RefreshAnswered PROVE ImsTypeOK'
  <2>1. ims \in ImsSessions /\ ims.sequence + 1 \in Nat /\ ims.nonce \in Nat
        /\ ims.count + 1 \in Nat
    BY <1>19 DEF RefreshAnswered, PlacesFit, RegisteredFits, ImsSessions
  <2>2. seen' \subseteq Registers /\ IsFiniteSet(seen')
    BY <1>19, <2>1, Arrived DEF RefreshAnswered
  <2>3. ims' \in ImsSessions
    BY <1>19, <2>1, SessionCounts DEF RefreshAnswered
  <2>4. worker' \in Workers
    BY <1>19, WorkerWaits DEF RefreshAnswered
  <2>5. QED
    BY <1>19, <2>1, <2>2, <2>3, <2>4, BindsTo DEF RefreshAnswered
<1>20. ASSUME RefreshFails PROVE ImsTypeOK'
  <2>1. ims \in ImsSessions /\ ims.sequence + 1 \in Nat /\ ims.nonce \in Nat
        /\ ims.count + 1 \in Nat
    BY <1>20 DEF RefreshFails, PlacesFit, RegisteredFits, ImsSessions
  <2>2. seen' \subseteq Registers /\ IsFiniteSet(seen')
    BY <1>20, <2>1, Arrived DEF RefreshFails
  <2>3. binding' \in Bindings
    BY <1>20, <2>1, BindsTo DEF RefreshFails
  <2>4. worker' \in Workers
    BY <1>20, WorkerMoves DEF RefreshFails, Ends, Places
  <2>5. QED
    BY <1>20, <2>2, <2>3, <2>4 DEF RefreshFails
<1>21. ASSUME OnlineFails PROVE ImsTypeOK'
  BY <1>21, WorkerMoves DEF OnlineFails, Moves, Ends, Places, Idle
<1>22. ASSUME SubmissionStarts PROVE ImsTypeOK'
  BY <1>22 DEF SubmissionStarts
<1>23. ASSUME SubmissionEnds PROVE ImsTypeOK'
  BY <1>23 DEF SubmissionEnds
<1>24. ASSUME StopServer PROVE ImsTypeOK'
  BY <1>24 DEF StopServer
<1>25. ASSUME CloseSession PROVE ImsTypeOK'
  BY <1>25 DEF CloseSession, Removed, Gives
<1>26. ASSUME TerminateStrongSwan PROVE ImsTypeOK'
  BY <1>26, WorkerMoves DEF TerminateStrongSwan, Moves, Ends, Places
<1>27. ASSUME AttemptEnds PROVE ImsTypeOK'
  BY <1>27, WorkerMoves DEF AttemptEnds, Moves, Ends, Places
<1>28. ASSUME NextAttempt PROVE ImsTypeOK'
  BY <1>28, WorkerMoves DEF NextAttempt, Moves, Ends, Places
<1>29. ASSUME StopWorker PROVE ImsTypeOK'
  BY <1>29, WorkerMoves DEF StopWorker, Moves, Ends, Places
<1>30. ASSUME TimePasses PROVE ImsTypeOK'
  BY <1>30, Passed DEF TimePasses
<1>31. ASSUME AgentRestarts PROVE ImsTypeOK'
  BY <1>31 DEF AgentRestarts
<1>32. ASSUME UNCHANGED imsVars PROVE ImsTypeOK'
  BY <1>32 DEF imsVars
<1>33. ASSUME Polled PROVE ImsTypeOK'
  BY <1>33, WorkerWaits, WorkerMoves DEF Polled, Called, Ends, Idle, Places
<1>34. ASSUME RefreshBegins PROVE ImsTypeOK'
  BY <1>34, WorkerWaits, WorkerMoves DEF RefreshBegins, Called, Ends, Idle, Places
<1>35. ASSUME RefreshTooLate PROVE ImsTypeOK'
  BY <1>35, WorkerWaits, WorkerMoves DEF RefreshTooLate, Called, Ends, Idle, Places
<1>36. ASSUME LoopStops PROVE ImsTypeOK'
  BY <1>36, WorkerWaits, WorkerMoves DEF LoopStops, Called, Ends, Idle, Places
<1>37. QED
  BY <1>1, <1>2, <1>3, <1>4, <1>5, <1>6, <1>7, <1>8, <1>9, <1>10, <1>11, <1>12, <1>13, <1>14, <1>15, <1>16, <1>17, <1>18, <1>19, <1>20, <1>21, <1>22, <1>23, <1>24, <1>25, <1>26, <1>27, <1>28, <1>29, <1>30, <1>31, <1>32, <1>33, <1>34, <1>35, <1>36 DEF ImsNext

LEMMA Bounded ==
  ASSUME RegistrationInv, ims \in ImsSessions, Calls' \subseteq Calls \cup {ims.call}
  PROVE  CallsAreBounded'
<1>1. PICK n \in Nat : \A c \in Calls : c <= n
  BY DEF RegistrationInv, CallsAreBounded
<1>2. \A c \in Calls : c \in Nat
  BY DEF Calls, RegistrationInv, ImsTypeOK, Registers, Bindings
<1>3. ims.call \in Nat
  BY DEF ImsSessions
<1>4. n + ims.call \in Nat /\ \A c \in Calls' : c <= n + ims.call
  BY <1>1, <1>2, <1>3
<1>5. QED
  BY <1>4 DEF CallsAreBounded

LEMMA RegBounded == RegistrationInv /\ [ImsNext]_imsVars => CallsAreBounded'
<1> SUFFICES ASSUME RegistrationInv, [ImsNext]_imsVars PROVE CallsAreBounded'
  OBVIOUS
<1> USE DEF outside
<1>1. ASSUME Prepare PROVE CallsAreBounded'
  BY <1>1 DEF Prepare, CallsAreBounded, Calls, RegistrationInv, ImsTypeOK, Untouched, ImsFault
<1>2. ASSUME StartStrongSwan PROVE CallsAreBounded'
  BY <1>2 DEF StartStrongSwan, CallsAreBounded, Calls, RegistrationInv, ImsTypeOK, Untouched, ImsFault
<1>3. ASSUME Initiate PROVE CallsAreBounded'
  BY <1>3 DEF Initiate, CallsAreBounded, Calls, RegistrationInv, ImsTypeOK, Untouched, ImsFault
<1>4. ASSUME Discover PROVE CallsAreBounded'
  BY <1>4 DEF Discover, CallsAreBounded, Calls, RegistrationInv, ImsTypeOK, Untouched, ImsFault
<1>5. ASSUME StepFails PROVE CallsAreBounded'
  BY <1>5 DEF StepFails, CallsAreBounded, Calls, RegistrationInv, ImsTypeOK, Untouched, ImsFault
<1>6. ASSUME OpenSession PROVE CallsAreBounded'
  BY <1>6 DEF OpenSession, CallsAreBounded, Calls, RegistrationInv, ImsTypeOK, Untouched, ImsFault
<1>7. ASSUME Challenged PROVE CallsAreBounded'
  <2>1. ims \in ImsSessions /\ (seen' = seen \/ \E q, n, c : Arrives(q, n, c))
        /\ binding'.call \in {binding.call, ims.call}
    BY <1>7 DEF Challenged, RequestOfStep, RegistrationInv, ImsTypeOK, RegisteredFits, Called, At, Untouched, Fresh
  <2>2. Calls' \subseteq Calls \cup {ims.call}
    BY <2>1 DEF Arrives, Calls
  <2>3. QED
    BY <2>2, <2>1, Bounded
<1>8. ASSUME IntervalTooBrief PROVE CallsAreBounded'
  <2>1. ims \in ImsSessions /\ (seen' = seen \/ \E q, n, c : Arrives(q, n, c))
        /\ binding'.call \in {binding.call, ims.call}
    BY <1>8 DEF IntervalTooBrief, RequestOfStep, RegistrationInv, ImsTypeOK, RegisteredFits, Called, At, Untouched, Fresh
  <2>2. Calls' \subseteq Calls \cup {ims.call}
    BY <2>1 DEF Arrives, Calls
  <2>3. QED
    BY <2>2, <2>1, Bounded
<1>9. ASSUME Authenticates PROVE CallsAreBounded'
  BY <1>9 DEF Authenticates, CallsAreBounded, Calls, RegistrationInv, ImsTypeOK, Untouched, ImsFault
<1>10. ASSUME Resynchronises PROVE CallsAreBounded'
  <2>1. ims \in ImsSessions /\ (seen' = seen \/ \E q, n, c : Arrives(q, n, c))
        /\ binding'.call \in {binding.call, ims.call}
    BY <1>10 DEF Resynchronises, RequestOfStep, RegistrationInv, ImsTypeOK, RegisteredFits, Called, At, Untouched, Fresh
  <2>2. Calls' \subseteq Calls \cup {ims.call}
    BY <2>1 DEF Arrives, Calls
  <2>3. QED
    BY <2>2, <2>1, Bounded
<1>11. ASSUME InstallXfrm PROVE CallsAreBounded'
  BY <1>11 DEF InstallXfrm, CallsAreBounded, Calls, RegistrationInv, ImsTypeOK, Untouched, ImsFault
<1>12. ASSUME Registered PROVE CallsAreBounded'
  <2>1. ims \in ImsSessions /\ (seen' = seen \/ \E q, n, c : Arrives(q, n, c))
        /\ binding'.call \in {binding.call, ims.call}
    BY <1>12 DEF Registered, RequestOfStep, RegistrationInv, ImsTypeOK, RegisteredFits, Called, At, Untouched, Fresh
  <2>2. Calls' \subseteq Calls \cup {ims.call}
    BY <2>1 DEF Arrives, Calls
  <2>3. QED
    BY <2>2, <2>1, Bounded
<1>13. ASSUME GoOnline PROVE CallsAreBounded'
  BY <1>13 DEF GoOnline, CallsAreBounded, Calls, RegistrationInv, ImsTypeOK, Untouched, ImsFault
<1>14. ASSUME EstablishmentFails PROVE CallsAreBounded'
  <2>1. ims \in ImsSessions /\ (seen' = seen \/ \E q, n, c : Arrives(q, n, c))
        /\ binding'.call \in {binding.call, ims.call}
    BY <1>14 DEF EstablishmentFails, RequestOfStep, RegistrationInv, ImsTypeOK, RegisteredFits, Called, At, Untouched, Fresh
  <2>2. Calls' \subseteq Calls \cup {ims.call}
    BY <2>1 DEF Arrives, Calls
  <2>3. QED
    BY <2>2, <2>1, Bounded
<1>15. ASSUME AgentChanged PROVE CallsAreBounded'
  BY <1>15 DEF AgentChanged, CallsAreBounded, Calls, RegistrationInv, ImsTypeOK, Untouched, ImsFault
<1>16. ASSUME \E what \in {"poll", "keepalive", "refresh"} : CallSession(what) PROVE CallsAreBounded'
  BY <1>16 DEF CallSession, CallsAreBounded, Calls, RegistrationInv, ImsTypeOK, Untouched, ImsFault
<1>17. ASSUME WaitTooLong PROVE CallsAreBounded'
  BY <1>17 DEF WaitTooLong, CallsAreBounded, Calls, RegistrationInv, ImsTypeOK, Untouched, ImsFault
<1>18. ASSUME Keepalive PROVE CallsAreBounded'
  BY <1>18 DEF Keepalive, CallsAreBounded, Calls, RegistrationInv, ImsTypeOK, Untouched, ImsFault
<1>19. ASSUME RefreshAnswered PROVE CallsAreBounded'
  <2>1. ims \in ImsSessions /\ (seen' = seen \/ \E q, n, c : Arrives(q, n, c))
        /\ binding'.call \in {binding.call, ims.call}
    BY <1>19 DEF RefreshAnswered, RegistrationInv, ImsTypeOK, PlacesFit, RegisteredFits, At, Fresh
  <2>2. Calls' \subseteq Calls \cup {ims.call}
    BY <2>1 DEF Arrives, Calls
  <2>3. QED
    BY <2>2, <2>1, Bounded
<1>20. ASSUME RefreshFails PROVE CallsAreBounded'
  <2>1. ims \in ImsSessions /\ (seen' = seen \/ \E q, n, c : Arrives(q, n, c))
        /\ binding'.call \in {binding.call, ims.call}
    BY <1>20 DEF RefreshFails, RegistrationInv, ImsTypeOK, PlacesFit, RegisteredFits, At, Fresh
  <2>2. Calls' \subseteq Calls \cup {ims.call}
    BY <2>1 DEF Arrives, Calls
  <2>3. QED
    BY <2>2, <2>1, Bounded
<1>21. ASSUME OnlineFails PROVE CallsAreBounded'
  BY <1>21 DEF OnlineFails, CallsAreBounded, Calls, RegistrationInv, ImsTypeOK, Untouched, ImsFault
<1>22. ASSUME SubmissionStarts PROVE CallsAreBounded'
  BY <1>22 DEF SubmissionStarts, CallsAreBounded, Calls, RegistrationInv, ImsTypeOK, Untouched, ImsFault
<1>23. ASSUME SubmissionEnds PROVE CallsAreBounded'
  BY <1>23 DEF SubmissionEnds, CallsAreBounded, Calls, RegistrationInv, ImsTypeOK, Untouched, ImsFault
<1>24. ASSUME StopServer PROVE CallsAreBounded'
  BY <1>24 DEF StopServer, CallsAreBounded, Calls, RegistrationInv, ImsTypeOK, Untouched, ImsFault
<1>25. ASSUME CloseSession PROVE CallsAreBounded'
  BY <1>25 DEF CloseSession, CallsAreBounded, Calls, RegistrationInv, ImsTypeOK, Untouched, ImsFault
<1>26. ASSUME TerminateStrongSwan PROVE CallsAreBounded'
  BY <1>26 DEF TerminateStrongSwan, CallsAreBounded, Calls, RegistrationInv, ImsTypeOK, Untouched, ImsFault
<1>27. ASSUME AttemptEnds PROVE CallsAreBounded'
  BY <1>27 DEF AttemptEnds, CallsAreBounded, Calls, RegistrationInv, ImsTypeOK, Untouched, ImsFault
<1>28. ASSUME NextAttempt PROVE CallsAreBounded'
  BY <1>28 DEF NextAttempt, CallsAreBounded, Calls, RegistrationInv, ImsTypeOK, Untouched, ImsFault
<1>29. ASSUME StopWorker PROVE CallsAreBounded'
  BY <1>29 DEF StopWorker, CallsAreBounded, Calls, RegistrationInv, ImsTypeOK, Untouched, ImsFault
<1>30. ASSUME TimePasses PROVE CallsAreBounded'
  BY <1>30, Passed DEF TimePasses, CallsAreBounded, Calls, RegistrationInv
<1>31. ASSUME AgentRestarts PROVE CallsAreBounded'
  BY <1>31 DEF AgentRestarts, CallsAreBounded, Calls, RegistrationInv, ImsTypeOK, Untouched, ImsFault
<1>32. ASSUME UNCHANGED imsVars PROVE CallsAreBounded'
  BY <1>32 DEF imsVars, CallsAreBounded, Calls, RegistrationInv, ImsTypeOK, Untouched, ImsFault
<1>33. ASSUME Polled PROVE CallsAreBounded'
  BY <1>33 DEF Polled, CallsAreBounded, Calls, RegistrationInv
<1>34. ASSUME RefreshBegins PROVE CallsAreBounded'
  BY <1>34 DEF RefreshBegins, CallsAreBounded, Calls, RegistrationInv
<1>35. ASSUME RefreshTooLate PROVE CallsAreBounded'
  BY <1>35 DEF RefreshTooLate, CallsAreBounded, Calls, RegistrationInv
<1>36. ASSUME LoopStops PROVE CallsAreBounded'
  BY <1>36 DEF LoopStops, CallsAreBounded, Calls, RegistrationInv
<1>37. QED
  BY <1>1, <1>2, <1>3, <1>4, <1>5, <1>6, <1>7, <1>8, <1>9, <1>10, <1>11, <1>12, <1>13, <1>14, <1>15, <1>16, <1>17, <1>18, <1>19, <1>20, <1>21, <1>22, <1>23, <1>24, <1>25, <1>26, <1>27, <1>28, <1>29, <1>30, <1>31, <1>32, <1>33, <1>34, <1>35, <1>36 DEF ImsNext

LEMMA RegPlaces == RegistrationInv /\ [ImsNext]_imsVars => PlacesFit'
<1> SUFFICES ASSUME RegistrationInv, [ImsNext]_imsVars PROVE PlacesFit'
  OBVIOUS
<1> USE DEF RegistrationInv, ImsTypeOK, Workers, ImsSessions, PlacesFit, RegisteredFits, Away, Live,
       At
<1>1. ASSUME Prepare PROVE PlacesFit'
  BY <1>1 DEF Prepare, outside, counters
<1>2. ASSUME StartStrongSwan PROVE PlacesFit'
  BY <1>2 DEF StartStrongSwan, Moves, outside, counters
<1>3. ASSUME Initiate PROVE PlacesFit'
  BY <1>3 DEF Initiate, Moves, outside, counters
<1>4. ASSUME Discover PROVE PlacesFit'
  BY <1>4 DEF Discover, outside, counters
<1>5. ASSUME StepFails PROVE PlacesFit'
  BY <1>5 DEF StepFails, ImsFault, Ends, outside, counters
<1>6. ASSUME OpenSession PROVE PlacesFit'
  BY <1>6 DEF OpenSession, Establishing, outside, counters
<1>7. ASSUME Challenged PROVE PlacesFit'
  BY <1>7 DEF Challenged, Establishing, Untouched, counters
<1>8. ASSUME IntervalTooBrief PROVE PlacesFit'
  BY <1>8 DEF IntervalTooBrief, Establishing, ImsFault, Untouched, counters
<1>9. ASSUME Authenticates PROVE PlacesFit'
  BY <1>9 DEF Authenticates, Establishing, Untouched, counters
<1>10. ASSUME Resynchronises PROVE PlacesFit'
  <2>1. worker.at = "register" /\ ims.step = "challenged" /\ ims # NoSession
    BY <1>10 DEF Resynchronises, Establishing
  <2>2. UNCHANGED <<event, charon, mutex, server>>
    BY <1>10 DEF Resynchronises, Untouched
  <2>3. CASE Gives
    <3>1. ims' = NoSession
          /\ worker' \in {worker, [worker EXCEPT !.at = "close", !.waits = "no", !.late = FALSE]}
      BY <2>3, GivesUp
    <3>2. \/ worker' = worker
          \/ worker'.at = "close" /\ worker'.late = FALSE /\ worker'.waits = "no"
      BY <3>1
    <3>3. QED
      BY <2>1, <2>2, <3>1, <3>2
  <2>4. CASE ~Gives
    <3>1. PICK new \in {ims.nonce, issued + 1} :
            /\ ims' = [ims EXCEPT !.sequence = @ + 1, !.nonce = new, !.tries = @ + 1]
            /\ worker' = worker
      BY <1>10, <2>4 DEF Resynchronises
    <3>2. ims'.step = "challenged"
      BY <2>1, <3>1
    <3>3. QED
      BY <2>1, <2>2, <3>1, <3>2
  <2>5. QED
    BY <2>3, <2>4
<1>11. ASSUME InstallXfrm PROVE PlacesFit'
  BY <1>11 DEF InstallXfrm, Establishing, Untouched, counters
<1>12. ASSUME Registered PROVE PlacesFit'
  BY <1>12 DEF Registered, Establishing, Untouched, counters
<1>13. ASSUME GoOnline PROVE PlacesFit'
  BY <1>13 DEF GoOnline, Establishing, Moves, outside, counters
<1>14. ASSUME EstablishmentFails PROVE PlacesFit'
  <2>1. worker.at = "register" /\ ims.step # "open" /\ ims # NoSession
    BY <1>14 DEF EstablishmentFails, Establishing
  <2>2. Gives /\ UNCHANGED <<event, charon, mutex, server>>
    BY <1>14 DEF EstablishmentFails, Untouched
  <2>3. ims' = NoSession
        /\ worker' \in {worker, [worker EXCEPT !.at = "close", !.waits = "no", !.late = FALSE]}
    BY <2>2, GivesUp
  <2>4. \/ worker' = worker
        \/ worker'.at = "close" /\ worker'.late = FALSE /\ worker'.waits = "no"
    BY <2>3
  <2>5. QED
    BY <2>1, <2>2, <2>3, <2>4
<1>15. ASSUME AgentChanged PROVE PlacesFit'
  <2>1. worker.at = "register" /\ ims.step = "challenged" /\ ims # NoSession
    BY <1>15 DEF AgentChanged, Establishing
  <2>2. Gives /\ UNCHANGED <<event, charon, mutex, server>>
    BY <1>15 DEF AgentChanged, Untouched
  <2>3. ims' = NoSession
        /\ worker' \in {worker, [worker EXCEPT !.at = "close", !.waits = "no", !.late = FALSE]}
    BY <2>2, GivesUp
  <2>4. \/ worker' = worker
        \/ worker'.at = "close" /\ worker'.late = FALSE /\ worker'.waits = "no"
    BY <2>3
  <2>5. QED
    BY <2>1, <2>2, <2>3, <2>4
<1>16. ASSUME \E what \in {"poll", "keepalive", "refresh"} : CallSession(what) PROVE PlacesFit'
  BY <1>16 DEF CallSession, Idle, outside, counters
<1>17. ASSUME WaitTooLong PROVE PlacesFit'
  BY <1>17 DEF WaitTooLong, outside, counters
<1>18. ASSUME Keepalive PROVE PlacesFit'
  <2>1. worker' = [worker EXCEPT !.waits = "no"]
          \/ worker' = [worker EXCEPT !.at = "close", !.waits = "no", !.late = FALSE]
    BY <1>18 DEF Keepalive, Ends
  <2>2. worker.at = "online" /\ UNCHANGED <<event, charon, ims, mutex, server>>
        /\ mutex = "free"
    BY <1>18 DEF Keepalive, Called
  <2>3. \/ worker'.at = "online"
        \/ worker'.at = "close" /\ worker'.late = FALSE /\ worker'.waits = "no"
    BY <2>1, <2>2
  <2>4. QED
    BY <2>2, <2>3
<1>19. ASSUME RefreshAnswered PROVE PlacesFit'
  <2>1. ims \in ImsSessions /\ ims.step = "open" /\ At("online")
    BY <1>19 DEF RefreshAnswered
  <2>2. ims' = [ims EXCEPT !.sequence = ims.sequence + 1, !.count = ims.count + 1]
    BY <1>19 DEF RefreshAnswered
  <2>3. ims'.step = ims.step /\ ims'.call = ims.call /\ ims' \in ImsSessions
    BY <2>1, <2>2, SessionCounts
  <2>4. worker' = [worker EXCEPT !.waits = "no"]
    BY <1>19 DEF RefreshAnswered
  <2>5. worker'.at = worker.at /\ worker'.late = worker.late
        /\ worker'.stopping = worker.stopping /\ worker'.waits = "no"
    BY <2>4
  <2>6. ims' # NoSession
    BY <2>3, ImsAssumption DEF ImsAssumption
  <2>7. UNCHANGED <<event, charon, server>> /\ mutex' = "free"
    BY <1>19 DEF RefreshAnswered
  <2>8. QED
    BY <2>1, <2>3, <2>5, <2>6, <2>7
<1>20. ASSUME RefreshFails PROVE PlacesFit'
  BY <1>20 DEF RefreshFails, Called, ImsFault, Ends
<1>21. ASSUME OnlineFails PROVE PlacesFit'
  BY <1>21 DEF OnlineFails, Idle, Establishing, ImsFault, Ends, outside, counters
<1>22. ASSUME SubmissionStarts PROVE PlacesFit'
  BY <1>22 DEF SubmissionStarts, outside
<1>23. ASSUME SubmissionEnds PROVE PlacesFit'
  BY <1>23 DEF SubmissionEnds, outside, counters
<1>24. ASSUME StopServer PROVE PlacesFit'
  BY <1>24 DEF StopServer, outside, counters
<1>25. ASSUME CloseSession PROVE PlacesFit'
  BY <1>25 DEF CloseSession, CanClose, Removed, counters
<1>26. ASSUME TerminateStrongSwan PROVE PlacesFit'
  BY <1>26 DEF TerminateStrongSwan, Moves, outside, counters
<1>27. ASSUME AttemptEnds PROVE PlacesFit'
  BY <1>27 DEF AttemptEnds, Moves, outside, counters
<1>28. ASSUME NextAttempt PROVE PlacesFit'
  BY <1>28 DEF NextAttempt, Moves, outside
<1>29. ASSUME StopWorker PROVE PlacesFit'
  BY <1>29 DEF StopWorker, ImsFault, outside, counters
<1>30. ASSUME TimePasses PROVE PlacesFit'
  BY <1>30 DEF TimePasses, counters
<1>31. ASSUME AgentRestarts PROVE PlacesFit'
  BY <1>31 DEF AgentRestarts, ImsFault, counters
<1>32. ASSUME UNCHANGED imsVars PROVE PlacesFit'
  BY <1>32 DEF imsVars
<1>33. ASSUME Polled PROVE PlacesFit'
  BY <1>33 DEF Polled, Called, Idle, Ends, outside, counters
<1>34. ASSUME RefreshBegins PROVE PlacesFit'
  BY <1>34 DEF RefreshBegins, Called, Idle, Ends, outside, counters
<1>35. ASSUME RefreshTooLate PROVE PlacesFit'
  BY <1>35 DEF RefreshTooLate, Called, Idle, Ends, outside, counters
<1>36. ASSUME LoopStops PROVE PlacesFit'
  BY <1>36 DEF LoopStops, Called, Idle, Ends, outside, counters
<1>37. QED
  BY <1>1, <1>2, <1>3, <1>4, <1>5, <1>6, <1>7, <1>8, <1>9, <1>10, <1>11, <1>12, <1>13, <1>14,
     <1>15, <1>16, <1>17, <1>18, <1>19, <1>20, <1>21, <1>22, <1>23, <1>24, <1>25, <1>26, <1>27,
     <1>28, <1>29, <1>30, <1>31, <1>32, <1>33, <1>34, <1>35, <1>36 DEF ImsNext

(* A registration that was just answered has used up no time.              *)
LEMMA FreshFits ==
  ASSUME NEW call
  PROVE  /\ Fresh(call).call = call /\ Fresh(call).took = 0
         /\ Fresh(call).took <= ExchangeLimit
         /\ Lead <= Fresh(call).life + Fresh(call).waited + Fresh(call).took
BY ImsAssumption DEF ImsAssumption, Fresh

LEMMA Sums ==
  ASSUME NEW life \in Nat, NEW waited \in Nat, NEW took \in Nat, NEW lead \in Nat,
         life > 0, lead <= life + waited + took
  PROVE  /\ lead <= (life - 1) + (waited + 1) + took
         /\ lead <= (life - 1) + waited + (took + 1)
         /\ life > lead => lead <= (life - 1) + waited + took
OBVIOUS

(* A tick is one of waiting, one of the exchange, or one before the        *)
(* refresh is due.                                                         *)
LEMMA TimeKept ==
  ASSUME ImsTypeOK, TimePasses, worker.at = "online", TimeFits
  PROVE  TimeFits'
<1>1. /\ UNCHANGED <<worker, mutex>> /\ ~Urgent
  BY DEF TimePasses
<1>2. /\ binding.life \in Nat /\ binding.waited \in Nat /\ binding.took \in Nat
      /\ Lead \in Nat /\ ExchangeLimit \in Nat /\ binding.life > 0
      /\ Lead <= binding.life + binding.waited + binding.took
  BY ImsAssumption DEF ImsTypeOK, Bindings, ImsAssumption, TimePasses, TimeFits
<1>3. CASE mutex = "loop"
  <2>1. binding.took + 1 <= ExchangeLimit
    BY <1>1, <1>2, <1>3 DEF Urgent
  <2>2. /\ binding'.life = binding.life - 1 /\ binding'.waited = binding.waited
        /\ binding'.took = binding.took + 1
    BY <1>3, Passed DEF Waits
  <2>3. Lead <= (binding.life - 1) + binding.waited + (binding.took + 1)
    BY <1>2, Sums
  <2>4. QED
    BY <1>1, <1>3, <2>1, <2>2, <2>3 DEF TimeFits
<1>4. CASE mutex # "loop" /\ Due
  <2>1. Waits
    BY <1>1, <1>4 DEF ImsTypeOK, Urgent, Idle, At, Waits
  <2>2. /\ binding'.life = binding.life - 1 /\ binding'.waited = binding.waited + 1
        /\ binding'.took = binding.took
    BY <1>4, <2>1, Passed
  <2>3. Lead <= (binding.life - 1) + (binding.waited + 1) + binding.took
    BY <1>2, Sums
  <2>4. QED
    BY <1>1, <1>4, <2>2, <2>3 DEF TimeFits
<1>5. CASE mutex # "loop" /\ ~Due
  <2>1. binding.life > Lead
    BY <1>2, <1>5 DEF Due
  <2>2. /\ binding'.life = binding.life - 1 /\ binding'.waited = binding.waited
        /\ binding'.took = binding.took
    BY <1>5, Passed
  <2>3. Lead <= (binding.life - 1) + binding.waited + binding.took
    BY <1>2, <2>1, Sums
  <2>4. QED
    BY <1>1, <1>5, <2>2, <2>3 DEF TimeFits
<1>6. QED
  BY <1>3, <1>4, <1>5

LEMMA RegRegistered == RegistrationInv /\ [ImsNext]_imsVars => RegisteredFits'
<1> SUFFICES ASSUME RegistrationInv, [ImsNext]_imsVars PROVE RegisteredFits'
  OBVIOUS
<1> USE DEF RegistrationInv, ImsTypeOK, Workers, ImsSessions, PlacesFit, RegisteredFits, TimeFits,
       Away, Live, At
<1>1. ASSUME Prepare PROVE RegisteredFits'
  BY <1>1 DEF Prepare, outside, counters
<1>2. ASSUME StartStrongSwan PROVE RegisteredFits'
  BY <1>2 DEF StartStrongSwan, Moves, outside, counters
<1>3. ASSUME Initiate PROVE RegisteredFits'
  BY <1>3 DEF Initiate, Moves, outside, counters
<1>4. ASSUME Discover PROVE RegisteredFits'
  BY <1>4 DEF Discover, outside, counters
<1>5. ASSUME StepFails PROVE RegisteredFits'
  BY <1>5 DEF StepFails, ImsFault, Ends, outside, counters
<1>6. ASSUME OpenSession PROVE RegisteredFits'
  BY <1>6 DEF OpenSession, Establishing, outside, counters
<1>7. ASSUME Challenged PROVE RegisteredFits'
  BY <1>7 DEF Challenged, Establishing, Untouched, counters
<1>8. ASSUME IntervalTooBrief PROVE RegisteredFits'
  BY <1>8 DEF IntervalTooBrief, Establishing, ImsFault, Untouched, counters
<1>9. ASSUME Authenticates PROVE RegisteredFits'
  BY <1>9 DEF Authenticates, Establishing, Untouched, counters
<1>10. ASSUME Resynchronises PROVE RegisteredFits'
  BY <1>10 DEF Resynchronises, Establishing, ImsFault, Gives, Untouched, Removed, Ends, counters
<1>11. ASSUME InstallXfrm PROVE RegisteredFits'
  BY <1>11 DEF InstallXfrm, Establishing, Untouched, counters
<1>12. ASSUME Registered PROVE RegisteredFits'
  <2>1. binding' = Fresh(ims.call) /\ ims' = [ims EXCEPT !.step = "open",
                                               !.sequence = @ + 1, !.count = 1]
        /\ UNCHANGED <<worker, mutex>> /\ worker.at = "register"
    BY <1>12 DEF Registered, Establishing, Untouched
  <2>2. ims'.call = ims.call /\ mutex # "loop"
    BY <1>12, <2>1 DEF Registered
  <2>3. QED
    BY <2>1, <2>2, FreshFits
<1>13. ASSUME GoOnline PROVE RegisteredFits'
  BY <1>13 DEF GoOnline, Establishing, Moves, outside, counters
<1>14. ASSUME EstablishmentFails PROVE RegisteredFits'
  BY <1>14 DEF EstablishmentFails, Establishing, ImsFault, Gives, Untouched, Removed, Ends,
         counters
<1>15. ASSUME AgentChanged PROVE RegisteredFits'
  BY <1>15 DEF AgentChanged, Establishing, Gives, Untouched, Removed, Ends, counters
<1>16. ASSUME \E what \in {"poll", "keepalive", "refresh"} : CallSession(what) PROVE RegisteredFits'
  BY <1>16 DEF CallSession, Idle, outside, counters
<1>17. ASSUME WaitTooLong PROVE RegisteredFits'
  BY <1>17 DEF WaitTooLong, outside, counters
<1>18. ASSUME Keepalive PROVE RegisteredFits'
  BY <1>18 DEF Keepalive, Called, Ends, outside, counters
<1>19. ASSUME RefreshAnswered PROVE RegisteredFits'
  <2>1. ims \in ImsSessions /\ ims.step = "open" /\ At("online")
    BY <1>19 DEF RefreshAnswered, Called
  <2>2. ims' = [ims EXCEPT !.sequence = ims.sequence + 1, !.count = ims.count + 1]
    BY <1>19 DEF RefreshAnswered
  <2>3. ims'.step = ims.step /\ ims'.call = ims.call /\ ims' \in ImsSessions
    BY <2>1, <2>2, SessionCounts
  <2>4. worker' = [worker EXCEPT !.waits = "no"]
    BY <1>19 DEF RefreshAnswered
  <2>5. worker'.at = worker.at /\ worker'.late = worker.late
        /\ worker'.stopping = worker.stopping /\ worker'.waits = "no"
    BY <2>4
  <2>6. ims' # NoSession
    BY <2>3, ImsAssumption DEF ImsAssumption
  <2>7. UNCHANGED <<event, charon, server>>
    BY <1>19 DEF RefreshAnswered
  <2>8. binding' = Fresh(ims.call) /\ mutex' = "free"
    BY <1>19 DEF RefreshAnswered
  <2>9. QED
    BY <2>1, <2>3, <2>5, <2>6, <2>7, <2>8, FreshFits
<1>20. ASSUME RefreshFails PROVE RegisteredFits'
  BY <1>20 DEF RefreshFails, Called, ImsFault, Ends
<1>21. ASSUME OnlineFails PROVE RegisteredFits'
  BY <1>21 DEF OnlineFails, Idle, Establishing, ImsFault, Ends, outside, counters
<1>22. ASSUME SubmissionStarts PROVE RegisteredFits'
  BY <1>22 DEF SubmissionStarts, outside
<1>23. ASSUME SubmissionEnds PROVE RegisteredFits'
  BY <1>23 DEF SubmissionEnds, outside, counters
<1>24. ASSUME StopServer PROVE RegisteredFits'
  BY <1>24 DEF StopServer, outside, counters
<1>25. ASSUME CloseSession PROVE RegisteredFits'
  BY <1>25 DEF CloseSession, CanClose, Removed, counters
<1>26. ASSUME TerminateStrongSwan PROVE RegisteredFits'
  BY <1>26 DEF TerminateStrongSwan, Moves, outside, counters
<1>27. ASSUME AttemptEnds PROVE RegisteredFits'
  BY <1>27 DEF AttemptEnds, Moves, outside, counters
<1>28. ASSUME NextAttempt PROVE RegisteredFits'
  BY <1>28 DEF NextAttempt, Moves, outside
<1>29. ASSUME StopWorker PROVE RegisteredFits'
  BY <1>29 DEF StopWorker, ImsFault, outside, counters
<1>30. ASSUME TimePasses PROVE RegisteredFits'
  <2>1. /\ UNCHANGED <<worker, event, ims>> /\ ~Urgent /\ binding'.call = binding.call
    BY <1>30, Passed DEF TimePasses
  <2>2. SUFFICES ASSUME Live, ims.step = "open" PROVE TimeFits'
    BY <2>1
  <2>3. worker.at = "online"
    BY <2>1, <2>2 DEF Urgent, Establishing
  <2>4. TimeFits
    BY <2>2
  <2>5. QED
    BY <1>30, <2>3, <2>4, TimeKept
<1>31. ASSUME AgentRestarts PROVE RegisteredFits'
  BY <1>31 DEF AgentRestarts, ImsFault, counters
<1>32. ASSUME UNCHANGED imsVars PROVE RegisteredFits'
  BY <1>32 DEF imsVars
<1>33. ASSUME Polled PROVE RegisteredFits'
  BY <1>33 DEF Polled, Called, Idle, Ends, outside, counters
<1>34. ASSUME RefreshBegins PROVE RegisteredFits'
  BY <1>34 DEF RefreshBegins, Called, Idle, Ends, outside, counters
<1>35. ASSUME RefreshTooLate PROVE RegisteredFits'
  BY <1>35 DEF RefreshTooLate, Called, Idle, Ends, outside, counters
<1>36. ASSUME LoopStops PROVE RegisteredFits'
  BY <1>36 DEF LoopStops, Called, Idle, Ends, outside, counters
<1>37. QED
  BY <1>1, <1>2, <1>3, <1>4, <1>5, <1>6, <1>7, <1>8, <1>9, <1>10, <1>11, <1>12, <1>13, <1>14,
     <1>15, <1>16, <1>17, <1>18, <1>19, <1>20, <1>21, <1>22, <1>23, <1>24, <1>25, <1>26, <1>27,
     <1>28, <1>29, <1>30, <1>31, <1>32, <1>33, <1>34, <1>35, <1>36 DEF ImsNext

(* A request whose CSeq, and whose nonce with its count, the registrar did *)
(* not see before leaves all requests apart.                               *)
LEMMA FreshArrival ==
  ASSUME DigestsAreFresh, NEW new, seen' = seen \cup {new},
         \A s \in seen : s.call = new.call => s.sequence # new.sequence,
         new.nonce # 0 => \A s \in seen : s.nonce = new.nonce => s.count # new.count
  PROVE  DigestsAreFresh'
BY DEF DigestsAreFresh

(* What DigestsFit says of the session whose request arrives.              *)
LEMMA SessionIsAhead ==
  ASSUME RegistrationInv, Live
  PROVE  /\ ims \in ImsSessions /\ ims.call \in Nat /\ ims.sequence \in Nat
         /\ ims.nonce \in Nat /\ ims.count \in Nat /\ ims.nonce <= issued /\ issued \in Nat
         /\ ims.nonce = 0 <=> ims.step = "initial"
         /\ \A s \in seen :
              /\ s.nonce \in Nat /\ s.nonce <= issued /\ s.sequence \in Nat /\ s.count \in Nat
              /\ s.call = ims.call => s.sequence <= ims.sequence
              /\ s.call = ims.call /\ ims.step = "initial" => s.sequence # ims.sequence
              /\ s.nonce = ims.nonce /\ ims.nonce # 0 =>
                   ims.step = "open" /\ s.count <= ims.count
<1>1. ims \in ImsSessions /\ seen \subseteq Registers /\ issued \in Nat
  BY ImsAssumption DEF RegistrationInv, ImsTypeOK, Live, ImsAssumption
<1>2. QED
  BY <1>1 DEF RegistrationInv, DigestsFit, Live, ImsSessions, Registers

LEMMA ChallengedKeepsDigests == RegistrationInv /\ Challenged => DigestsFit'
<1> SUFFICES ASSUME RegistrationInv, Challenged PROVE DigestsFit'
  OBVIOUS
<1>1. Live
  BY DEF Challenged, Establishing, Live, At
<1>2. Arrives(ims.sequence, 0, 0) /\ ims.sequence \in Nat /\ 0 \in Nat /\ 0 \in Nat
  BY <1>1, SessionIsAhead DEF Challenged
<1>3. ImsTypeOK /\ CallsAreBounded /\ ims \in ImsSessions
  BY <1>1, SessionIsAhead DEF RegistrationInv
<1>4. PICK new : /\ seen' = seen \cup {new} /\ new \in Registers /\ new.call = ims.call
                 /\ new.sequence = ims.sequence /\ new.nonce = 0
                 /\ new.count = 0
  BY <1>2, <1>3, Arrived
<1>5. DigestsAreFresh'
  BY <1>1, <1>4, SessionIsAhead, FreshArrival DEF Challenged, RegistrationInv, DigestsFit
<1>6. issued' = issued + 1 /\ ims' = [ims EXCEPT !.step = "challenged", !.nonce = issued + 1]
      /\ UNCHANGED worker
  BY DEF Challenged
<1>7. ims'.step = "challenged" /\ ims'.nonce = issued + 1 /\ ims'.call = ims.call
      /\ ims'.sequence = ims.sequence
  BY <1>1, <1>6, SessionIsAhead DEF ImsSessions
<1>8. \A s \in seen' : s.nonce <= issued
  BY <1>1, <1>4, SessionIsAhead
<1>9. \A s \in seen' : s.call = ims.call => s.sequence <= ims.sequence
  BY <1>1, <1>4, SessionIsAhead
<1>10. \A s \in seen' : s.nonce \in Nat
  BY <1>1, <1>4, SessionIsAhead
<1>11. QED
  BY <1>1, <1>5, <1>6, <1>7, <1>8, <1>9, <1>10, SessionIsAhead DEF DigestsFit, Live

LEMMA IntervalTooBriefKeepsDigests == RegistrationInv /\ IntervalTooBrief => DigestsFit'
<1> SUFFICES ASSUME RegistrationInv, IntervalTooBrief PROVE DigestsFit'
  OBVIOUS
<1>1. Live
  BY DEF IntervalTooBrief, Establishing, Live, At
<1>2. Arrives(ims.sequence, 0, 0) /\ ims.sequence \in Nat /\ 0 \in Nat /\ 0 \in Nat
  BY <1>1, SessionIsAhead DEF IntervalTooBrief
<1>3. ImsTypeOK /\ CallsAreBounded /\ ims \in ImsSessions
  BY <1>1, SessionIsAhead DEF RegistrationInv
<1>4. PICK new : /\ seen' = seen \cup {new} /\ new \in Registers /\ new.call = ims.call
                 /\ new.sequence = ims.sequence /\ new.nonce = 0
                 /\ new.count = 0
  BY <1>2, <1>3, Arrived
<1>5. DigestsAreFresh'
  BY <1>1, <1>4, SessionIsAhead, FreshArrival DEF IntervalTooBrief, RegistrationInv, DigestsFit
<1>6. ims' = [ims EXCEPT !.sequence = ims.sequence + 1, !.retried = TRUE] /\ ims.step = "initial"
      /\ UNCHANGED <<worker, issued, kernel>>
  BY DEF IntervalTooBrief
<1>7. ims'.step = "initial" /\ ims'.nonce = 0 /\ ims'.call = ims.call
      /\ ims'.sequence = ims.sequence + 1
  BY <1>1, <1>6, SessionIsAhead DEF ImsSessions
<1>8. \A s \in seen' : s.nonce <= issued
  BY <1>1, <1>4, SessionIsAhead
<1>9. \A s \in seen' : s.call = ims.call => s.sequence < ims.sequence + 1
  BY <1>1, <1>4, SessionIsAhead
<1>10. \A s \in seen' : s.sequence \in Nat
  BY <1>1, <1>4, SessionIsAhead
<1>11. QED
  BY <1>1, <1>5, <1>6, <1>7, <1>8, <1>9, <1>10, SessionIsAhead DEF DigestsFit, Live

LEMMA RegisteredKeepsDigests == RegistrationInv /\ Registered => DigestsFit'
<1> SUFFICES ASSUME RegistrationInv, Registered PROVE DigestsFit'
  OBVIOUS
<1>1. Live
  BY DEF Registered, Establishing, Live, At
<1>2. Arrives(ims.sequence + 1, ims.nonce, 1) /\ ims.sequence + 1 \in Nat /\ ims.nonce \in Nat /\ 1 \in Nat
  BY <1>1, SessionIsAhead DEF Registered
<1>3. ImsTypeOK /\ CallsAreBounded /\ ims \in ImsSessions
  BY <1>1, SessionIsAhead DEF RegistrationInv
<1>4. PICK new : /\ seen' = seen \cup {new} /\ new \in Registers /\ new.call = ims.call
                 /\ new.sequence = ims.sequence + 1 /\ new.nonce = ims.nonce
                 /\ new.count = 1
  BY <1>2, <1>3, Arrived
<1>5. DigestsAreFresh'
  BY <1>1, <1>4, SessionIsAhead, FreshArrival DEF Registered, RegistrationInv, DigestsFit
<1>6. ims' = [ims EXCEPT !.step = "open", !.sequence = ims.sequence + 1, !.count = 1]
      /\ ims.step = "protected" /\ UNCHANGED <<worker, issued, kernel>>
  BY DEF Registered, Untouched
<1>7. ims'.step = "open" /\ ims'.nonce = ims.nonce /\ ims'.call = ims.call /\ ims'.count = 1
      /\ ims'.sequence = ims.sequence + 1 /\ ims'.keys = ims.keys
  BY <1>1, <1>6, SessionIsAhead DEF ImsSessions
<1>8. \A s \in seen' : s.nonce <= issued
  BY <1>1, <1>4, SessionIsAhead
<1>9. \A s \in seen' : s.call = ims.call => s.sequence <= ims.sequence + 1
  BY <1>1, <1>4, SessionIsAhead
<1>10. \A s \in seen' : s.nonce = ims.nonce => s.count <= 1
  BY <1>1, <1>4, <1>6, SessionIsAhead
<1>11. ims.keys = ims.nonce /\ kernel = {[call |-> ims.call, key |-> ims.nonce]}
  BY <1>1, <1>6 DEF RegistrationInv, DigestsFit, Live
<1>12. ims.nonce # 0 /\ ims.nonce <= issued
  BY <1>1, <1>6, SessionIsAhead
<1>13. \A s \in seen' : s.nonce = ims'.nonce /\ ims'.nonce # 0 =>
                          ims'.step = "open" /\ s.count <= ims'.count
  BY <1>7, <1>10
<1>14. QED
  BY <1>5, <1>6, <1>7, <1>8, <1>9, <1>11, <1>12, <1>13 DEF DigestsFit

LEMMA RefreshAnsweredKeepsDigests == RegistrationInv /\ RefreshAnswered => DigestsFit'
<1> SUFFICES ASSUME RegistrationInv, RefreshAnswered PROVE DigestsFit'
  OBVIOUS
<1>1. Live
  BY DEF RefreshAnswered, RegistrationInv, PlacesFit, RegisteredFits, Live, At
<1>2. Arrives(ims.sequence + 1, ims.nonce, ims.count + 1) /\ ims.sequence + 1 \in Nat /\ ims.nonce \in Nat /\ ims.count + 1 \in Nat
  BY <1>1, SessionIsAhead DEF RefreshAnswered
<1>3. ImsTypeOK /\ CallsAreBounded /\ ims \in ImsSessions
  BY <1>1, SessionIsAhead DEF RegistrationInv
<1>4. PICK new : /\ seen' = seen \cup {new} /\ new \in Registers /\ new.call = ims.call
                 /\ new.sequence = ims.sequence + 1 /\ new.nonce = ims.nonce
                 /\ new.count = ims.count + 1
  BY <1>2, <1>3, Arrived
<1>5. DigestsAreFresh'
  BY <1>1, <1>4, SessionIsAhead, FreshArrival DEF RegistrationInv, DigestsFit
<1>6. ims' = [ims EXCEPT !.sequence = ims.sequence + 1, !.count = ims.count + 1]
      /\ UNCHANGED <<issued, kernel>> /\ worker' = [worker EXCEPT !.waits = "no"]
  BY DEF RefreshAnswered
<1>7. ims'.step = ims.step /\ ims'.nonce = ims.nonce /\ ims'.call = ims.call
      /\ ims'.count = ims.count + 1 /\ ims'.sequence = ims.sequence + 1 /\ ims'.keys = ims.keys
  BY <1>1, <1>6, SessionIsAhead DEF ImsSessions
<1>8. ims.step = "open" /\ ims.keys = ims.nonce
      /\ kernel = {[call |-> ims.call, key |-> ims.nonce]}
  BY <1>1 DEF RegistrationInv, PlacesFit, RegisteredFits, DigestsFit, RefreshAnswered, Live, At
<1>9. \A s \in seen' : s.nonce <= issued
  BY <1>1, <1>4, SessionIsAhead
<1>10. \A s \in seen' : s.call = ims.call => s.sequence <= ims.sequence + 1
  BY <1>1, <1>4, SessionIsAhead
<1>11. \A s \in seen' : s.nonce = ims.nonce => s.count <= ims.count + 1
  BY <1>1, <1>4, <1>8, SessionIsAhead
<1>12. QED
  BY <1>1, <1>5, <1>6, <1>7, <1>8, <1>9, <1>10, <1>11, SessionIsAhead DEF DigestsFit

LEMMA RefreshFailsKeepsDigests == RegistrationInv /\ RefreshFails => DigestsFit'
<1> SUFFICES ASSUME RegistrationInv, RefreshFails PROVE DigestsFit'
  OBVIOUS
<1>1. Live /\ ims.step = "open"
  BY DEF RefreshFails, RegistrationInv, PlacesFit, RegisteredFits, Live, At
<1>2. UNCHANGED <<ims, issued, kernel>> /\ worker'.at = "close"
  BY DEF RefreshFails, Ends, RegistrationInv, ImsTypeOK, Workers
<1>3. CASE seen' = seen
  BY <1>2, <1>3 DEF RegistrationInv, DigestsFit, DigestsAreFresh, Live
<1>4. ims.sequence + 1 \in Nat /\ ims.nonce \in Nat /\ ims.count + 1 \in Nat
  BY <1>1, SessionIsAhead
<1>5. CASE Arrives(ims.sequence + 1, ims.nonce, ims.count + 1)
  <2>1. ImsTypeOK /\ CallsAreBounded /\ ims \in ImsSessions
    BY <1>1, SessionIsAhead DEF RegistrationInv
  <2>2. PICK new : /\ seen' = seen \cup {new} /\ new \in Registers /\ new.call = ims.call
                   /\ new.sequence = ims.sequence + 1 /\ new.nonce = ims.nonce
                   /\ new.count = ims.count + 1
    BY <1>4, <1>5, <2>1, Arrived
  <2>3. DigestsAreFresh'
    BY <1>1, <2>2, SessionIsAhead, FreshArrival DEF RegistrationInv, DigestsFit
  <2>4. \A s \in seen' : s.nonce <= issued
    BY <1>1, <2>2, SessionIsAhead
  <2>5. QED
    BY <1>2, <2>3, <2>4 DEF RegistrationInv, DigestsFit, Live
<1>6. QED
  BY <1>3, <1>5 DEF RefreshFails

LEMMA EstablishmentFailsKeepsDigests == RegistrationInv /\ EstablishmentFails => DigestsFit'
<1> SUFFICES ASSUME RegistrationInv, EstablishmentFails PROVE DigestsFit'
  OBVIOUS
<1>1. Live /\ ims.step # "open"
  BY DEF EstablishmentFails, Establishing, Live, At
<1>2. ims' = NoSession /\ UNCHANGED issued
  BY DEF EstablishmentFails, Gives
<1>3. CASE seen' = seen
  BY <1>2, <1>3 DEF RegistrationInv, DigestsFit, DigestsAreFresh, Live
<1>4. CASE RequestOfStep /\ seen' # seen
  <2>1. \/ Arrives(ims.sequence, 0, 0) /\ ims.step = "initial"
        \/ Arrives(ims.sequence + 1, ims.nonce, 1)
    BY <1>4 DEF RequestOfStep
  <2>2. PICK sequence \in Nat, nonce \in Nat, count \in Nat :
          /\ Arrives(sequence, nonce, count)
          /\ \/ sequence = ims.sequence /\ nonce = 0 /\ ims.step = "initial"
             \/ sequence = ims.sequence + 1 /\ nonce = ims.nonce
    <3>1. ims.sequence \in Nat /\ ims.sequence + 1 \in Nat /\ ims.nonce \in Nat
      BY <1>1, SessionIsAhead
    <3>2. QED
      BY <2>1, <3>1
  <2>3. PICK new : /\ seen' = seen \cup {new} /\ new \in Registers /\ new.call = ims.call
                   /\ new.sequence = sequence /\ new.nonce = nonce
                   /\ new.count = count
    BY <1>1, <2>2, SessionIsAhead, Arrived DEF RegistrationInv
  <2>4. DigestsAreFresh'
    BY <1>1, <2>2, <2>3, SessionIsAhead, FreshArrival DEF RegistrationInv, DigestsFit
  <2>5. \A s \in seen' : s.nonce <= issued
    BY <1>1, <2>2, <2>3, SessionIsAhead
  <2>6. QED
    BY <1>2, <2>4, <2>5 DEF DigestsFit, Live
<1>5. QED
  BY <1>3, <1>4 DEF EstablishmentFails

LEMMA ResynchronisesKeepsDigests == RegistrationInv /\ Resynchronises => DigestsFit'
<1> SUFFICES ASSUME RegistrationInv, Resynchronises PROVE DigestsFit'
  OBVIOUS
<1>1. Live
  BY DEF Resynchronises, Establishing, Live, At
<1>2. Arrives(ims.sequence + 1, ims.nonce, 1) /\ ims.sequence + 1 \in Nat /\ ims.nonce \in Nat /\ 1 \in Nat
  BY <1>1, SessionIsAhead DEF Resynchronises
<1>3. ImsTypeOK /\ CallsAreBounded /\ ims \in ImsSessions
  BY <1>1, SessionIsAhead DEF RegistrationInv
<1>4. PICK new : /\ seen' = seen \cup {new} /\ new \in Registers /\ new.call = ims.call
                 /\ new.sequence = ims.sequence + 1 /\ new.nonce = ims.nonce
                 /\ new.count = 1
  BY <1>2, <1>3, Arrived
<1>5. DigestsAreFresh'
  BY <1>1, <1>4, SessionIsAhead, FreshArrival DEF Resynchronises, RegistrationInv, DigestsFit
<1>6. PICK other \in {ims.nonce, issued + 1} :
        /\ issued' = IF other = ims.nonce THEN issued ELSE other
        /\ IF Refreshed(other)
             THEN /\ ims' = [ims EXCEPT !.sequence = @ + 1, !.nonce = other, !.tries = @ + 1]
                  /\ UNCHANGED <<worker, kernel>>
             ELSE Gives
  BY DEF Resynchronises
<1>7. \A s \in seen' : s.nonce <= issued /\ s.nonce \in Nat
  BY <1>1, <1>4, SessionIsAhead
<1>8. CASE Refreshed(other)
  <2>1. other = issued + 1 /\ issued' = issued + 1
    BY <1>1, <1>6, <1>8, SessionIsAhead DEF Refreshed
  <2>2. ims' = [ims EXCEPT !.sequence = ims.sequence + 1, !.nonce = other,
                           !.tries = ims.tries + 1]
    BY <1>6, <1>8
  <2>3. ims.step = "challenged" /\ UNCHANGED worker
    BY <1>6, <1>8 DEF Resynchronises
  <2>4. ims'.step = "challenged" /\ ims'.nonce = issued + 1 /\ ims'.call = ims.call
        /\ ims'.sequence = ims.sequence + 1
    BY <1>1, <2>1, <2>2, <2>3, SessionIsAhead DEF ImsSessions
  <2>5. \A s \in seen' : s.call = ims.call => s.sequence <= ims.sequence + 1
    BY <1>1, <1>4, SessionIsAhead
  <2>6. QED
    BY <1>1, <1>5, <1>7, <2>1, <2>3, <2>4, <2>5, SessionIsAhead DEF DigestsFit, Live
<1>9. CASE ~Refreshed(other)
  <2>1. ims' = NoSession /\ issued' = issued
    BY <1>6, <1>9 DEF Gives, Refreshed
  <2>2. QED
    BY <1>5, <1>7, <2>1 DEF DigestsFit, Live
<1>10. QED
  BY <1>8, <1>9

LEMMA RegDigests == RegistrationInv /\ [ImsNext]_imsVars => DigestsFit'
<1> SUFFICES ASSUME RegistrationInv, [ImsNext]_imsVars PROVE DigestsFit'
  OBVIOUS
<1> USE DEF RegistrationInv, ImsTypeOK, Workers, ImsSessions, PlacesFit, RegisteredFits, DigestsFit,
       DigestsAreFresh, Away, Live, At
<1>1. ASSUME Prepare PROVE DigestsFit'
  BY <1>1 DEF Prepare, outside, counters
<1>2. ASSUME StartStrongSwan PROVE DigestsFit'
  BY <1>2 DEF StartStrongSwan, Moves, outside, counters
<1>3. ASSUME Initiate PROVE DigestsFit'
  BY <1>3 DEF Initiate, Moves, outside, counters
<1>4. ASSUME Discover PROVE DigestsFit'
  BY <1>4 DEF Discover, outside, counters
<1>5. ASSUME StepFails PROVE DigestsFit'
  BY <1>5 DEF StepFails, ImsFault, Ends, outside, counters
<1>6. ASSUME OpenSession PROVE DigestsFit'
  <2>1. NextCall \in Nat /\ \A s \in seen : s.call < NextCall /\ s.call \in Nat /\ s.nonce \in Nat
    BY NextCallIsNew DEF Calls, Registers
  <2>2. ims' = [call |-> NextCall, step |-> "initial", sequence |-> 1, nonce |-> 0,
                count |-> 0, keys |-> 0, tries |-> 0, retried |-> FALSE]
        /\ UNCHANGED <<seen, issued>>
    BY <1>6 DEF OpenSession, outside
  <2>3. \A s \in seen : s.call # ims'.call
    BY <2>1, <2>2
  <2>4. QED
    BY <2>2, <2>3
<1>7. ASSUME Challenged PROVE DigestsFit'
  BY <1>7, ChallengedKeepsDigests
<1>8. ASSUME IntervalTooBrief PROVE DigestsFit'
  BY <1>8, IntervalTooBriefKeepsDigests
<1>9. ASSUME Authenticates PROVE DigestsFit'
  BY <1>9 DEF Authenticates, Establishing, Untouched, counters
<1>10. ASSUME Resynchronises PROVE DigestsFit'
  BY <1>10, ResynchronisesKeepsDigests
<1>11. ASSUME InstallXfrm PROVE DigestsFit'
  BY <1>11 DEF InstallXfrm, Establishing, Associations, Untouched, counters
<1>12. ASSUME Registered PROVE DigestsFit'
  BY <1>12, RegisteredKeepsDigests
<1>13. ASSUME GoOnline PROVE DigestsFit'
  BY <1>13 DEF GoOnline, Establishing, Moves, outside, counters
<1>14. ASSUME EstablishmentFails PROVE DigestsFit'
  BY <1>14, EstablishmentFailsKeepsDigests
<1>15. ASSUME AgentChanged PROVE DigestsFit'
  BY <1>15 DEF AgentChanged, Establishing, Gives, Untouched, Removed, Ends, counters
<1>16. ASSUME \E what \in {"poll", "keepalive", "refresh"} : CallSession(what) PROVE DigestsFit'
  BY <1>16 DEF CallSession, Idle, outside, counters
<1>17. ASSUME WaitTooLong PROVE DigestsFit'
  BY <1>17 DEF WaitTooLong, outside, counters
<1>18. ASSUME Keepalive PROVE DigestsFit'
  BY <1>18 DEF Keepalive, Called, Ends, outside, counters
<1>19. ASSUME RefreshAnswered PROVE DigestsFit'
  BY <1>19, RefreshAnsweredKeepsDigests
<1>20. ASSUME RefreshFails PROVE DigestsFit'
  BY <1>20, RefreshFailsKeepsDigests
<1>21. ASSUME OnlineFails PROVE DigestsFit'
  BY <1>21 DEF OnlineFails, Idle, Establishing, ImsFault, Ends, outside, counters
<1>22. ASSUME SubmissionStarts PROVE DigestsFit'
  BY <1>22 DEF SubmissionStarts, outside
<1>23. ASSUME SubmissionEnds PROVE DigestsFit'
  BY <1>23 DEF SubmissionEnds, outside, counters
<1>24. ASSUME StopServer PROVE DigestsFit'
  BY <1>24 DEF StopServer, outside, counters
<1>25. ASSUME CloseSession PROVE DigestsFit'
  BY <1>25 DEF CloseSession, CanClose, Removed, counters
<1>26. ASSUME TerminateStrongSwan PROVE DigestsFit'
  BY <1>26 DEF TerminateStrongSwan, Moves, outside, counters
<1>27. ASSUME AttemptEnds PROVE DigestsFit'
  BY <1>27 DEF AttemptEnds, Moves, outside, counters
<1>28. ASSUME NextAttempt PROVE DigestsFit'
  BY <1>28 DEF NextAttempt, Moves, outside
<1>29. ASSUME StopWorker PROVE DigestsFit'
  BY <1>29 DEF StopWorker, ImsFault, outside, counters
<1>30. ASSUME TimePasses PROVE DigestsFit'
  BY <1>30 DEF TimePasses, counters
<1>31. ASSUME AgentRestarts PROVE DigestsFit'
  BY <1>31 DEF AgentRestarts, ImsFault, counters
<1>32. ASSUME UNCHANGED imsVars PROVE DigestsFit'
  BY <1>32 DEF imsVars
<1>33. ASSUME Polled PROVE DigestsFit'
  BY <1>33 DEF Polled, Called, Idle, Ends, outside, counters
<1>34. ASSUME RefreshBegins PROVE DigestsFit'
  BY <1>34 DEF RefreshBegins, Called, Idle, Ends, outside, counters
<1>35. ASSUME RefreshTooLate PROVE DigestsFit'
  BY <1>35 DEF RefreshTooLate, Called, Idle, Ends, outside, counters
<1>36. ASSUME LoopStops PROVE DigestsFit'
  BY <1>36 DEF LoopStops, Called, Idle, Ends, outside, counters
<1>37. QED
  BY <1>1, <1>2, <1>3, <1>4, <1>5, <1>6, <1>7, <1>8, <1>9, <1>10, <1>11, <1>12, <1>13, <1>14,
     <1>15, <1>16, <1>17, <1>18, <1>19, <1>20, <1>21, <1>22, <1>23, <1>24, <1>25, <1>26, <1>27,
     <1>28, <1>29, <1>30, <1>31, <1>32, <1>33, <1>34, <1>35, <1>36 DEF ImsNext

LEMMA RegistrationInvInit == ImsInit => RegistrationInv
<1> SUFFICES ASSUME ImsInit PROVE RegistrationInv
  OBVIOUS
<1>1. ImsTypeOK
  <2>1. worker \in Workers /\ binding \in Bindings
    BY ImsAssumption DEF ImsAssumption, ImsInit, Workers, Places, NoBinding, Bindings
  <2>2. IsFiniteSet(seen) /\ issued \in 0 .. MaxNonces
    BY FS_EmptySet, ImsAssumption DEF ImsInit, ImsAssumption
  <2>3. QED
    BY <2>1, <2>2 DEF ImsInit, ImsTypeOK
<1>2. CallsAreBounded
  BY DEF ImsInit, CallsAreBounded, Calls, NoBinding
<1>3. PlacesFit /\ RegisteredFits
  BY DEF ImsInit, PlacesFit, RegisteredFits, Away, Live, At
<1>4. DigestsFit
  BY DEF ImsInit, DigestsFit, DigestsAreFresh, Live
<1>5. QED
  BY <1>1, <1>2, <1>3, <1>4 DEF RegistrationInv

LEMMA RegistrationInvSafe == RegistrationInv => RegistrationIsSafe
<1> SUFFICES ASSUME RegistrationInv PROVE RegistrationIsSafe
  OBVIOUS
<1>1. mutex \in {"free", "submission", "loop"} /\ binding \in Bindings
  BY DEF RegistrationInv, ImsTypeOK
<1>2. ProtectedByOwnKeys
  BY DEF RegistrationInv, PlacesFit, RegisteredFits, DigestsFit, ProtectedByOwnKeys,
         At, Live
<1> DEFINE lapse == binding.life = 0 => binding.waited >= Lead - ExchangeLimit
<1>5. ASSUME TimeFits PROVE lapse
  <2>1. /\ binding.waited \in Nat /\ binding.took \in Nat
        /\ Lead \in Nat /\ ExchangeLimit \in Nat
    BY <1>1, ImsAssumption DEF Bindings, ImsAssumption
  <2>2. QED
    BY <1>5, <2>1 DEF TimeFits
<1> HIDE DEF lapse
<1>6. At("online") => lapse
  BY <1>5 DEF RegistrationInv, RegisteredFits, At, Live
<1>7. OnlineIsRegistered
  BY <1>6 DEF lapse, RegistrationInv, RegisteredFits, OnlineIsRegistered, At, Live
<1>3. NothingOutlives
  BY <1>1 DEF RegistrationInv, PlacesFit, NothingOutlives, At, Away
<1>4. QED
  BY <1>2, <1>3, <1>7 DEF RegistrationInv, DigestsFit, RegistrationIsSafe

(* A challenge is answered once per count and no CSeq is used twice; what   *)
(* goes out is protected by the session's own keys; what is reported online *)
(* has an open session and its own registration, which lapses only if SMS   *)
(* requests kept the loop waiting, after the refresh was due, for at least  *)
(* the lead less an exchange; nothing of an attempt is left when the next   *)
(* one begins (RunWorker, run, EstablishIMSSession, Refresh, PollSMS).      *)
THEOREM RegistrationHolds == ImsSpec => []RegistrationIsSafe
<1>1. RegistrationInv /\ [ImsNext]_imsVars => RegistrationInv'
  <2> SUFFICES ASSUME RegistrationInv, [ImsNext]_imsVars PROVE RegistrationInv'
    OBVIOUS
  <2>1. ImsTypeOK' /\ CallsAreBounded'
    BY RegTypes, RegBounded
  <2>2. PlacesFit' /\ RegisteredFits' /\ DigestsFit'
    BY RegPlaces, RegRegistered, RegDigests
  <2>3. QED
    BY <2>1, <2>2 DEF RegistrationInv
<1>2. QED
  BY RegistrationInvInit, RegistrationInvSafe, <1>1, PTL DEF ImsSpec
=============================================================================
