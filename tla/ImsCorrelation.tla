--------------------------- MODULE ImsCorrelation ---------------------------
(***************************************************************************)
(* How an IMS session tells which segment a report of the network is       *)
(* about: RP references that wrap around, are reserved while their segment *)
(* is pending and retired for the report wait afterwards, and the          *)
(* In-Reply-To header, which a gateway may or may not support.  What a     *)
(* report says and what becomes of it is OutboundSms.                      *)
(*                                                                         *)
(* Every step runs under IMSSession.mu, which SubmitSMS keeps from its     *)
(* first segment to its last.  The network is external: it may report on a *)
(* segment, also twice, until MaxDelay after it was sent.                  *)
(***************************************************************************)
EXTENDS Naturals

CONSTANTS
  ReferenceSpace,  \* 256 in the code
  ReportWait,      \* defaultIMSSubmitReportWait
  MaxDelay,        \* how late a report of the network may come
  MaxSegments,     \* bound: segments of a submission
  MaxSubmissions,  \* bound: submissions
  MaxSessions,     \* bound: sessions the worker establishes
  MaxTime          \* bound: the clock

ASSUME CorrelationAssumption ==
  /\ ReferenceSpace \in Nat \ {0}
  /\ MaxDelay \in Nat /\ ReportWait \in Nat /\ MaxDelay < ReportWait
  /\ MaxSegments \in Nat /\ MaxSubmissions \in Nat
  /\ MaxSessions \in Nat \ {0} /\ MaxTime \in Nat

VARIABLES
  now,
  session,       \* the number of the IMSSession
  reference,     \* rpReference
  segments,      \* submitSegments, by reference
  retired,       \* retiredRPReferences: until when
  operations,    \* submitOperations, by number
  submitting,    \* the submission that holds the mutex, 0 if none
  sent,          \* segments the network may report on (external)
  credited,      \* reports that were counted, and for which segment
  gateway,       \* what the IP-SM-GW makes of In-Reply-To (external)
  mode           \* smsInReplyToMode

correlationVars == <<now, session, reference, segments, retired, operations,
                     submitting, sent, credited, gateway, mode>>

References == 0 .. ReferenceSpace - 1
Gateways == {"requires", "ignores", "rejects"}
NoEntries == [r \in {} |-> 0]

Domains == /\ DOMAIN segments \subseteq References
           /\ DOMAIN retired \subseteq References
           /\ DOMAIN operations \subseteq 1 .. MaxSubmissions

CorrelationTypeOK ==
  /\ now \in 0 .. MaxTime /\ session \in 1 .. MaxSessions
  /\ reference \in References /\ Domains
  /\ submitting \in {0} \cup DOMAIN operations
  /\ \A r \in DOMAIN segments : segments[r].segment.operation \in DOMAIN operations
  /\ gateway \in Gateways /\ mode \in {"unknown", "supported", "unsupported"}

CorrelationInit ==
  /\ now = 0 /\ session = 1 /\ reference = 0
  /\ segments = NoEntries /\ retired = NoEntries /\ operations = NoEntries
  /\ submitting = 0 /\ sent = {} /\ credited = {}
  /\ gateway \in Gateways /\ mode = "unknown"

-----------------------------------------------------------------------------
(* References.                                                             *)

Free(r) == /\ r \notin DOMAIN segments
           /\ r \in DOMAIN retired => retired[r] <= now

Following(k) == (reference + k) % ReferenceSpace
AvailableFrom == {k \in References : Free(Following(k))}
NextReference ==
  Following(CHOOSE k \in AvailableFrom : \A j \in AvailableFrom : k <= j)

Without(f, keys) == [x \in DOMAIN f \ keys |-> f[x]]
With(f, x, value) == [y \in DOMAIN f \cup {x} |-> IF y = x THEN value ELSE f[y]]

ReferencesOf(ids) == {r \in DOMAIN segments : segments[r].segment.operation \in ids}

(* cleanupSubmitOperationLocked.                                           *)
MutantCleanup(ids) ==
  /\ operations' = Without(operations, ids)
  /\ segments' = Without(segments, ReferencesOf(ids))
  /\ retired' = retired
Cleanup(ids) ==
  /\ operations' = Without(operations, ids)
  /\ segments' = Without(segments, ReferencesOf(ids))
  /\ retired' = [r \in DOMAIN retired \cup ReferencesOf(ids) |->
                   IF r \in ReferencesOf(ids) THEN now + ReportWait ELSE retired[r]]

-----------------------------------------------------------------------------
(* SubmitSMS.                                                              *)

Overdue == {o \in DOMAIN operations : /\ operations[o].deadline # 0
                                      /\ operations[o].deadline <= now}

(* Expired operations are cleaned up before a submission, in polls and     *)
(* when reports are listed.                                                *)
ExpireReports ==
  /\ submitting = 0 /\ Overdue # {}
  /\ Cleanup(Overdue)
  /\ UNCHANGED <<now, session, reference, submitting, sent, credited, gateway, mode>>

Begun == {s.segment.operation : s \in sent} \cup DOMAIN operations

BeginSubmission(total) ==
  /\ submitting = 0 /\ Overdue = {}
  /\ \E o \in 1 .. MaxSubmissions :
       /\ Begun = 1 .. o - 1
       /\ submitting' = o
       /\ operations' = With(operations, o,
            [total |-> total, count |-> 0, answered |-> 0, reported |-> 0, deadline |-> 0])
  /\ UNCHANGED <<now, session, reference, segments, retired, sent, credited, gateway, mode>>

Current == operations[submitting]
Sending == submitting # 0 /\ Current.count = Current.answered
Waiting == submitting # 0 /\ Current.count # Current.answered

SendSegment ==
  /\ Sending /\ AvailableFrom # {}
  /\ LET segment == [session |-> session, operation |-> submitting,
                     index |-> Current.count + 1]
     IN /\ segments' = With(segments, NextReference,
                            [segment |-> segment, reported |-> FALSE])
        /\ sent' = sent \cup {[segment |-> segment, reference |-> NextReference, at |-> now]}
  /\ retired' = Without(retired, {NextReference})
  /\ reference' = (NextReference + 1) % ReferenceSpace
  /\ operations' = [operations EXCEPT ![submitting].count = @ + 1]
  /\ UNCHANGED <<now, session, submitting, credited, gateway, mode>>

(* The submission ends: no reference is free, or its segment was refused   *)
(* or not answered.                                                        *)
SubmissionFails ==
  /\ Waiting \/ (Sending /\ AvailableFrom = {})
  /\ Cleanup({submitting})
  /\ submitting' = 0
  /\ UNCHANGED <<now, session, reference, sent, credited, gateway, mode>>

Complete(o, op) == op.deadline # 0 /\ op.reported >= op.total

SegmentAnswered ==
  /\ Waiting
  /\ LET last == Current.count = Current.total
         op == [Current EXCEPT !.answered = @ + 1,
                  !.deadline = IF last THEN now + ReportWait ELSE 0]
     IN /\ IF Complete(submitting, op) THEN Cleanup({submitting})
             ELSE /\ operations' = [operations EXCEPT ![submitting] = op]
                  /\ UNCHANGED <<segments, retired>>
        /\ submitting' = IF last THEN 0 ELSE submitting
  /\ UNCHANGED <<now, session, reference, sent, credited, gateway, mode>>

-----------------------------------------------------------------------------
(* Reports.                                                                *)

(* submitReportCorrelation: the header decides if it is there.             *)
Matches(s, named) ==
  /\ s.reference \in DOMAIN segments
  /\ named => segments[s.reference].segment = s.segment

Named == gateway = "requires"

(* handleIncomingRequestLocked and recordSubmitReportLocked, in a poll or  *)
(* while an exchange waits for its answer.  A report without a match is    *)
(* answered with 488.                                                      *)
ReportComes(s) ==
  /\ submitting # 0 => Waiting
  /\ now <= s.at + MaxDelay
  /\ Matches(s, Named)
  /\ mode' = IF Named THEN "supported" ELSE "unsupported"
  /\ LET entry == segments[s.reference]
         o == entry.segment.operation
         op == [operations[o] EXCEPT !.reported = @ + 1]
     IN IF entry.reported
          THEN UNCHANGED <<segments, retired, operations, credited>>
          ELSE /\ credited' = credited \cup {[of |-> s.segment, to |-> entry.segment]}
               /\ IF Complete(o, op) THEN Cleanup({o})
                    ELSE /\ operations' = [operations EXCEPT ![o] = op]
                         /\ segments' = [segments EXCEPT ![s.reference].reported = TRUE]
                         /\ UNCHANGED retired
  /\ UNCHANGED <<now, session, reference, submitting, sent, gateway>>

-----------------------------------------------------------------------------
(* AcknowledgeSMS: RP-ACKs of delivered messages.                          *)

(* The status the gateway gives an RP-ACK with or without the header.      *)
Accepts(correlated) == IF correlated THEN gateway # "rejects" ELSE gateway # "requires"

AcknowledgeDelivery ==
  /\ submitting = 0
  /\ LET correlated == mode # "unsupported"
     IN mode' = CASE Accepts(correlated) -> IF correlated THEN "supported" ELSE "unsupported"
                  [] ~Accepts(correlated) /\ mode = "unknown" /\ Accepts(FALSE) ->
                       "unsupported"
                  [] OTHER -> mode
  /\ mode' # mode
  /\ UNCHANGED <<now, session, reference, segments, retired, operations, submitting,
                 sent, credited, gateway>>

-----------------------------------------------------------------------------
(* Time, and a new session of the worker with nothing left of the old one. *)

Tick ==
  /\ now < MaxTime /\ now' = now + 1
  /\ UNCHANGED <<session, reference, segments, retired, operations, submitting, sent,
                 credited, gateway, mode>>

NewSession ==
  /\ session < MaxSessions /\ session' = session + 1
  /\ submitting = 0
  /\ reference' = 0 /\ mode' = "unknown"
  /\ segments' = NoEntries /\ retired' = NoEntries /\ operations' = NoEntries
  /\ UNCHANGED <<now, submitting, sent, credited, gateway>>

CorrelationNext ==
  \/ ExpireReports
  \/ \E total \in 1 .. MaxSegments : BeginSubmission(total)
  \/ SendSegment
  \/ SubmissionFails
  \/ SegmentAnswered
  \/ \E s \in sent : ReportComes(s)
  \/ AcknowledgeDelivery
  \/ Tick
  \/ NewSession

CorrelationSpec == CorrelationInit /\ [][CorrelationNext]_correlationVars

-----------------------------------------------------------------------------
(* A report is counted for the segment it is about; only a gateway without *)
(* In-Reply-To can have one of an earlier session counted for a segment of *)
(* this one (comment at sms_session.go:706).                               *)
ReportsFindTheirSegment ==
  \A c \in credited :
    \/ c.of = c.to
    \/ gateway # "requires" /\ c.of.session # c.to.session

(* The mode the session settles on is one the gateway accepts, whichever   *)
(* direction taught it.                                                    *)
ModeSuitsGateway ==
  /\ mode = "supported" => gateway # "rejects"
  /\ mode = "unsupported" => gateway # "requires"

(* A report of the network is counted for the segment it is about, though  *)
(* references wrap around, and both directions agree on what the gateway   *)
(* makes of In-Reply-To (submitReportCorrelation).                         *)
ReportsAreCorrelated ==
  CorrelationTypeOK /\ ReportsFindTheirSegment /\ ModeSuitsGateway
=============================================================================
