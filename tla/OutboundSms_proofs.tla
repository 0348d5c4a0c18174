-------------------------- MODULE OutboundSms_proofs --------------------------
(* Theorems of OutboundSms, for every value of its constants.              *)
EXTENDS OutboundSms, TLAPS

(* What a worker writes down came from the network, about that message.    *)
EvidenceIsGenuine ==
  \A r \in Requests :
    /\ acked[r] \subseteq Segments(r)
    /\ acked[r] \cap refused[r] = {}
    /\ heard[r] \subseteq acked[r] \cup refused[r]

(* "sent", wherever it is on its way to the row, stands on a full set of   *)
(* RP-ACKs.                                                                *)
SentIsJustified ==
  \A r \in Requests :
    \/ result[r] = "sent"
    \/ reports[r] = "sent"
    \/ listed[r] = "sent"
    \/ rows[r].status = "sent"
    => acked[r] = Segments(r)

(* Where a Send call and a pass are tells what they have at hand.          *)
CallsAreConsistent ==
  /\ \A r \in Requests : pc[r] = "result" => result[r] # "none"
  /\ sync = "ack" => current \in Requests

(* The inductive invariant behind SentMeansAcknowledged.                   *)
SentInv == TypeOK /\ CallsAreConsistent /\ EvidenceIsGenuine /\ SentIsJustified

-----------------------------------------------------------------------------
(* The statements of the store keep a row a row; only MarkSent writes      *)
(* "sent".                                                                 *)
RowType == [status : Statuses, provider : Requests \cup {NoProvider}, code : Codes]

LEMMA StoreTypes ==
  ASSUME NEW row \in RowType, NEW p \in Requests \cup {NoProvider}, NEW c \in Codes
  PROVE  /\ MarkSent(row, p) \in RowType
         /\ MarkFailed(row, p, c) \in RowType
         /\ MarkUnconfirmed(row, p, c) \in RowType
         /\ MarkInterrupted(row) \in RowType
<1>1. MarkSent(row, p) \in RowType
  BY DEF RowType, MarkSent, Row, KeepOrSet, Statuses, Stored, Codes
<1>2. MarkFailed(row, p, c) \in RowType
  BY DEF RowType, MarkFailed, Row, KeepOrSet, Statuses, Stored, Codes
<1>3. MarkUnconfirmed(row, p, c) \in RowType
  BY DEF RowType, MarkUnconfirmed, Row, KeepOrSet, Statuses, Stored, Codes
<1>4. MarkInterrupted(row) \in RowType
  BY DEF RowType, MarkInterrupted, Row, KeepOrSet, Statuses, Stored, Codes
<1>5. QED
  BY <1>1, <1>2, <1>3, <1>4

LEMMA OnlyMarkSentSends ==
  ASSUME NEW row \in RowType, NEW p \in Requests \cup {NoProvider}, NEW c \in Codes
  PROVE  /\ MarkFailed(row, p, c).status = "sent" => row.status = "sent"
         /\ MarkUnconfirmed(row, p, c).status = "sent" => row.status = "sent"
         /\ MarkInterrupted(row).status = "sent" => row.status = "sent"
BY DEF RowType, MarkFailed, MarkUnconfirmed, MarkInterrupted, Row, KeepOrSet,
       Statuses, Stored, Codes

LEMMA RowAfterType ==
  ASSUME NEW row \in RowType, NEW r \in Requests,
         NEW outcome \in Outcomes \ {"none"}
  PROVE  /\ RowAfter(row, r, outcome) \in RowType
         /\ RowAfter(row, r, outcome).status = "sent" =>
              outcome = "sent" \/ row.status = "sent"
<1>1. {"IMS_SMS_ACCEPTED_AWAITING_REPORT", "SMS_SEND_OUTCOME_UNKNOWN",
       "IMS_SMS_PARTIAL_OR_REJECTED", "IMS_SMS_REJECTED",
       "IMS_SMS_UNAVAILABLE"} \subseteq Codes
  BY DEF Codes
<1>2. QED
  BY <1>1, StoreTypes, OnlyMarkSentSends DEF RowAfter, Outcomes

LEMMA RowAfterReportType ==
  ASSUME NEW row \in RowType, NEW r \in Requests,
         NEW report \in Reports \ {"none"}
  PROVE  /\ RowAfterReport(row, r, report) \in RowType
         /\ RowAfterReport(row, r, report).status = "sent" =>
              report = "sent" \/ row.status = "sent"
<1>1. {"SMS_SEND_OUTCOME_UNKNOWN", "IMS_SMS_PARTIAL_OR_REJECTED",
       "IMS_SMS_REJECTED"} \subseteq Codes
  BY DEF Codes
<1>2. QED
  BY <1>1, StoreTypes, OnlyMarkSentSends DEF RowAfterReport, Reports

-----------------------------------------------------------------------------
LEMMA FixedRows ==
  /\ AbsentRow \in RowType /\ AbsentRow.status = "absent"
  /\ QueuedRow \in RowType /\ QueuedRow.status = "queued"
  /\ DeletedRow \in RowType /\ DeletedRow.status = "deleted"
BY DEF AbsentRow, QueuedRow, DeletedRow, Row, RowType, Statuses, Stored, Codes

LEMMA SentInvInit == Init => SentInv
<1> SUFFICES ASSUME Init PROVE SentInv
  OBVIOUS
<1> USE DEF Init, NothingListed
<1>1. TypeOK
  <2>1. rows \in [Requests -> RowType]
    BY FixedRows
  <2>2. QED
    BY <2>1, ConstantsAssumption DEF TypeOK, RowType, Steps, Outcomes, Stages, Reports
<1>2. CallsAreConsistent /\ EvidenceIsGenuine
  BY DEF CallsAreConsistent, EvidenceIsGenuine
<1>3. SentIsJustified
  BY FixedRows DEF SentIsJustified
<1>4. QED
  BY <1>1, <1>2, <1>3 DEF SentInv

(* One lemma for each group of actions: the Send calls, the worker, the    *)
(* network, the pass, the restarts.                                        *)
USE DEF sendVars, workerVars, networkVars, syncVars

LEMMA FaultType ==
  ASSUME TypeOK, Fault
  PROVE  faults' \in 0 .. MaxFaults
BY ConstantsAssumption DEF TypeOK, Fault

LEMMA SendStep ==
  ASSUME SentInv, NEW r \in Requests,
         \/ SendCreates(r) \/ SendReplays(r) \/ Dispatch(r)
         \/ CancelBeforeDispatch(r) \/ LoseAnswer(r) \/ Finish(r)
         \/ FinishUnsaved(r) \/ DeleteMessage(r)
  PROVE  SentInv'
<1> USE DEF SentInv
<1>1. CASE SendCreates(r)
  BY <1>1, FixedRows
  DEF SendCreates, TypeOK, RowType, Steps, CallsAreConsistent,
      EvidenceIsGenuine, SentIsJustified
<1>2. CASE SendReplays(r) \/ Dispatch(r)
  <2>1. TypeOK'
    BY <1>2 DEF SendReplays, Dispatch, TypeOK, Steps, Stages
  <2>2. CallsAreConsistent'
    BY <1>2 DEF SendReplays, Dispatch, TypeOK, CallsAreConsistent
  <2>3. EvidenceIsGenuine' /\ SentIsJustified'
    BY <1>2 DEF SendReplays, Dispatch, EvidenceIsGenuine, SentIsJustified
  <2>4. QED
    BY <2>1, <2>2, <2>3
<1>3. CASE CancelBeforeDispatch(r) /\ Unsaved(r)
  BY <1>3, FaultType
  DEF CancelBeforeDispatch, Unsaved, TypeOK, Steps, CallsAreConsistent,
      EvidenceIsGenuine, SentIsJustified
<1>9. CASE CancelBeforeDispatch(r) /\ ~Unsaved(r)
  <2>1. /\ rows'[r] \in RowType
        /\ rows'[r].status = "sent" => rows[r].status = "sent"
    <3>1. "SEND_CANCELLED_BEFORE_DISPATCH" \in Codes
      BY DEF Codes
    <3>2. rows[r] \in RowType /\ r \in DOMAIN rows
      BY DEF TypeOK, RowType
    <3>3. rows'[r] = MarkFailed(rows[r], NoProvider, "SEND_CANCELLED_BEFORE_DISPATCH")
      BY <1>9, <3>2 DEF CancelBeforeDispatch, Unsaved
    <3>4. MarkFailed(rows[r], NoProvider, "SEND_CANCELLED_BEFORE_DISPATCH") \in RowType
      BY <3>1, <3>2, StoreTypes
    <3>5. QED
      BY <3>1, <3>2, <3>3, <3>4, OnlyMarkSentSends
  <2>2. QED
    BY <1>9, <2>1 DEF CancelBeforeDispatch, Unsaved, TypeOK, RowType, Steps,
                      CallsAreConsistent, EvidenceIsGenuine, SentIsJustified
<1>4. CASE LoseAnswer(r)
  BY <1>4, FaultType
  DEF LoseAnswer, TypeOK, Steps, Outcomes, CallsAreConsistent,
      EvidenceIsGenuine, SentIsJustified
<1>6. CASE FinishUnsaved(r)
  BY <1>6, FaultType
  DEF FinishUnsaved, Unsaved, TypeOK, Steps, CallsAreConsistent,
      EvidenceIsGenuine, SentIsJustified
<1>5. CASE Finish(r)
  <2>1. /\ rows'[r] \in RowType
        /\ rows'[r].status = "sent" => result[r] = "sent" \/ rows[r].status = "sent"
    BY <1>5, RowAfterType DEF Finish, TypeOK, RowType, CallsAreConsistent
  <2>2. QED
    BY <1>5, <2>1 DEF Finish, TypeOK, RowType, Steps,
                      CallsAreConsistent, EvidenceIsGenuine, SentIsJustified
<1>7. CASE DeleteMessage(r)
  BY <1>7, FixedRows
  DEF DeleteMessage, TypeOK, RowType, CallsAreConsistent,
      EvidenceIsGenuine, SentIsJustified
<1>8. QED
  BY <1>1, <1>2, <1>3, <1>4, <1>5, <1>6, <1>7, <1>9

(* The report an operation leaves is "sent" only if no segment it heard of *)
(* was refused and it heard of all of them.                                *)
LEMMA CompletedStateSound ==
  ASSUME TypeOK, EvidenceIsGenuine, NEW r \in Requests
  PROVE  /\ CompletedState(r, Segments(r)) \in Reports \ {"none"}
         /\ CompletedState(r, Segments(r)) \in Outcomes \ {"none"}
         /\ CompletedState(r, Segments(r)) = "sent" /\ Segments(r) \subseteq acked[r] \cup refused[r]
              => acked[r] = Segments(r)
BY DEF CompletedState, EvidenceIsGenuine, Reports, Outcomes

LEMMA AnswerType ==
  ASSUME SentInv, NEW r \in Requests, NEW outcome \in Outcomes \ {"none"},
         Answer(r, outcome)
  PROVE  /\ pc' \in [Requests -> Steps]
         /\ result' \in [Requests -> Outcomes]
         /\ \A q \in Requests : pc'[q] = "result" => result'[q] # "none"
         /\ \A q \in Requests :
              result'[q] = result[q] \/ (q = r /\ result'[q] = outcome)
BY DEF Answer, SentInv, TypeOK, CallsAreConsistent, Steps, Outcomes

LEMMA WorkerStep ==
  ASSUME SentInv, NEW r \in Requests,
         \/ RefuseCommand(r) \/ BeginSubmit(r) \/ SubmitStep(r) \/ Expire(r)
         \/ \E s \in Segments(r) : ReportArrives(r, s)
  PROVE  SentInv'
<1> USE DEF SentInv
<1>1. CASE RefuseCommand(r)
  BY <1>1, AnswerType
  DEF RefuseCommand, TypeOK, Stages, Outcomes, CallsAreConsistent,
      EvidenceIsGenuine, SentIsJustified
<1>2. CASE BeginSubmit(r)
  BY <1>2 DEF BeginSubmit, TypeOK, Stages, CallsAreConsistent,
              EvidenceIsGenuine, SentIsJustified
<1>3. CASE SubmitSegment(r)
  BY <1>3 DEF SubmitSegment, TypeOK, CallsAreConsistent,
              EvidenceIsGenuine, SentIsJustified
<1>4. CASE SegmentAccepted(r)
  <2>1. accepted' \in [Requests -> Nat]
    BY <1>4 DEF SegmentAccepted, TypeOK
  <2>2. CASE UNCHANGED << stage, reports, sendVars >>
    BY <1>4, <2>1, <2>2
    DEF SegmentAccepted, TypeOK, CallsAreConsistent, EvidenceIsGenuine, SentIsJustified
  <2>3. CASE /\ heard[r] = Segments(r)
             /\ stage' = [stage EXCEPT ![r] = "closed"]
             /\ reports' = [reports EXCEPT ![r] = CompletedState(r, heard[r])]
             /\ Answer(r, CompletedState(r, heard[r]))
    BY <1>4, <2>1, <2>3, CompletedStateSound, AnswerType
    DEF SegmentAccepted, TypeOK, Stages, CallsAreConsistent, EvidenceIsGenuine, SentIsJustified
  <2>4. CASE /\ stage' = [stage EXCEPT ![r] = "open"]
             /\ Answer(r, "accepted")
             /\ UNCHANGED reports
    BY <1>4, <2>1, <2>4, AnswerType
    DEF SegmentAccepted, TypeOK, Stages, Outcomes, CallsAreConsistent, EvidenceIsGenuine, SentIsJustified
  <2>5. QED
    BY <1>4, <2>2, <2>3, <2>4 DEF SegmentAccepted
<1>5. CASE SegmentRefused(r)
  BY <1>5, AnswerType
  DEF SegmentRefused, TypeOK, Stages, Outcomes, CallsAreConsistent,
      EvidenceIsGenuine, SentIsJustified
<1>6. CASE SegmentUnanswered(r)
  BY <1>6, AnswerType
  DEF SegmentUnanswered, TypeOK, Stages, Outcomes, CallsAreConsistent,
      EvidenceIsGenuine, SentIsJustified
<1>7. CASE SegmentUnbuildable(r)
  BY <1>7, AnswerType
  DEF SegmentUnbuildable, TypeOK, Stages, Outcomes, CallsAreConsistent,
      EvidenceIsGenuine, SentIsJustified
<1>8. CASE Expire(r)
  BY <1>8 DEF Expire, TypeOK, Stages, Reports, CallsAreConsistent,
              EvidenceIsGenuine, SentIsJustified
<1>9. ASSUME NEW s \in Segments(r), ReportArrives(r, s)
      PROVE  SentInv'
  <2>1. /\ heard' \in [Requests -> SUBSET Nat]
        /\ heard'[r] \subseteq acked[r] \cup refused[r]
        /\ \A q \in Requests : q # r => heard'[q] = heard[q]
    BY <1>9 DEF ReportArrives, TypeOK, EvidenceIsGenuine, Segments
  <2>2. EvidenceIsGenuine'
    BY <1>9, <2>1 DEF ReportArrives, EvidenceIsGenuine
  <2>3. CASE UNCHANGED << stage, reports >>
    BY <1>9, <2>1, <2>2, <2>3
    DEF ReportArrives, TypeOK, CallsAreConsistent, SentIsJustified
  <2>4. CASE /\ heard'[r] = Segments(r)
             /\ stage' = [stage EXCEPT ![r] = "closed"]
             /\ reports' = [reports EXCEPT ![r] = CompletedState(r, heard'[r])]
    BY <1>9, <2>1, <2>2, <2>4, CompletedStateSound
    DEF ReportArrives, TypeOK, Stages, CallsAreConsistent, SentIsJustified
  <2>5. QED
    BY <1>9, <2>3, <2>4 DEF ReportArrives
<1>10. QED
  BY <1>1, <1>2, <1>3, <1>4, <1>5, <1>6, <1>7, <1>8, <1>9 DEF SubmitStep

(* The network adds to acked and refused, and answers a segment once.      *)
LEMMA NetworkStep ==
  ASSUME SentInv, NEW r \in Requests, NEW s \in Segments(r),
         NetworkAcks(r, s) \/ NetworkRefuses(r, s)
  PROVE  SentInv'
<1> USE DEF SentInv
<1>1. s \in Nat
  BY DEF Segments
<1>2. CASE NetworkAcks(r, s)
  <2>1. /\ acked' \in [Requests -> SUBSET Nat]
        /\ EvidenceIsGenuine'
        /\ \A q \in Requests : acked[q] = Segments(q) => acked'[q] = Segments(q)
    BY <1>1, <1>2 DEF NetworkAcks, TypeOK, EvidenceIsGenuine
  <2>2. QED
    BY <1>2, <2>1 DEF NetworkAcks, TypeOK, CallsAreConsistent, SentIsJustified
<1>3. CASE NetworkRefuses(r, s)
  <2>1. refused' \in [Requests -> SUBSET Nat] /\ EvidenceIsGenuine'
    BY <1>1, <1>3 DEF NetworkRefuses, TypeOK, EvidenceIsGenuine
  <2>2. QED
    BY <1>3, <2>1 DEF NetworkRefuses, TypeOK, CallsAreConsistent, SentIsJustified
<1>4. QED
  BY <1>2, <1>3

(* Leaving a pass resets its variables and says nothing about messages.    *)
LEMMA EndSyncType ==
  ASSUME EndSync
  PROVE  /\ sync' = "idle"
         /\ listed' \in [Requests -> Reports]
         /\ \A r \in Requests : listed'[r] # "sent"
         /\ current' = NoRequest
         /\ gate' = NoRequest
BY DEF EndSync, NothingListed, Reports

LEMMA PassStep ==
  ASSUME SentInv,
         \/ SyncStart \/ SyncList \/ SyncAck \/ SyncAckLost \/ SyncFails
         \/ SyncInbox \/ SyncEnd
         \/ \E r \in Requests : SyncApply(r)
  PROVE  SentInv'
<1> USE DEF SentInv
<1>1. CASE SyncStart \/ SyncList \/ SyncInbox
  BY <1>1 DEF SyncStart, SyncList, SyncInbox, TypeOK, CallsAreConsistent,
              EvidenceIsGenuine, SentIsJustified
<1>2. CASE SyncEnd
  BY <1>2, EndSyncType
  DEF SyncEnd, TypeOK, CallsAreConsistent, EvidenceIsGenuine, SentIsJustified
<1>3. CASE SyncFails
  BY <1>3, EndSyncType, FaultType
  DEF SyncFails, TypeOK, CallsAreConsistent, EvidenceIsGenuine, SentIsJustified
<1>4. CASE SyncAck
  <2>1. /\ current \in Requests
        /\ \/ /\ reports' = [reports EXCEPT ![current] = "none"]
              /\ reportAcked' = reportAcked \cup {current}
              /\ listed' = [listed EXCEPT ![current] = "none"]
              /\ current' = NoRequest
              /\ sync' = "apply"
              /\ UNCHANGED gate
           \/ EndSync /\ UNCHANGED << reports, reportAcked >>
    BY <1>4 DEF SyncAck, CallsAreConsistent
  <2>2. UNCHANGED << rows, sendVars, stage, accepted, submitted, heard,
                     networkVars, faults >>
    BY <1>4 DEF SyncAck
  <2>3. /\ reports' \in [Requests -> Reports] /\ listed' \in [Requests -> Reports]
        /\ \A r \in Requests : /\ reports'[r] = "sent" => reports[r] = "sent"
                               /\ listed'[r] = "sent" => listed[r] = "sent"
    BY <2>1, EndSyncType DEF TypeOK, Reports
  <2>4. TypeOK'
    BY <2>1, <2>2, <2>3, EndSyncType DEF TypeOK
  <2>5. CallsAreConsistent'
    BY <2>1, <2>2, EndSyncType DEF CallsAreConsistent
  <2>6. EvidenceIsGenuine'
    BY <2>2 DEF EvidenceIsGenuine
  <2>7. SentIsJustified'
    <3>1. rows' = rows /\ result' = result /\ acked' = acked
      BY <2>2
    <3>2. \A r \in Requests : Segments(r)' = Segments(r)
      BY DEF Segments
    <3>3. QED
      BY <2>3, <3>1, <3>2 DEF SentIsJustified
  <2>8. QED
    BY <2>4, <2>5, <2>6, <2>7
<1>5. CASE SyncAckLost
  <2>1. /\ current \in Requests
        /\ reports' \in [Requests -> Reports]
        /\ reportAcked' \in SUBSET Requests
        /\ \A r \in Requests : reports'[r] = "sent" => reports[r] = "sent"
    BY <1>5 DEF SyncAckLost, CallsAreConsistent, TypeOK, Reports
  <2>2. QED
    BY <1>5, <2>1, EndSyncType, FaultType
    DEF SyncAckLost, TypeOK, CallsAreConsistent, EvidenceIsGenuine, SentIsJustified
<1>6. ASSUME NEW r \in Requests, SyncApply(r)
      PROVE  SentInv'
  <2>1. /\ rows' \in [Requests -> RowType]
        /\ \A q \in Requests : rows'[q].status = "sent" =>
              rows[q].status = "sent" \/ listed[q] = "sent"
    <3>1. /\ RowAfterReport(rows[r], r, listed[r]) \in RowType
          /\ RowAfterReport(rows[r], r, listed[r]).status = "sent" =>
               listed[r] = "sent" \/ rows[r].status = "sent"
      BY <1>6, RowAfterReportType DEF SyncApply, TypeOK, RowType
    <3>2. QED
      BY <1>6, <3>1 DEF SyncApply, TypeOK, RowType
  <2>2. \/ sync' = "ack" /\ current' = r /\ UNCHANGED << gate, listed >>
        \/ EndSync
    BY <1>6 DEF SyncApply
  <2>3. QED
    BY <1>6, <2>1, <2>2, EndSyncType
    DEF SyncApply, TypeOK, RowType, CallsAreConsistent, EvidenceIsGenuine, SentIsJustified
<1>7. QED
  BY <1>1, <1>2, <1>3, <1>4, <1>5, <1>6

LEMMA RestartStep ==
  ASSUME SentInv, DaemonRestarts \/ WorkerRestarts
  PROVE  SentInv'
<1> USE DEF SentInv
<1>1. CASE DaemonRestarts
  <2>1. /\ rows' \in [Requests -> RowType]
        /\ \A r \in Requests : rows'[r].status = "sent" => rows[r].status = "sent"
    BY <1>1, StoreTypes, OnlyMarkSentSends DEF DaemonRestarts, TypeOK, RowType
  <2>2. /\ pc' \in [Requests -> Steps]
        /\ \A r \in Requests : pc'[r] # "result"
    BY <1>1 DEF DaemonRestarts, Steps
  <2>3. QED
    BY <1>1, <2>1, <2>2, EndSyncType, FaultType
    DEF DaemonRestarts, TypeOK, RowType, CallsAreConsistent, EvidenceIsGenuine, SentIsJustified
<1>2. CASE WorkerRestarts
  <2>1. /\ pc' \in [Requests -> Steps]
        /\ result' \in [Requests -> Outcomes]
        /\ stage' \in [Requests -> Stages]
        /\ reports' \in [Requests -> Reports]
    BY <1>2 DEF WorkerRestarts, TypeOK, Steps, Outcomes, Stages, Reports
  <2>2. /\ CallsAreConsistent'
        /\ SentIsJustified'
    BY <1>2 DEF WorkerRestarts, TypeOK, CallsAreConsistent, SentIsJustified
  <2>3. QED
    BY <1>2, <2>1, <2>2, FaultType DEF WorkerRestarts, TypeOK, EvidenceIsGenuine
<1>3. QED
  BY <1>1, <1>2

LEMMA SentInvNext == SentInv /\ [Next]_vars => SentInv'
<1> SUFFICES ASSUME SentInv, [Next]_vars PROVE SentInv'
  OBVIOUS
<1>1. CASE UNCHANGED vars
  BY <1>1 DEF vars, SentInv, TypeOK, CallsAreConsistent, EvidenceIsGenuine, SentIsJustified
<1>2. CASE Next
  BY <1>2, SendStep, WorkerStep, NetworkStep, PassStep, RestartStep DEF Next
<1>3. QED
  BY <1>1, <1>2

-----------------------------------------------------------------------------
(* Every variable keeps its type, whatever the constants.                  *)
THEOREM TypeCorrect == Spec => []TypeOK
<1>1. SentInv => TypeOK
  BY DEF SentInv
<1>2. QED
  BY <1>1, SentInvInit, SentInvNext, PTL DEF Spec

(* A message shows "sent" only when the network acknowledged every segment *)
(* of it: through SubmitSMS's direct answer, through a report consumed by  *)
(* any later pass, across lost answers, restarts and deletes.              *)
THEOREM SentNeedsAcknowledgement == Spec => []SentMeansAcknowledged
<1>1. SentInv => SentMeansAcknowledged
  BY DEF SentInv, SentIsJustified, SentMeansAcknowledged
<1>2. QED
  BY <1>1, SentInvInit, SentInvNext, PTL DEF Spec

-----------------------------------------------------------------------------
(* Second invariant: how the command, the row and the reports of a request *)
(* follow the Send call that made them.                                    *)
SubmissionsFollowCalls ==
  \A r \in Requests :
    /\ pc[r] = "idle" => rows[r].status = "absent" /\ stage[r] = "none"
    /\ pc[r] = "gate" => rows[r].status \in {"queued", "deleted"} /\ stage[r] = "none"
    /\ stage[r] = "none" => submitted[r] = 0
    /\ reports[r] # "none" \/ listed[r] # "none" => stage[r] = "closed"
    /\ rows[r].status = "sent" => rows[r].code = ""

(* No statement moves a row out of a verdict, and none creates a row.      *)
LEMMA StoreKeepsVerdicts ==
  ASSUME NEW row \in RowType, row.status = "sent" => row.code = "",
         row.status \in {"sent", "failed", "absent", "deleted"},
         NEW p \in Requests \cup {NoProvider}, NEW c \in Codes
  PROVE  /\ MarkSent(row, p) = row
         /\ MarkFailed(row, p, c) = row
         /\ MarkUnconfirmed(row, p, c) = row
         /\ MarkInterrupted(row) = row
BY DEF RowType, MarkSent, MarkFailed, MarkUnconfirmed, MarkInterrupted, Row,
       KeepOrSet, SentAllowed, FailedAllowed, UnconfirmedAllowed, Compatible

(* What a statement makes of a row that has no verdict yet.                *)
LEMMA StoreSettles ==
  ASSUME NEW row \in RowType, row.status \in {"queued", "unconfirmed"},
         NEW p \in Requests \cup {NoProvider}, NEW c \in Codes
  PROVE  /\ \/ MarkSent(row, p) = row
            \/ MarkSent(row, p).status = "sent" /\ MarkSent(row, p).code = ""
         /\ \/ MarkFailed(row, p, c) = row
            \/ MarkFailed(row, p, c).status = "failed"
         /\ \/ MarkUnconfirmed(row, p, c) = row
            \/ MarkUnconfirmed(row, p, c).status = "unconfirmed"
         /\ \/ MarkInterrupted(row) = row
            \/ MarkInterrupted(row).status = "unconfirmed"
BY DEF RowType, MarkSent, MarkFailed, MarkUnconfirmed, MarkInterrupted, Row

LEMMA PathCodes ==
  {"SEND_CANCELLED_BEFORE_DISPATCH", "IMS_SMS_ACCEPTED_AWAITING_REPORT",
   "SMS_SEND_OUTCOME_UNKNOWN", "IMS_SMS_PARTIAL_OR_REJECTED",
   "IMS_SMS_REJECTED", "IMS_SMS_UNAVAILABLE"} \subseteq Codes
BY DEF Codes

(* One row update of a step: nothing, the creation or deletion of a row, a *)
(* statement on a live row without a verdict, or the restart's sweep.      *)
RowStep(r) ==
  \/ rows'[r] = rows[r]
  \/ rows[r].status = "absent" /\ pc[r] = "idle" /\ rows'[r] = QueuedRow
  \/ Exists(rows[r]) /\ rows'[r] = DeletedRow
  \/ /\ rows[r].status \in {"queued", "unconfirmed"}
     /\ rows'[r].status \in {"unconfirmed", "sent", "failed"}
     /\ rows'[r].status = "sent" => rows'[r].code = ""

LEMMA MarkIsRowStep ==
  ASSUME TypeOK, SubmissionsFollowCalls, NEW r \in Requests,
         NEW p \in Requests \cup {NoProvider}, NEW c \in Codes,
         \/ rows'[r] = MarkSent(rows[r], p)
         \/ rows'[r] = MarkFailed(rows[r], p, c)
         \/ rows'[r] = MarkUnconfirmed(rows[r], p, c)
         \/ rows'[r] = MarkInterrupted(rows[r])
  PROVE  RowStep(r)
<1>1. rows[r] \in RowType /\ (rows[r].status = "sent" => rows[r].code = "")
  BY DEF TypeOK, RowType, SubmissionsFollowCalls
<1>2. CASE rows[r].status \in {"sent", "failed", "absent", "deleted"}
  BY <1>1, <1>2, StoreKeepsVerdicts DEF RowStep
<1>3. CASE rows[r].status \in {"queued", "unconfirmed"}
  <2>1. \/ rows'[r] = rows[r]
        \/ /\ rows'[r].status \in {"unconfirmed", "sent", "failed"}
           /\ rows'[r].status = "sent" => rows'[r].code = ""
    <3>1. /\ \/ MarkSent(rows[r], p) = rows[r]
             \/ MarkSent(rows[r], p).status = "sent" /\ MarkSent(rows[r], p).code = ""
          /\ \/ MarkFailed(rows[r], p, c) = rows[r]
             \/ MarkFailed(rows[r], p, c).status = "failed"
          /\ \/ MarkUnconfirmed(rows[r], p, c) = rows[r]
             \/ MarkUnconfirmed(rows[r], p, c).status = "unconfirmed"
          /\ \/ MarkInterrupted(rows[r]) = rows[r]
             \/ MarkInterrupted(rows[r]).status = "unconfirmed"
      BY <1>1, <1>3, StoreSettles
    <3>2. QED
      BY <3>1
  <2>2. QED
    BY <1>3, <2>1 DEF RowStep
<1>4. QED
  BY <1>1, <1>2, <1>3 DEF RowType, Statuses, Stored

LEMMA RowAfterIsRowStep ==
  ASSUME SentInv, SubmissionsFollowCalls, NEW r \in Requests
  PROVE  /\ pc[r] = "result" /\ rows'[r] = RowAfter(rows[r], r, result[r]) => RowStep(r)
         /\ listed[r] # "none" /\ rows'[r] = RowAfterReport(rows[r], r, listed[r]) => RowStep(r)
<1>1. result[r] \in Outcomes /\ listed[r] \in Reports
      /\ (pc[r] = "result" => result[r] # "none")
  BY DEF SentInv, TypeOK, CallsAreConsistent
<1>2. ASSUME pc[r] = "result", rows'[r] = RowAfter(rows[r], r, result[r])
      PROVE  RowStep(r)
  BY <1>1, <1>2, PathCodes, MarkIsRowStep DEF RowAfter, Outcomes, SentInv
<1>3. ASSUME listed[r] # "none", rows'[r] = RowAfterReport(rows[r], r, listed[r])
      PROVE  RowStep(r)
  BY <1>1, <1>3, PathCodes, MarkIsRowStep DEF RowAfterReport, Reports, SentInv
<1>4. QED
  BY <1>2, <1>3

(* Every step is a row step for every row.                                 *)
LEMMA NextIsRowStep ==
  ASSUME SentInv, SubmissionsFollowCalls, [Next]_vars, NEW q \in Requests
  PROVE  RowStep(q)
<1> USE DEF SentInv
<1>1. CASE UNCHANGED rows
  BY <1>1 DEF RowStep
<1>2. ASSUME NEW r \in Requests, SendCreates(r)
      PROVE  RowStep(q)
  BY <1>2 DEF SendCreates, RowStep, TypeOK, SubmissionsFollowCalls
<1>3. ASSUME NEW r \in Requests, CancelBeforeDispatch(r)
      PROVE  RowStep(q)
  <2>1. q # r => rows'[q] = rows[q]
    BY <1>3 DEF CancelBeforeDispatch, Unsaved, TypeOK
  <2>2. q = r => \/ rows'[q] = rows[q]
                 \/ rows'[q] = MarkFailed(rows[q], NoProvider, "SEND_CANCELLED_BEFORE_DISPATCH")
    BY <1>3 DEF CancelBeforeDispatch, Unsaved, TypeOK
  <2>3. QED
    BY <2>1, <2>2, PathCodes, MarkIsRowStep DEF RowStep
<1>4. ASSUME NEW r \in Requests, Finish(r)
      PROVE  RowStep(q)
  <2>1. q # r => rows'[q] = rows[q]
    BY <1>4 DEF Finish, TypeOK
  <2>2. q = r => pc[q] = "result" /\ rows'[q] = RowAfter(rows[q], q, result[q])
    BY <1>4 DEF Finish, TypeOK
  <2>3. QED
    BY <2>1, <2>2, RowAfterIsRowStep DEF RowStep
<1>5. ASSUME NEW r \in Requests, DeleteMessage(r)
      PROVE  RowStep(q)
  BY <1>5 DEF DeleteMessage, RowStep, TypeOK
<1>6. ASSUME NEW r \in Requests, SyncApply(r)
      PROVE  RowStep(q)
  <2>1. q # r => rows'[q] = rows[q]
    BY <1>6 DEF SyncApply, TypeOK
  <2>2. q = r => listed[q] # "none" /\ rows'[q] = RowAfterReport(rows[q], q, listed[q])
    BY <1>6 DEF SyncApply, TypeOK
  <2>3. QED
    BY <2>1, <2>2, RowAfterIsRowStep DEF RowStep
<1>7. CASE DaemonRestarts
  <2>1. rows'[q] = MarkInterrupted(rows[q])
    BY <1>7 DEF DaemonRestarts
  <2>2. QED
    BY <2>1, PathCodes, MarkIsRowStep
<1>8. QED
  BY <1>1, <1>2, <1>3, <1>4, <1>5, <1>6, <1>7
  DEF Next, vars, SubmitStep, SendReplays, Dispatch, LoseAnswer, FinishUnsaved, Unsaved,
      RefuseCommand, BeginSubmit, SubmitSegment, SegmentAccepted,
      SegmentRefused, SegmentUnanswered, SegmentUnbuildable, Expire,
      ReportArrives, NetworkAcks, NetworkRefuses, SyncStart, SyncList, SyncAck,
      SyncAckLost, SyncFails, SyncInbox, SyncEnd, WorkerRestarts

LEMMA FollowInit == Init => SubmissionsFollowCalls
<1> SUFFICES ASSUME Init, NEW r \in Requests
             PROVE  /\ rows[r] = AbsentRow /\ stage[r] = "none" /\ pc[r] = "idle"
                    /\ submitted[r] = 0
                    /\ reports[r] = "none" /\ listed[r] = "none"
  BY FixedRows DEF SubmissionsFollowCalls
<1>1. QED
  BY DEF Init, NothingListed

LEMMA FollowNext ==
  SentInv /\ SubmissionsFollowCalls /\ [Next]_vars => SubmissionsFollowCalls'
<1> SUFFICES ASSUME SentInv, SubmissionsFollowCalls, [Next]_vars,
                    NEW q \in Requests
             PROVE  /\ pc'[q] = "idle" => rows'[q].status = "absent" /\ stage'[q] = "none"
                    /\ pc'[q] = "gate" => rows'[q].status \in {"queued", "deleted"} /\ stage'[q] = "none"
                    /\ stage'[q] = "none" => submitted'[q] = 0
                    /\ reports'[q] # "none" \/ listed'[q] # "none" => stage'[q] = "closed"
                    /\ rows'[q].status = "sent" => rows'[q].code = ""
  BY DEF SubmissionsFollowCalls
<1> USE DEF SentInv
<1>1. rows'[q].status = "sent" => rows'[q].code = ""
  BY ZenonT(60), NextIsRowStep, FixedRows DEF RowStep, SubmissionsFollowCalls
<1>F. /\ pc[q] = "idle" => rows[q].status = "absent" /\ stage[q] = "none"
      /\ pc[q] = "gate" => rows[q].status \in {"queued", "deleted"} /\ stage[q] = "none"
      /\ stage[q] = "none" => submitted[q] = 0
      /\ reports[q] # "none" \/ listed[q] # "none" => stage[q] = "closed"
  BY DEF SubmissionsFollowCalls
<1> DEFINE Rest ==
       /\ pc'[q] = "idle" => rows'[q].status = "absent" /\ stage'[q] = "none"
       /\ pc'[q] = "gate" => rows'[q].status \in {"queued", "deleted"} /\ stage'[q] = "none"
       /\ stage'[q] = "none" => submitted'[q] = 0
       /\ reports'[q] # "none" \/ listed'[q] # "none" => stage'[q] = "closed"
<1> USE DEF TypeOK, sendVars, workerVars, networkVars, syncVars
<1>2. ASSUME UNCHANGED vars PROVE Rest
  BY <1>2, <1>F DEF vars
<1>3. ASSUME NEW r \in Requests, SendCreates(r) \/ DeleteMessage(r)
      PROVE  Rest
  BY <1>F, <1>3, FixedRows
  DEF SendCreates, DeleteMessage, Exists, Stored
<1>a. ASSUME NEW r \in Requests,
             SendReplays(r) \/ Dispatch(r) \/ LoseAnswer(r) \/ FinishUnsaved(r)
      PROVE  Rest
  BY <1>F, <1>a DEF SendReplays, Dispatch, LoseAnswer, FinishUnsaved, Unsaved
<1>4. ASSUME NEW r \in Requests, CancelBeforeDispatch(r) \/ Finish(r)
      PROVE  Rest
  BY <1>F, <1>4 DEF CancelBeforeDispatch, Unsaved, Finish
<1>5. ASSUME NEW r \in Requests,
             \/ RefuseCommand(r) \/ SegmentRefused(r)
             \/ SegmentUnanswered(r) \/ SegmentUnbuildable(r)
      PROVE  Rest
  BY <1>F, <1>5
  DEF RefuseCommand, SegmentRefused, SegmentUnanswered, SegmentUnbuildable,
      Answer
<1>6. ASSUME NEW r \in Requests,
             BeginSubmit(r) \/ SubmitSegment(r) \/ Expire(r)
      PROVE  Rest
  BY <1>F, <1>6 DEF BeginSubmit, SubmitSegment, Expire
<1>7. ASSUME NEW r \in Requests, SegmentAccepted(r)
      PROVE  Rest
  BY <1>F, <1>7 DEF SegmentAccepted, Answer
<1>8. ASSUME NEW r \in Requests, NEW s \in Segments(r),
             ReportArrives(r, s) \/ NetworkAcks(r, s) \/ NetworkRefuses(r, s)
      PROVE  Rest
  BY <1>F, <1>8 DEF ReportArrives, NetworkAcks, NetworkRefuses
<1>9. ASSUME NEW r \in Requests, SyncApply(r)
      PROVE  Rest
  <2>1. pc[q] \in {"idle", "gate"} => rows'[q] = rows[q]
    BY <1>F, <1>9 DEF SyncApply
  <2>2. listed' = listed \/ listed'[q] = "none"
    BY <1>F, <1>9 DEF SyncApply, EndSync, NothingListed
  <2>3. QED
    BY <1>F, <1>9, <2>1, <2>2 DEF SyncApply
<1>10. ASSUME SyncStart \/ SyncList \/ SyncInbox PROVE Rest
  BY <1>F, <1>10 DEF SyncStart, SyncList, SyncInbox
<1>11. ASSUME SyncFails \/ SyncEnd \/ SyncAckLost PROVE Rest
  <2>1. /\ listed'[q] = "none"
        /\ UNCHANGED << rows, pc, stage, submitted >>
        /\ reports'[q] \in {reports[q], "none"}
    BY <1>11 DEF SyncFails, SyncEnd, SyncAckLost, EndSync, NothingListed
  <2>2. QED
    BY <1>F, <2>1
<1>12. ASSUME SyncAck PROVE Rest
  BY <1>F, <1>12 DEF SyncAck, EndSync, NothingListed
<1>13. ASSUME DaemonRestarts PROVE Rest
  <2>1. pc'[q] = "idle" => pc[q] = "idle" /\ rows'[q].status = "absent"
    BY <1>F, <1>13, NextIsRowStep DEF DaemonRestarts, RowStep, MarkInterrupted
  <2>2. QED
    BY <1>F, <1>13, <2>1 DEF DaemonRestarts, EndSync, NothingListed
<1>14. ASSUME WorkerRestarts PROVE Rest
  BY <1>F, <1>14 DEF WorkerRestarts
<1>15. Rest
  BY <1>2, <1>3, <1>a, <1>4, <1>5, <1>6, <1>7, <1>8, <1>9, <1>10, <1>11, <1>12,
     <1>13, <1>14
  DEF Next, SubmitStep
<1>16. QED
  BY <1>1, <1>15

FullInv == SentInv /\ SubmissionsFollowCalls

LEMMA FullInvariant == Spec => []FullInv
<1>1. Init => FullInv
  BY SentInvInit, FollowInit DEF FullInv
<1>2. FullInv /\ [Next]_vars => FullInv'
  BY SentInvNext, FollowNext DEF FullInv
<1>3. QED
  BY <1>1, <1>2, PTL DEF Spec

(* A settled message never changes its verdict: whichever report, restart, *)
(* late answer or replay comes, "sent" and "failed" end only by a DELETE.  *)
THEOREM VerdictsAreFinal == Spec => VerdictIsFinal
<1>1. ASSUME FullInv, [Next]_vars, NEW r \in Requests,
             rows[r].status \in {"sent", "failed"}
      PROVE  rows'[r] = rows[r] \/ rows'[r].status = "deleted"
  BY <1>1, NextIsRowStep, FixedRows DEF FullInv, RowStep
<1>2. FullInv /\ [Next]_vars =>
        [\A r \in Requests :
           rows[r].status \in {"sent", "failed"} =>
             rows'[r] = rows[r] \/ rows'[r].status = "deleted"]_rows
  BY <1>1
<1>3. QED
  BY <1>2, FullInvariant, PTL DEF Spec, VerdictIsFinal

-----------------------------------------------------------------------------
(* The refinement: Outcome's variables as functions of this module's.      *)
StatusMap    == [r \in Requests |-> rows[r].status]
SubmittedMap == {r \in Requests : stage[r] # "none"}
ConfirmedMap == {r \in Requests : acked[r] = Segments(r)}

(* A step that changes one status, and nothing else the promise speaks of, *)
(* is a step of the promise, or none.                                      *)
LEMMA RowStepMaps ==
  ASSUME FullInv, FullInv', NEW r \in Requests, RowStep(r),
         \A q \in Requests \ {r} : rows'[q] = rows[q],
         rows[r].status = "absent" => ~OperationStored(r) \/ rows'[r] = rows[r],
         UNCHANGED << stage, acked >>
  PROVE  Outcome!Next \/ UNCHANGED Outcome!vars
<1>1. UNCHANGED << SubmittedMap, ConfirmedMap >>
  BY DEF SubmittedMap, ConfirmedMap
<1>2. StatusMap' = [StatusMap EXCEPT ![r] = rows'[r].status]
  BY DEF StatusMap
<1>3. CASE rows'[r] = rows[r]
  <2>1. StatusMap' = StatusMap
    BY <1>3 DEF StatusMap
  <2>2. QED
    BY <1>1, <2>1 DEF Outcome!vars, StatusMap, SubmittedMap, ConfirmedMap
<1>4. CASE rows[r].status = "absent" /\ rows'[r] = QueuedRow
  <2>1. rows'[r] # rows[r]
    BY <1>4, FixedRows
  <2>2. \A other \in Requests :
          OperationOf[other] = OperationOf[r] => rows[other].status \notin Outcome!Live
    BY <1>4, <2>1 DEF OperationStored, Exists, Stored, Outcome!Live
  <2>3. Outcome!Create(r)
    BY <1>1, <1>2, <1>4, <2>2, FixedRows
    DEF Outcome!Create, StatusMap, SubmittedMap, ConfirmedMap
  <2>4. QED
    BY <2>3 DEF Outcome!Next
<1>5. CASE Exists(rows[r]) /\ rows'[r] = DeletedRow
  <2>1. Outcome!Delete(r)
    BY <1>1, <1>2, <1>5, FixedRows
    DEF Outcome!Delete, Outcome!Live, Exists, Stored, StatusMap, SubmittedMap, ConfirmedMap
  <2>2. QED
    BY <2>1 DEF Outcome!Next
<1>6. CASE /\ rows[r].status \in {"queued", "unconfirmed"}
           /\ rows'[r].status \in {"unconfirmed", "sent", "failed"}
  <2>1. PICK verdict \in {"sent", "failed", "unconfirmed"} : verdict = rows'[r].status
    BY <1>6
  <2>2. verdict = "sent" => r \in ConfirmedMap
    BY <2>1 DEF FullInv, SentInv, SentIsJustified, ConfirmedMap, Segments
  <2>3. StatusMap[r] \in {"queued", "unconfirmed"}
    BY <1>6 DEF StatusMap
  <2>4. Outcome!Settle(r, verdict)
    BY <1>1, <1>2, <2>1, <2>2, <2>3
    DEF Outcome!Settle, StatusMap, SubmittedMap, ConfirmedMap
  <2>5. \E v \in {"sent", "failed", "unconfirmed"} : Outcome!Settle(r, v)
    BY <2>4
  <2>6. QED
    BY <2>5, Zenon DEF Outcome!Next
<1>7. QED
  BY <1>3, <1>4, <1>5, <1>6 DEF RowStep

LEMMA OutcomeInit == Init => Outcome!Init
<1> SUFFICES ASSUME Init PROVE Outcome!Init
  OBVIOUS
<1>1. StatusMap = [r \in Requests |-> "absent"]
  BY FixedRows DEF Init, StatusMap
<1>2. SubmittedMap = {}
  BY DEF Init, SubmittedMap
<1>3. \A r \in Requests : 1 \in Segments(r)
  BY ConstantsAssumption DEF Segments
<1>4. ConfirmedMap = {}
  BY <1>3 DEF Init, ConfirmedMap
<1>5. QED
  BY <1>1, <1>2, <1>4 DEF Outcome!Init, StatusMap, SubmittedMap, ConfirmedMap

LEMMA OutcomeNext == FullInv /\ FullInv' /\ [Next]_vars => [Outcome!Next]_(Outcome!vars)
<1> SUFFICES ASSUME FullInv, FullInv', [Next]_vars
             PROVE  Outcome!Next \/ UNCHANGED Outcome!vars
  OBVIOUS
<1>R. \A r \in Requests : RowStep(r)
  BY NextIsRowStep DEF FullInv
<1>D. DOMAIN rows = Requests /\ DOMAIN stage = Requests /\ DOMAIN acked = Requests
  BY DEF FullInv, SentInv, TypeOK
<1>1. CASE UNCHANGED << rows, stage, acked >>
  BY <1>1 DEF Outcome!vars
<1>2. ASSUME NEW r \in Requests,
             \/ SendCreates(r) \/ CancelBeforeDispatch(r) \/ Finish(r)
             \/ DeleteMessage(r) \/ SyncApply(r)
      PROVE  Outcome!Next \/ UNCHANGED Outcome!vars
  <2>1. /\ \A q \in Requests \ {r} : rows'[q] = rows[q]
        /\ UNCHANGED << stage, acked >>
    BY <1>2, <1>D DEF SendCreates, CancelBeforeDispatch, Unsaved, Finish, DeleteMessage, SyncApply
  <2>2. rows[r].status = "absent" => ~OperationStored(r) \/ rows'[r] = rows[r]
    <3>1. CASE SendCreates(r)
      BY <3>1 DEF SendCreates
    <3>2. ASSUME rows[r].status = "absent", ~SendCreates(r)
          PROVE  rows'[r] = rows[r]
      <4>1. pc[r] # "idle" \/ DeleteMessage(r)
        BY <1>2, <3>2
        DEF FullInv, SubmissionsFollowCalls, CancelBeforeDispatch, Unsaved, Finish, SyncApply
      <4>2. ~DeleteMessage(r)
        BY <3>2 DEF DeleteMessage, Exists, Stored
      <4>3. QED
        BY <1>R, <3>2, <4>1, <4>2 DEF RowStep, Exists, Stored
    <3>3. QED
      BY <3>1, <3>2
  <2>3. QED
    BY <1>R, <2>1, <2>2, RowStepMaps
<1>3. ASSUME NEW r \in Requests, Dispatch(r)
      PROVE  Outcome!Next
  <2>1. rows[r].status \in {"queued", "deleted"} /\ stage[r] = "none"
    BY <1>3 DEF FullInv, SubmissionsFollowCalls, Dispatch
  <2>2. Outcome!Submit(r)
    BY <1>3, <2>1, <1>D DEF Outcome!Submit, Dispatch
  <2>3. QED
    BY <2>2, Zenon DEF Outcome!Next
<1>4. ASSUME NEW r \in Requests, NEW s \in Segments(r), NetworkAcks(r, s)
      PROVE  Outcome!Next \/ UNCHANGED Outcome!vars
  <2>1. /\ stage[r] # "none"
        /\ UNCHANGED << rows, stage >>
        /\ acked[r] # Segments(r)
        /\ acked' = [acked EXCEPT ![r] = @ \cup {s}]
    <3>1. 1 .. 0 = {}
      OBVIOUS
    <3>2. submitted[r] # 0
      BY <1>4, <3>1 DEF NetworkAcks
    <3>3. stage[r] # "none"
      BY <3>2 DEF FullInv, SubmissionsFollowCalls
    <3>4. QED
      BY <1>4, <3>3 DEF NetworkAcks
  <2>2. QED
    <3>1. ConfirmedMap' = ConfirmedMap \/ ConfirmedMap' = ConfirmedMap \cup {r}
      BY <2>1, <1>D DEF ConfirmedMap, Segments
    <3>2. CASE ConfirmedMap' = ConfirmedMap
      BY <2>1, <3>2 DEF Outcome!vars, ConfirmedMap
    <3>3. CASE ConfirmedMap' = ConfirmedMap \cup {r}
      <4>1. Outcome!Confirm(r)
        BY <2>1, <3>3 DEF Outcome!Confirm, ConfirmedMap
      <4>2. QED
        BY <4>1, Zenon DEF Outcome!Next
    <3>4. QED
      BY <3>1, <3>2, <3>3
<1>5. CASE DaemonRestarts
  <2>1. Outcome!Interrupt
    BY <1>5 DEF DaemonRestarts, MarkInterrupted, Row, Outcome!Interrupt
  <2>2. QED
    BY <2>1, Zenon DEF Outcome!Next
<1>6. ASSUME UNCHANGED << rows, acked >>,
             \A r \in Requests : stage'[r] = "none" <=> stage[r] = "none"
      PROVE  UNCHANGED Outcome!vars
  BY <1>6 DEF Outcome!vars
<1>7. ASSUME NEW r \in Requests,
             \/ RefuseCommand(r) \/ BeginSubmit(r) \/ SubmitStep(r) \/ Expire(r)
             \/ \E s \in Segments(r) : ReportArrives(r, s)
      PROVE  /\ UNCHANGED << rows, acked >>
             /\ \A q \in Requests : stage'[q] = "none" <=> stage[q] = "none"
  <2>1. UNCHANGED << rows, acked >>
    BY <1>7 DEF SubmitStep, RefuseCommand, BeginSubmit, SubmitSegment,
       SegmentAccepted, SegmentRefused, SegmentUnanswered, SegmentUnbuildable,
       Expire, ReportArrives
  <2>2. \/ stage' = stage
        \/ /\ stage[r] # "none"
           /\ \E to \in Stages \ {"none"} : stage' = [stage EXCEPT ![r] = to]
    BY <1>7 DEF SubmitStep, RefuseCommand, BeginSubmit, SubmitSegment,
       SegmentAccepted, SegmentRefused, SegmentUnanswered, SegmentUnbuildable,
       Expire, ReportArrives, Stages
  <2>3. QED
    BY <1>D, <2>1, <2>2
<1>8. CASE WorkerRestarts
  <2>1. /\ UNCHANGED << rows, acked >>
        /\ \A r \in Requests : stage'[r] = "none" <=> stage[r] = "none"
    BY <1>8, <1>D DEF WorkerRestarts
  <2>2. QED
    BY <1>6, <2>1
<1>9. ASSUME NEW r \in Requests,
             \/ SendReplays(r) \/ LoseAnswer(r) \/ FinishUnsaved(r)
             \/ \E s \in Segments(r) : NetworkRefuses(r, s)
      PROVE  UNCHANGED << rows, stage, acked >>
  BY <1>9 DEF SendReplays, LoseAnswer, FinishUnsaved, Unsaved, NetworkRefuses
<1>10. ASSUME \/ SyncStart \/ SyncList \/ SyncAck \/ SyncAckLost \/ SyncFails
              \/ SyncInbox \/ SyncEnd \/ UNCHANGED vars
       PROVE  UNCHANGED << rows, stage, acked >>
  BY <1>10 DEF SyncStart, SyncList, SyncAck, SyncAckLost, SyncFails, SyncInbox,
     SyncEnd, vars
<1>11. QED
  BY <1>1, <1>2, <1>3, <1>4, <1>5, <1>6, <1>7, <1>8, <1>9, <1>10 DEF Next

(* OutboundSms implements SmsOutcome: gates, workers, reports, passes and  *)
(* restarts never show a status the promise does not allow, never submit a *)
(* message twice and never show "sent" without the network's confirmation. *)
THEOREM Refinement == Spec => ImplementsOutcome
BY OutcomeInit, OutcomeNext, FullInvariant, PTL
DEF Spec, ImplementsOutcome, Outcome!Spec
=============================================================================
