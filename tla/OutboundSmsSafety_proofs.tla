----------------------- MODULE OutboundSmsSafety_proofs -----------------------
(* More theorems of OutboundSms, for every value of its constants: what is *)
(* shown as rejected reached nobody, what is acknowledged is recorded, and *)
(* what a user sends goes out once.                                        *)
EXTENDS OutboundSms_proofs

USE DEF sendVars, workerVars, networkVars, syncVars

-----------------------------------------------------------------------------
(* What is shown as rejected reached nobody.                               *)

(* Nothing of the request was submitted, and nothing of it will be.        *)
NeverSubmitted(r) ==
  /\ submitted[r] = 0
  /\ stage[r] = "closed" \/ (stage[r] = "none" /\ pc[r] = "done")

(* Its only segment was refused.                                           *)
RefusedAlone(r) == Segments(r) = {1} /\ 1 \in refused[r]

(* "failed" and "rejected", wherever they are on their way to the row, are *)
(* said of a message nobody got.                                           *)
RejectionIsJustified ==
  \A r \in Requests :
    /\ acked[r] \subseteq 1 .. submitted[r]
    /\ result[r] = "rejected" => submitted[r] = 0 /\ stage[r] = "closed"
    /\ \/ result[r] = "failed"
       \/ reports[r] = "failed"
       \/ listed[r] = "failed"
       => RefusedAlone(r)
    /\ /\ rows[r].status = "failed"
       /\ rows[r].code \in {"IMS_SMS_REJECTED", "SEND_CANCELLED_BEFORE_DISPATCH"}
       => NeverSubmitted(r) \/ RefusedAlone(r)

LEMMA RejectionInit == Init => RejectionIsJustified
BY FixedRows DEF Init, NothingListed, RejectionIsJustified

(* Only MarkFailed writes "failed", and it writes its code with it.         *)
LEMMA OnlyMarkFailedFails ==
  ASSUME NEW row \in RowType, NEW p \in Requests \cup {NoProvider}, NEW c \in Codes
  PROVE  /\ MarkSent(row, p) = row \/ MarkSent(row, p).status = "sent"
         /\ \/ MarkUnconfirmed(row, p, c) = row
            \/ MarkUnconfirmed(row, p, c).status = "unconfirmed"
         /\ MarkFailed(row, p, c) = row \/ MarkFailed(row, p, c).code = c
BY DEF MarkSent, MarkFailed, MarkUnconfirmed, Row

LEMMA RejectionsOfResults ==
  ASSUME NEW row \in RowType, NEW r \in Requests, NEW outcome \in Outcomes \ {"none"},
         RowAfter(row, r, outcome) # row, RowAfter(row, r, outcome).status = "failed",
         RowAfter(row, r, outcome).code \in
           {"IMS_SMS_REJECTED", "SEND_CANCELLED_BEFORE_DISPATCH"}
  PROVE  outcome \in {"failed", "rejected"}
<1>1. outcome # "unavailable"
  BY PathCodes, OnlyMarkFailedFails DEF RowAfter
<1>2. outcome \notin {"sent", "accepted", "unknown", "partial"}
  BY PathCodes, OnlyMarkFailedFails DEF RowAfter
<1>3. QED
  BY <1>1, <1>2 DEF Outcomes

(* A row that comes to show a rejection got it from a result or a report   *)
(* that says so, or from a Send that gave up before its command.           *)
LEMMA NewRejection ==
  ASSUME FullInv, [Next]_vars, NEW q \in Requests,
         rows'[q] # rows[q], rows'[q].status = "failed",
         rows'[q].code \in {"IMS_SMS_REJECTED", "SEND_CANCELLED_BEFORE_DISPATCH"}
  PROVE  \/ pc[q] = "gate" /\ pc'[q] = "done"
              /\ UNCHANGED << stage, submitted, acked, refused >>
         \/ /\ result[q] \in {"failed", "rejected"} \/ listed[q] = "failed"
            /\ UNCHANGED << stage, submitted, acked, refused >>
<1> USE DEF FullInv, SentInv, TypeOK
<1>1. CASE \E r \in Requests : CancelBeforeDispatch(r)
  BY <1>1 DEF CancelBeforeDispatch, Unsaved
<1>2. CASE \E r \in Requests : Finish(r)
  <2>1. pc[q] = "result" /\ rows'[q] = RowAfter(rows[q], q, result[q])
          /\ UNCHANGED << stage, submitted, acked, refused >>
    BY <1>2 DEF Finish
  <2>2. result[q] \in Outcomes \ {"none"}
    BY <2>1 DEF CallsAreConsistent
  <2>3. result[q] \in {"failed", "rejected"}
    BY <2>1, <2>2, RejectionsOfResults DEF RowType
  <2>4. QED
    BY <2>1, <2>3
<1>3. CASE \E r \in Requests : SyncApply(r)
  <2>1. listed[q] # "none" /\ rows'[q] = RowAfterReport(rows[q], q, listed[q])
          /\ UNCHANGED << stage, submitted, acked, refused >>
    BY <1>3 DEF SyncApply
  <2>2. listed[q] = "failed"
    BY <2>1, PathCodes, OnlyMarkFailedFails DEF RowAfterReport, Reports, RowType
  <2>3. QED
    BY <2>1, <2>2
<1>4. CASE \E r \in Requests : SendCreates(r) \/ DeleteMessage(r)
  BY <1>4, FixedRows DEF SendCreates, DeleteMessage
<1>5. CASE DaemonRestarts
  BY <1>5 DEF DaemonRestarts, MarkInterrupted, Row
<1>6. QED
  BY <1>1, <1>2, <1>3, <1>4, <1>5
  DEF Next, vars, SubmitStep, SendReplays, Dispatch, LoseAnswer, FinishUnsaved, Unsaved,
      RefuseCommand, BeginSubmit, SubmitSegment, SegmentAccepted,
      SegmentRefused, SegmentUnanswered, SegmentUnbuildable, Expire,
      ReportArrives, NetworkAcks, NetworkRefuses, SyncStart, SyncList, SyncAck,
      SyncAckLost, SyncFails, SyncInbox, SyncEnd, WorkerRestarts

(* A report that says "failed" is about a single segment that was refused. *)
LEMMA FailedIsRefusedAlone ==
  ASSUME NEW r \in Requests, CompletedState(r, Segments(r)) = "failed"
  PROVE  RefusedAlone(r)
BY DEF CompletedState, RefusedAlone

LEMMA RejectionNext ==
  FullInv /\ RejectionIsJustified /\ [Next]_vars => RejectionIsJustified'
<1> SUFFICES ASSUME FullInv, RejectionIsJustified, [Next]_vars, NEW q \in Requests
             PROVE  /\ acked'[q] \subseteq 1 .. submitted'[q]
                    /\ result'[q] = "rejected" => submitted'[q] = 0 /\ stage'[q] = "closed"
                    /\ \/ result'[q] = "failed"
                       \/ reports'[q] = "failed"
                       \/ listed'[q] = "failed"
                       => RefusedAlone(q)'
                    /\ /\ rows'[q].status = "failed"
                       /\ rows'[q].code \in {"IMS_SMS_REJECTED", "SEND_CANCELLED_BEFORE_DISPATCH"}
                       => NeverSubmitted(q)' \/ RefusedAlone(q)'
  BY DEF RejectionIsJustified
<1> DEFINE Taken == acked[q] \subseteq 1 .. submitted[q]
           Rejected == result[q] = "rejected" => submitted[q] = 0 /\ stage[q] = "closed"
           Failed == \/ result[q] = "failed"
                     \/ reports[q] = "failed"
                     \/ listed[q] = "failed"
                     => RefusedAlone(q)
           Shown == /\ rows[q].status = "failed"
                    /\ rows[q].code \in {"IMS_SMS_REJECTED", "SEND_CANCELLED_BEFORE_DISPATCH"}
           Justified == NeverSubmitted(q) \/ RefusedAlone(q)
<1>F. Taken /\ Rejected /\ Failed /\ (Shown => Justified)
  BY DEF RejectionIsJustified
<1>T. /\ submitted[q] \in Nat /\ accepted[q] \in Nat
      /\ acked[q] \subseteq Nat /\ refused[q] \subseteq Nat
      /\ pc[q] = "idle" => stage[q] = "none"
      /\ pc[q] = "gate" => stage[q] = "none"
      /\ stage[q] = "none" => submitted[q] = 0
  BY DEF FullInv, SentInv, TypeOK, SubmissionsFollowCalls
<1> DEFINE Evidence == Taken' /\ Rejected' /\ Failed' /\ (Justified => Justified')
<1> USE DEF FullInv, SentInv, TypeOK, NeverSubmitted, RefusedAlone
<1>1. ASSUME NEW r \in Requests,
             \/ SendCreates(r) \/ SendReplays(r) \/ Dispatch(r)
             \/ CancelBeforeDispatch(r) \/ LoseAnswer(r) \/ Finish(r)
             \/ FinishUnsaved(r) \/ DeleteMessage(r)
      PROVE  Evidence
  BY <1>F, <1>T, <1>1
  DEF SendCreates, SendReplays, Dispatch, CancelBeforeDispatch, Unsaved, LoseAnswer,
      Finish, FinishUnsaved, DeleteMessage
<1>2. ASSUME NEW r \in Requests,
             RefuseCommand(r) \/ BeginSubmit(r) \/ SubmitSegment(r) \/ Expire(r)
      PROVE  Evidence
  BY <1>F, <1>T, <1>2
  DEF RefuseCommand, BeginSubmit, SubmitSegment, Expire, Answer
<1>3. ASSUME NEW r \in Requests, SegmentAccepted(r)
      PROVE  Evidence
  <2>1. UNCHANGED << submitted, acked, refused, listed >> /\ stage[r] = "submitting"
          /\ \/ UNCHANGED << stage, reports, sendVars >>
             \/ /\ stage' = [stage EXCEPT ![r] = "closed"]
                /\ reports' = [reports EXCEPT ![r] = CompletedState(r, Segments(r))]
                /\ Answer(r, CompletedState(r, Segments(r)))
             \/ /\ stage' = [stage EXCEPT ![r] = "open"]
                /\ Answer(r, "accepted")
                /\ UNCHANGED reports
    BY <1>3 DEF SegmentAccepted
  <2>2. CompletedState(r, Segments(r)) # "rejected"
    BY DEF CompletedState
  <2>3. QED
    BY <1>F, <1>T, <2>1, <2>2, FailedIsRefusedAlone DEF Answer
<1>4. ASSUME NEW r \in Requests, SegmentRefused(r)
      PROVE  Evidence
  <2>1. CASE q = r
    <3>1. /\ submitted[q] = accepted[q] + 1 /\ submitted[q] \notin acked[q]
          /\ submitted'[q] = accepted[q] /\ stage'[q] = "closed"
          /\ UNCHANGED << acked, refused, reports, listed >>
          /\ \/ result'[q] = result[q]
             \/ result'[q] = "unknown"
             \/ result'[q] = "rejected" /\ accepted[q] = 0
      BY <1>4, <2>1 DEF SegmentRefused, Answer
    <3>2. ASSUME NEW x \in acked[q] PROVE x \in 1 .. accepted[q]
      <4>1. x \in 1 .. submitted[q] /\ x # submitted[q]
        BY <1>F, <3>1
      <4>2. QED
        BY <1>T, <3>1, <4>1
    <3>3. result[q] # "rejected"
      BY <1>F, <1>T, <3>1
    <3>4. QED
      BY <1>F, <1>T, <3>1, <3>2, <3>3
  <2>2. CASE q # r
    BY <1>F, <1>4, <2>2 DEF SegmentRefused, Answer
  <2>3. QED
    BY <2>1, <2>2
<1>5. ASSUME NEW r \in Requests, SegmentUnanswered(r) \/ SegmentUnbuildable(r)
      PROVE  Evidence
  BY <1>F, <1>T, <1>5 DEF SegmentUnanswered, SegmentUnbuildable, Answer
<1>6. ASSUME NEW r \in Requests, NEW s \in Segments(r), ReportArrives(r, s)
      PROVE  Evidence
  <2>1. UNCHANGED << submitted, acked, refused, listed, result, pc >>
          /\ stage[r] \in {"submitting", "open"}
          /\ \/ UNCHANGED << stage, reports >>
             \/ /\ stage' = [stage EXCEPT ![r] = "closed"]
                /\ reports' = [reports EXCEPT ![r] = CompletedState(r, Segments(r))]
    BY <1>6 DEF ReportArrives
  <2>2. QED
    BY <1>F, <1>T, <2>1, FailedIsRefusedAlone
<1>7. ASSUME NEW r \in Requests, NEW s \in Segments(r),
             NetworkAcks(r, s) \/ NetworkRefuses(r, s)
      PROVE  Evidence
  BY <1>F, <1>T, <1>7 DEF NetworkAcks, NetworkRefuses
<1>8. ASSUME NEW r \in Requests, SyncApply(r)
      PROVE  Evidence
  <2>1. UNCHANGED << sendVars, workerVars, networkVars >>
          /\ listed'[q] \in {listed[q], "none"}
    BY <1>8 DEF SyncApply, EndSync, NothingListed
  <2>2. QED
    BY <1>F, <2>1
<1>9. ASSUME SyncStart \/ SyncList \/ SyncInbox PROVE Evidence
  BY <1>F, <1>9 DEF SyncStart, SyncList, SyncInbox
<1>10. ASSUME SyncFails \/ SyncEnd \/ SyncAckLost \/ SyncAck PROVE Evidence
  <2>1. /\ listed'[q] \in {listed[q], "none"}
        /\ UNCHANGED << rows, pc, result, stage, submitted, acked, refused >>
        /\ reports'[q] \in {reports[q], "none"}
    BY <1>10 DEF SyncFails, SyncEnd, SyncAckLost, SyncAck, EndSync, NothingListed,
       CallsAreConsistent
  <2>2. QED
    BY <1>F, <2>1
<1>11. ASSUME DaemonRestarts PROVE Evidence
  BY <1>F, <1>T, <1>11 DEF DaemonRestarts, EndSync, NothingListed
<1>12. ASSUME WorkerRestarts PROVE Evidence
  BY <1>F, <1>T, <1>12 DEF WorkerRestarts
<1>13. ASSUME UNCHANGED vars PROVE Evidence
  BY <1>F, <1>13 DEF vars
<1>14. Evidence
  BY <1>1, <1>2, <1>3, <1>4, <1>5, <1>6, <1>7, <1>8, <1>9, <1>10, <1>11, <1>12,
     <1>13
  DEF Next, SubmitStep
<1>15. Shown' => Justified'
  <2>1. CASE rows'[q] = rows[q]
    BY <1>F, <1>14, <2>1
  <2>2. ASSUME rows'[q] # rows[q], Shown'
        PROVE  Justified'
    BY <1>F, <1>T, <2>2, NewRejection
  <2>3. QED
    BY <2>1, <2>2
<1>16. QED
  BY <1>14, <1>15

(* A message shown as rejected, or as cancelled, was delivered to nobody   *)
(* and never will be, whatever comes late: the user may send it again      *)
(* (SubmitSMS, completeSubmitOperationIfReadyLocked, serialGate.acquire).  *)
THEOREM RejectedReachedNobody == Spec => []RejectedMeansUndelivered
<1>1. FullInv /\ RejectionIsJustified => RejectedMeansUndelivered
  <2> SUFFICES ASSUME FullInv, RejectionIsJustified, NEW r \in Requests,
                      NeverSubmitted(r) \/ RefusedAlone(r)
               PROVE  acked[r] = {}
    BY DEF RejectedMeansUndelivered, RejectionIsJustified
  <2>1. /\ acked[r] \subseteq 1 .. submitted[r]
        /\ acked[r] \subseteq Segments(r) /\ acked[r] \cap refused[r] = {}
    BY DEF RejectionIsJustified, FullInv, SentInv, EvidenceIsGenuine
  <2>2. QED
    BY <2>1 DEF NeverSubmitted, RefusedAlone
<1>2. QED
  BY <1>1, RejectionInit, RejectionNext, FullInvariant, PTL DEF Spec

-----------------------------------------------------------------------------
(* What is acknowledged is recorded.                                       *)

(* All RP reports of the request were RP-ACKs.  heard[r] \cap refused[r]   *)
(* does not change once the worker heard of the segments.                  *)
AllConfirmed(r) == heard[r] = Segments(r) /\ heard[r] \cap refused[r] = {}

(* A report is written once and listed as it is; the one that is being     *)
(* acknowledged was stored; one that was acknowledged is forgotten.        *)
ReportsAreKept ==
  /\ \A r \in Requests :
       /\ rows[r].status = "absent" => stage[r] = "none"
       /\ stage[r] = "open" => heard[r] # Segments(r)
       /\ reports[r] # "none" /\ AllConfirmed(r) => reports[r] = "sent"
       /\ listed[r] # "none" /\ reports[r] # "none" => listed[r] = reports[r]
       /\ sync = "ack" /\ current = r =>
            /\ listed[r] # "none"
            /\ listed[r] = "sent" => rows[r].status \in {"sent", "deleted"}
       /\ r \in reportAcked =>
            /\ stage[r] = "closed"
            /\ AllConfirmed(r) => rows[r].status \in {"sent", "deleted"}

LEMMA ReportsInit == Init => ReportsAreKept
BY DEF Init, NothingListed, ReportsAreKept

(* Storing a "sent" report leaves the row "sent", or the pass ends.        *)
LEMMA StoredReport ==
  ASSUME NEW row \in RowType, NEW r \in Requests,
         row.status # "absent",
         ~Exists(row) \/ ReportFits(row, r, "sent")
  PROVE  RowAfterReport(row, r, "sent").status \in {"sent", "deleted"}
BY DEF RowAfterReport, ReportFits, MarkSent, Row, Exists, Stored, RowType, Statuses,
   SentAllowed

(* Rows that are settled stay so, and none comes to be absent.             *)
LEMMA SettledRows ==
  ASSUME FullInv, [Next]_vars, NEW q \in Requests
  PROVE  /\ rows[q].status \in {"sent", "deleted"} => rows'[q].status \in {"sent", "deleted"}
         /\ rows'[q].status = "absent" => rows[q].status = "absent"
BY NextIsRowStep, FixedRows DEF FullInv, RowStep, Exists, Stored

LEMMA ReportsNext ==
  FullInv /\ ReportsAreKept /\ [Next]_vars => ReportsAreKept'
<1> SUFFICES ASSUME FullInv, ReportsAreKept, [Next]_vars, NEW q \in Requests
             PROVE  /\ rows'[q].status = "absent" => stage'[q] = "none"
                    /\ stage'[q] = "open" => heard'[q] # Segments(q)
                    /\ reports'[q] # "none" /\ AllConfirmed(q)' => reports'[q] = "sent"
                    /\ listed'[q] # "none" /\ reports'[q] # "none" => listed'[q] = reports'[q]
                    /\ sync' = "ack" /\ current' = q =>
                         /\ listed'[q] # "none"
                         /\ listed'[q] = "sent" => rows'[q].status \in {"sent", "deleted"}
                    /\ q \in reportAcked' =>
                         /\ stage'[q] = "closed"
                         /\ AllConfirmed(q)' => rows'[q].status \in {"sent", "deleted"}
  BY DEF ReportsAreKept
<1> DEFINE Created == rows[q].status = "absent" => stage[q] = "none"
           Open == stage[q] = "open" => heard[q] # Segments(q)
           Written == reports[q] # "none" /\ AllConfirmed(q) => reports[q] = "sent"
           Listed == listed[q] # "none" /\ reports[q] # "none" => listed[q] = reports[q]
           Persisted == sync = "ack" /\ current = q =>
                       /\ listed[q] # "none"
                       /\ listed[q] = "sent" => rows[q].status \in {"sent", "deleted"}
           Acked == q \in reportAcked =>
                      /\ stage[q] = "closed"
                      /\ AllConfirmed(q) => rows[q].status \in {"sent", "deleted"}
           Kept == Created /\ Open /\ Written /\ Listed /\ Persisted /\ Acked
<1>F. Kept
  BY DEF ReportsAreKept
<1>T. /\ reports[q] # "none" \/ listed[q] # "none" => stage[q] = "closed"
      /\ pc[q] = "gate" => rows[q].status # "absent" /\ stage[q] = "none"
      /\ heard[q] \subseteq acked[q] \cup refused[q]
  BY DEF FullInv, SentInv, SubmissionsFollowCalls, EvidenceIsGenuine
<1>R. /\ rows[q].status \in {"sent", "deleted"} => rows'[q].status \in {"sent", "deleted"}
      /\ rows'[q].status = "absent" => rows[q].status = "absent"
  BY SettledRows
<1> USE DEF FullInv, SentInv, TypeOK, AllConfirmed
<1>1. ASSUME NEW r \in Requests,
             \/ SendCreates(r) \/ SendReplays(r) \/ Dispatch(r)
             \/ CancelBeforeDispatch(r) \/ LoseAnswer(r) \/ Finish(r)
             \/ FinishUnsaved(r) \/ DeleteMessage(r)
      PROVE  Kept'
  <2>1. /\ UNCHANGED << heard, refused, reports, listed, sync, current, reportAcked >>
        /\ \/ stage'[q] = stage[q]
           \/ pc[q] = "gate" /\ stage[q] = "none" /\ stage'[q] = "wire"
    BY <1>T, <1>1
    DEF SendCreates, SendReplays, Dispatch, CancelBeforeDispatch, Unsaved, LoseAnswer,
        Finish, FinishUnsaved, DeleteMessage
  <2>2. QED
    BY <1>F, <1>T, <1>R, <2>1
<1>2. ASSUME NEW r \in Requests,
             \/ RefuseCommand(r) \/ BeginSubmit(r) \/ SubmitSegment(r)
             \/ SegmentRefused(r) \/ SegmentUnanswered(r) \/ SegmentUnbuildable(r)
      PROVE  Kept'
  BY <1>F, <1>T, <1>2
  DEF RefuseCommand, BeginSubmit, SubmitSegment, SegmentRefused,
      SegmentUnanswered, SegmentUnbuildable
<1>3. ASSUME NEW r \in Requests, SegmentAccepted(r)
      PROVE  Kept'
  <2>1. /\ UNCHANGED << rows, heard, refused, listed, sync, current, reportAcked >>
        /\ stage[r] = "submitting"
        /\ \/ UNCHANGED << stage, reports >>
           \/ /\ heard[r] = Segments(r)
              /\ stage' = [stage EXCEPT ![r] = "closed"]
              /\ reports' = [reports EXCEPT ![r] = CompletedState(r, heard[r])]
           \/ /\ heard[r] # Segments(r)
              /\ stage' = [stage EXCEPT ![r] = "open"]
              /\ UNCHANGED reports
    BY <1>3 DEF SegmentAccepted
  <2>2. QED
    BY <1>F, <1>T, <2>1 DEF CompletedState
<1>4. ASSUME NEW r \in Requests, Expire(r)
      PROVE  Kept'
  BY <1>F, <1>T, <1>4 DEF Expire
<1>5. ASSUME NEW r \in Requests, NEW s \in Segments(r), ReportArrives(r, s)
      PROVE  Kept'
  <2>1. /\ UNCHANGED << rows, acked, refused, listed, sync, current, reportAcked >>
        /\ stage[r] \in {"submitting", "open"}
        /\ \A other \in Requests \ {r} : heard'[other] = heard[other]
        /\ \/ /\ stage[r] = "open" /\ heard'[r] = Segments(r)
              /\ stage' = [stage EXCEPT ![r] = "closed"]
              /\ reports' = [reports EXCEPT ![r] = CompletedState(r, heard'[r])]
           \/ /\ ~(stage[r] = "open" /\ heard'[r] = Segments(r))
              /\ UNCHANGED << stage, reports >>
    BY <1>5 DEF ReportArrives
  <2>2. CASE q = r
    BY <1>F, <1>T, <2>1, <2>2 DEF CompletedState
  <2>3. CASE q # r
    BY <1>F, <2>1, <2>3
  <2>4. QED
    BY <2>2, <2>3
<1>6. ASSUME NEW r \in Requests, NEW s \in Segments(r),
             NetworkAcks(r, s) \/ NetworkRefuses(r, s)
      PROVE  Kept'
  <2>1. AllConfirmed(q)' => AllConfirmed(q)
    BY <1>6 DEF NetworkAcks, NetworkRefuses
  <2>2. UNCHANGED << rows, stage, heard, reports, listed, sync, current, reportAcked >>
    BY <1>6 DEF NetworkAcks, NetworkRefuses
  <2>3. QED
    BY <1>F, <2>1, <2>2
<1>7. ASSUME NEW r \in Requests, SyncApply(r)
      PROVE  Kept'
  <2>1. /\ UNCHANGED << stage, heard, refused, reports, reportAcked >>
        /\ listed'[q] \in {listed[q], "none"}
    BY <1>7 DEF SyncApply, EndSync, NothingListed
  <2>2. Persisted'
    <3>1. CASE sync' = "ack" /\ current' = q
      <4>1. /\ q = r /\ listed' = listed /\ listed[q] # "none"
            /\ rows'[q] = RowAfterReport(rows[q], q, listed[q])
            /\ ~Exists(rows[q]) \/ ReportFits(rows[q], q, listed[q])
        BY <1>7, <3>1, ConstantsAssumption DEF SyncApply, EndSync
      <4>2. rows[q].status # "absent" /\ rows[q] \in RowType
        BY <1>F, <1>T, <4>1 DEF RowType
      <4>3. QED
        BY <4>1, <4>2, StoredReport
    <3>2. QED
      BY <3>1
  <2>3. QED
    BY <1>F, <1>R, <2>1, <2>2
<1>8. ASSUME SyncStart \/ SyncList \/ SyncInbox PROVE Kept'
  BY <1>F, <1>8 DEF SyncStart, SyncList, SyncInbox
<1>9. ASSUME SyncFails \/ SyncEnd \/ SyncAckLost \/ SyncAck PROVE Kept'
  <2>1. /\ UNCHANGED << rows, stage, heard, refused >>
        /\ sync' # "ack"
        /\ listed'[q] \in {listed[q], "none"}
        /\ reports'[q] \in {reports[q], "none"}
        /\ q \in reportAcked' =>
             q \in reportAcked \/ (sync = "ack" /\ current = q /\ reports[q] # "none")
    BY <1>9 DEF SyncFails, SyncEnd, SyncAckLost, SyncAck, EndSync, NothingListed,
       CallsAreConsistent
  <2>2. sync = "ack" /\ current = q /\ reports[q] # "none" /\ AllConfirmed(q) =>
          rows[q].status \in {"sent", "deleted"}
    BY <1>F
  <2>3. QED
    BY <1>F, <1>T, <2>1, <2>2
<1>10. ASSUME DaemonRestarts PROVE Kept'
  BY <1>F, <1>R, <1>10 DEF DaemonRestarts, EndSync, NothingListed
<1>11. ASSUME WorkerRestarts PROVE Kept'
  BY <1>F, <1>T, <1>11 DEF WorkerRestarts
<1>12. ASSUME UNCHANGED vars PROVE Kept'
  BY <1>F, <1>12 DEF vars
<1>13. Kept'
  BY <1>1, <1>2, <1>3, <1>4, <1>5, <1>6, <1>7, <1>8, <1>9, <1>10, <1>11, <1>12
  DEF Next, SubmitStep
<1>14. QED
  BY <1>13

(* No complete set of RP-ACKs is thrown away: before a report leaves the   *)
(* worker its row says what it said, though passes are cut short, their    *)
(* acknowledgements get lost and both daemons restart                      *)
(* (syncSubmitReportsLocked, AcknowledgeSMSSubmitReport).                  *)
THEOREM AcknowledgementComesLast == Spec => []AcknowledgedReportIsRecorded
<1>1. FullInv /\ ReportsAreKept => AcknowledgedReportIsRecorded
  BY DEF FullInv, SentInv, TypeOK, EvidenceIsGenuine, ReportsAreKept, AllConfirmed,
     AcknowledgedReportIsRecorded
<1>2. QED
  BY <1>1, ReportsInit, ReportsNext, FullInvariant, PTL DEF Spec

-----------------------------------------------------------------------------
(* What a user sends goes out once.                                        *)

(* Of the requests of an operation one has a row.                          *)
OneRowOfAnOperation ==
  \A r, other \in Requests :
    /\ r # other
    /\ OperationOf[r] = OperationOf[other]
    => ~(Exists(rows[r]) /\ Exists(rows[other]))

(* A row comes to exist where no other one of its operation does, in a     *)
(* step that leaves the others as they are.                                *)
LEMMA OneCreation ==
  ASSUME FullInv, [Next]_vars, NEW q \in Requests,
         Exists(rows[q])', ~Exists(rows[q])
  PROVE  /\ \A r \in Requests \ {q} : rows'[r] = rows[r]
         /\ \A r \in Requests : OperationOf[r] = OperationOf[q] => ~Exists(rows[r])
<1>1. pc[q] = "idle" /\ rows[q].status = "absent" /\ rows'[q] = QueuedRow
  BY NextIsRowStep, FixedRows DEF FullInv, RowStep, Exists, Stored
<1>2. SendCreates(q)
  <2> USE <1>1, FixedRows DEF FullInv, SentInv, TypeOK
  <2>1. rows' # rows
    BY <1>1, FixedRows
  <2>2. ASSUME NEW r \in Requests,
               SendCreates(r) \/ CancelBeforeDispatch(r) \/ Finish(r) \/ DeleteMessage(r)
        PROVE  SendCreates(q)
    BY <2>2 DEF SendCreates, CancelBeforeDispatch, Unsaved, Finish, DeleteMessage
  <2>3. ~\E r \in Requests : SyncApply(r)
    <3>1. listed[q] = "none"
      BY DEF SubmissionsFollowCalls
    <3>2. QED
      BY <3>1 DEF SyncApply
  <2>4. ~DaemonRestarts
    BY DEF DaemonRestarts, MarkInterrupted
  <2>5. QED
    BY <2>1, <2>2, <2>3, <2>4
    DEF Next, vars, SubmitStep, SendReplays, Dispatch, LoseAnswer, FinishUnsaved, Unsaved,
        RefuseCommand, BeginSubmit, SubmitSegment, SegmentAccepted,
        SegmentRefused, SegmentUnanswered, SegmentUnbuildable, Expire,
        ReportArrives, NetworkAcks, NetworkRefuses, SyncStart, SyncList, SyncAck,
        SyncAckLost, SyncFails, SyncInbox, SyncEnd, WorkerRestarts
<1>3. QED
  BY <1>2 DEF SendCreates, OperationStored, FullInv, SentInv, TypeOK

LEMMA OneRowNext ==
  FullInv /\ OneRowOfAnOperation /\ [Next]_vars => OneRowOfAnOperation'
<1> SUFFICES ASSUME FullInv, OneRowOfAnOperation, [Next]_vars,
                    NEW r \in Requests, NEW other \in Requests,
                    r # other, OperationOf[r] = OperationOf[other],
                    Exists(rows[r])', Exists(rows[other])'
             PROVE  FALSE
  BY DEF OneRowOfAnOperation
<1>1. Exists(rows[r])
  <2> SUFFICES ASSUME ~Exists(rows[r]) PROVE FALSE
    OBVIOUS
  <2>1. rows'[other] = rows[other] /\ ~Exists(rows[other])
    BY OneCreation
  <2>2. QED
    BY <2>1 DEF Exists
<1>2. Exists(rows[other])
  <2> SUFFICES ASSUME ~Exists(rows[other]) PROVE FALSE
    OBVIOUS
  <2>1. rows'[r] = rows[r] /\ ~Exists(rows[r])
    BY OneCreation
  <2>2. QED
    BY <2>1 DEF Exists
<1>3. QED
  BY <1>1, <1>2 DEF OneRowOfAnOperation

(* Requests of one operation, which is what a browser's retry makes, never *)
(* both send a command to the network unless the user deleted the first    *)
(* message in between (CreateOutboundSMS, Send).                           *)
THEOREM OperationGoesOutOnce == Spec => []OperationSubmittedOnce
<1>1. Init => OneRowOfAnOperation
  BY FixedRows DEF Init, OneRowOfAnOperation, Exists, Stored
<1>2. FullInv /\ ReportsAreKept /\ OneRowOfAnOperation => OperationSubmittedOnce
  <2> SUFFICES ASSUME FullInv, ReportsAreKept, OneRowOfAnOperation,
                      NEW r \in Requests, NEW other \in Requests,
                      r # other, OperationOf[r] = OperationOf[other],
                      stage[r] # "none", stage[other] # "none"
               PROVE  rows[r].status = "deleted" \/ rows[other].status = "deleted"
    BY DEF OperationSubmittedOnce
  <2>1. rows[r].status # "absent" /\ rows[other].status # "absent"
    BY DEF ReportsAreKept
  <2>2. rows[r].status \in Statuses /\ rows[other].status \in Statuses
    BY DEF FullInv, SentInv, TypeOK
  <2>3. QED
    BY <2>1, <2>2 DEF OneRowOfAnOperation, Exists, Statuses
<1>3. QED
  BY <1>1, <1>2, OneRowNext, ReportsInit, ReportsNext, FullInvariant, PTL DEF Spec
=============================================================================
