---------------------------- MODULE OutboundSms ----------------------------
(***************************************************************************)
(* Sending text messages on one host-VoWiFi Line, end to end.              *)
(*                                                                         *)
(*  - simplusd: every POST /messages runs messaging.Service.Send in its    *)
(*    own goroutine; a gate per modem function serialises Sends and the    *)
(*    background synchronisation of submit reports and inbound messages;   *)
(*  - the IMS worker: SubmitSMS holds the session mutex while it submits   *)
(*    the segments one by one, RP reports arrive on the same sockets, an   *)
(*    operation that hears all of them, or whose deadline passes, becomes  *)
(*    a report that stays queued until the application acknowledges it;    *)
(*  - the network (external): takes a submitted segment and may later      *)
(*    answer RP-ACK or RP-ERROR, at any distance from its SIP response.    *)
(*                                                                         *)
(* A request is one Send call.  The message id it draws is fresh, so a     *)
(* request also names its message row, its command to the worker and the   *)
(* provider id of its single submission.                                   *)
(***************************************************************************)
EXTENDS Naturals, FiniteSets, SmsStatus

CONSTANTS
  Requests,      \* Send calls, each with a fresh message id
  Operations,    \* operation ids chosen by the browser
  OperationOf,   \* the operation id of a request: a retry reuses it
  SegmentsOf,    \* number of SMS-SUBMIT segments of an operation's body
  NoRequest,     \* the gate is free
  Synchroniser,  \* the gate is held by SyncInbound
  MaxPending,    \* maxPendingIMSSubmissions
  MaxFaults,     \* bound: restarts, lost answers and failed store writes
  StoreFaults    \* whether a write to the message store may fail

ASSUME ConstantsAssumption ==
  /\ OperationOf \in [Requests -> Operations]
  /\ SegmentsOf \in [Operations -> Nat \ {0}]
  /\ NoRequest \notin Requests /\ Synchroniser \notin Requests
  /\ NoProvider \notin Requests
  /\ NoRequest # Synchroniser
  /\ MaxPending \in Nat \ {0}
  /\ MaxFaults \in Nat
  /\ StoreFaults \in BOOLEAN

VARIABLES
  rows,         \* sms_messages, by the request that created the row
  pc,           \* where each Send call is
  result,       \* what its transport call returned
  gate,         \* serialGate.token: a request, Synchroniser or NoRequest
  stage,        \* the request's submission, from the wire to its clean-up
  accepted,     \* acceptedSegments: segments with a 2xx SIP response
  submitted,    \* segments the network took and did not refuse by SIP
  acked,        \* segments the network answered with RP-ACK
  refused,      \* segments the network answered with RP-ERROR
  heard,        \* segments whose report the worker recorded
  reports,      \* completedSMSReports
  reportAcked,  \* acknowledgedReports
  sync,         \* where syncInboundLine is
  listed,       \* reports this pass listed and has not yet processed
  current,      \* the report that was persisted and is being acknowledged
  faults        \* faults so far

vars == << rows, pc, result, gate, stage, accepted, submitted, acked, refused,
           heard, reports, reportAcked, sync, listed, current, faults >>

sendVars    == << pc, result >>
workerVars  == << stage, accepted, submitted, heard, reports, reportAcked >>
networkVars == << acked, refused >>
syncVars    == << sync, listed, current >>

Segments(r) == 1 .. SegmentsOf[OperationOf[r]]

Steps    == {"idle", "gate", "sending", "result", "done", "unsaved"}
Outcomes == {"none", "sent", "accepted", "unknown", "partial", "failed",
             "rejected", "unavailable"}
Stages   == {"none", "wire", "submitting", "open", "closed"}
Reports  == {"none", "sent", "failed", "partial", "unknown"}

NothingListed == [r \in Requests |-> "none"]

TypeOK ==
  /\ rows \in [Requests -> [status : Statuses,
                            provider : Requests \cup {NoProvider},
                            code : Codes]]
  /\ pc \in [Requests -> Steps]
  /\ result \in [Requests -> Outcomes]
  /\ gate \in Requests \cup {NoRequest, Synchroniser}
  /\ stage \in [Requests -> Stages]
  /\ accepted \in [Requests -> Nat]
  /\ submitted \in [Requests -> Nat]
  /\ acked \in [Requests -> SUBSET Nat]
  /\ refused \in [Requests -> SUBSET Nat]
  /\ heard \in [Requests -> SUBSET Nat]
  /\ reports \in [Requests -> Reports]
  /\ reportAcked \in SUBSET Requests
  /\ sync \in {"idle", "list", "apply", "ack", "inbox"}
  /\ listed \in [Requests -> Reports]
  /\ current \in Requests \cup {NoRequest}
  /\ faults \in 0 .. MaxFaults

Init ==
  /\ rows = [r \in Requests |-> AbsentRow]
  /\ pc = [r \in Requests |-> "idle"]
  /\ result = [r \in Requests |-> "none"]
  /\ gate = NoRequest
  /\ stage = [r \in Requests |-> "none"]
  /\ accepted = [r \in Requests |-> 0]
  /\ submitted = [r \in Requests |-> 0]
  /\ acked = [r \in Requests |-> {}]
  /\ refused = [r \in Requests |-> {}]
  /\ heard = [r \in Requests |-> {}]
  /\ reports = [r \in Requests |-> "none"]
  /\ reportAcked = {}
  /\ sync = "idle"
  /\ listed = NothingListed
  /\ current = NoRequest
  /\ faults = 0

(* Operators named Mutant... are what a plausible bug would make of the    *)
(* operator that follows them; nothing of the specification uses them.     *)

Fault == faults < MaxFaults /\ faults' = faults + 1

-----------------------------------------------------------------------------
(* messaging.Service.Send                                                  *)

MutantOperationQueued(r) ==
  \E other \in Requests : /\ OperationOf[other] = OperationOf[r]
                          /\ rows[other].status = "queued"

(* CreateOutboundSMS: INSERT ... ON CONFLICT(operation_id) DO NOTHING.     *)
OperationStored(r) ==
  \E other \in Requests : /\ OperationOf[other] = OperationOf[r]
                          /\ Exists(rows[other])

SendCreates(r) ==
  /\ pc[r] = "idle"
  /\ ~OperationStored(r)
  /\ rows' = [rows EXCEPT ![r] = QueuedRow]
  /\ pc' = [pc EXCEPT ![r] = "gate"]
  /\ UNCHANGED << result, gate, workerVars, networkVars, syncVars, faults >>

SendReplays(r) ==
  /\ pc[r] = "idle"
  /\ OperationStored(r)
  /\ pc' = [pc EXCEPT ![r] = "done"]
  /\ UNCHANGED << rows, result, gate, workerVars, networkVars, syncVars, faults >>

(* The gate is taken and the command goes out through simplus-netd.        *)
Dispatch(r) ==
  /\ pc[r] = "gate"
  /\ gate = NoRequest
  /\ gate' = r
  /\ pc' = [pc EXCEPT ![r] = "sending"]
  /\ stage' = [stage EXCEPT ![r] = "wire"]
  /\ UNCHANGED << rows, result, accepted, submitted, heard, reports,
                  reportAcked, networkVars, syncVars, faults >>

(* The store refuses the last write of a Send, which then returns an error *)
(* and leaves the row as it is.                                            *)
Unsaved(r) ==
  /\ StoreFaults /\ Fault
  /\ pc' = [pc EXCEPT ![r] = "unsaved"]
  /\ UNCHANGED rows

(* The caller went away while it waited for the gate: no command is sent.  *)
CancelBeforeDispatch(r) ==
  /\ pc[r] = "gate"
  /\ \/ /\ rows' = [rows EXCEPT ![r] =
                     MarkFailed(@, NoProvider, "SEND_CANCELLED_BEFORE_DISPATCH")]
        /\ pc' = [pc EXCEPT ![r] = "done"]
        /\ UNCHANGED faults
     \/ Unsaved(r)
  /\ UNCHANGED << result, gate, workerVars, networkVars, syncVars >>

(* The answer never arrives: the browser disconnects (Send runs under the  *)
(* request's context) or a socket closes.  Both clients wrap the error and *)
(* the gateway turns every error it does not know into IMS_SMS_UNAVAILABLE.*)
LoseAnswer(r) ==
  /\ pc[r] = "sending"
  /\ Fault
  /\ pc' = [pc EXCEPT ![r] = "result"]
  /\ result' = [result EXCEPT ![r] = "unavailable"]
  /\ UNCHANGED << rows, gate, workerVars, networkVars, syncVars >>

(* What Send writes for each result of the transport call.                 *)
RowAfter(row, r, outcome) ==
  CASE outcome = "sent"        -> MarkSent(row, r)
    [] outcome = "accepted"    -> MarkUnconfirmed(row, r, "IMS_SMS_ACCEPTED_AWAITING_REPORT")
    [] outcome = "unknown"     -> MarkUnconfirmed(row, r, "SMS_SEND_OUTCOME_UNKNOWN")
    [] outcome = "partial"     -> MarkUnconfirmed(row, r, "IMS_SMS_PARTIAL_OR_REJECTED")
    [] outcome = "failed"      -> MarkFailed(row, r, "IMS_SMS_REJECTED")
    [] outcome = "rejected"    -> MarkFailed(row, NoProvider, "IMS_SMS_REJECTED")
    [] outcome = "unavailable" -> MarkFailed(row, NoProvider, "IMS_SMS_UNAVAILABLE")

Finish(r) ==
  /\ pc[r] = "result"
  /\ rows' = [rows EXCEPT ![r] = RowAfter(@, r, result[r])]
  /\ pc' = [pc EXCEPT ![r] = "done"]
  /\ gate' = NoRequest
  /\ UNCHANGED << result, workerVars, networkVars, syncVars, faults >>

FinishUnsaved(r) ==
  /\ pc[r] = "result"
  /\ Unsaved(r)
  /\ gate' = NoRequest
  /\ UNCHANGED << result, workerVars, networkVars, syncVars >>

DeleteMessage(r) ==
  /\ Exists(rows[r])
  /\ rows' = [rows EXCEPT ![r] = DeletedRow]
  /\ UNCHANGED << sendVars, gate, workerVars, networkVars, syncVars, faults >>

-----------------------------------------------------------------------------
(* The IMS worker                                                          *)

SessionFree == \A r \in Requests : stage[r] # "submitting"

(* submitOperations and completedSMSReports share one budget.              *)
PendingSubmissions ==
  {r \in Requests : stage[r] \in {"submitting", "open"} \/ reports[r] # "none"}

(* The worker answers; nobody may be waiting any more.                     *)
Answer(r, outcome) ==
  IF pc[r] = "sending"
    THEN /\ pc' = [pc EXCEPT ![r] = "result"]
         /\ result' = [result EXCEPT ![r] = outcome]
    ELSE UNCHANGED sendVars

(* netd knows no online worker, or the worker has no SMS-capable session,  *)
(* or its budget of pending submissions is used up.                        *)
RefuseCommand(r) ==
  /\ stage[r] = "wire"
  /\ stage' = [stage EXCEPT ![r] = "closed"]
  /\ Answer(r, "unavailable")
  /\ UNCHANGED << rows, gate, accepted, submitted, heard, reports,
                  reportAcked, networkVars, syncVars, faults >>

BeginSubmit(r) ==
  /\ stage[r] = "wire"
  /\ SessionFree
  /\ Cardinality(PendingSubmissions) < MaxPending
  /\ stage' = [stage EXCEPT ![r] = "submitting"]
  /\ UNCHANGED << rows, sendVars, gate, accepted, submitted, heard, reports,
                  reportAcked, networkVars, syncVars, faults >>

SubmitSegment(r) ==
  /\ stage[r] = "submitting"
  /\ submitted[r] = accepted[r]
  /\ submitted' = [submitted EXCEPT ![r] = @ + 1]
  /\ UNCHANGED << rows, sendVars, gate, stage, accepted, heard, reports,
                  reportAcked, networkVars, syncVars, faults >>

MutantCountsErrorsAsReports(r, segments) ==
  IF Segments(r) = {1} /\ refused[r] # {} THEN "failed" ELSE "sent"

MutantOneErrorFailsAll(r, segments) ==
  IF segments \cap refused[r] = {} THEN "sent" ELSE "failed"

(* State of the report an operation leaves when all segments are reported. *)
CompletedState(r, segments) ==
  IF segments \cap refused[r] = {} THEN "sent"
  ELSE IF Segments(r) = {1} THEN "failed" ELSE "partial"

SegmentAccepted(r) ==
  /\ stage[r] = "submitting"
  /\ submitted[r] = accepted[r] + 1
  /\ accepted' = [accepted EXCEPT ![r] = @ + 1]
  /\ IF accepted'[r] < SegmentsOf[OperationOf[r]]
       THEN UNCHANGED << stage, reports, sendVars >>
     ELSE IF heard[r] = Segments(r)
       THEN /\ stage' = [stage EXCEPT ![r] = "closed"]
            /\ reports' = [reports EXCEPT ![r] = CompletedState(r, heard[r])]
            /\ Answer(r, CompletedState(r, heard[r]))
     ELSE   /\ stage' = [stage EXCEPT ![r] = "open"]
            /\ Answer(r, "accepted")
            /\ UNCHANGED reports
  /\ UNCHANGED << rows, gate, submitted, heard, reportAcked, networkVars,
                  syncVars, faults >>

(* A final SIP response outside 2xx: this segment was not taken.  The      *)
(* message is rejected only if nothing before it was accepted or reported. *)
SegmentRefused(r) ==
  /\ stage[r] = "submitting"
  /\ submitted[r] = accepted[r] + 1
  /\ submitted[r] \notin acked[r]
  /\ submitted' = [submitted EXCEPT ![r] = accepted[r]]
  /\ stage' = [stage EXCEPT ![r] = "closed"]
  /\ Answer(r, IF accepted[r] = 0 /\ heard[r] = {} THEN "rejected" ELSE "unknown")
  /\ UNCHANGED << rows, gate, accepted, heard, reports, reportAcked,
                  networkVars, syncVars, faults >>

(* No SIP response within its budget, a socket error, or the caller's      *)
(* context ended: the network may or may not have taken the segment.       *)
SegmentUnanswered(r) ==
  /\ stage[r] = "submitting"
  /\ submitted[r] = accepted[r] + 1
  /\ stage' = [stage EXCEPT ![r] = "closed"]
  /\ Answer(r, "unknown")
  /\ UNCHANGED << rows, gate, accepted, submitted, heard, reports, reportAcked,
                  networkVars, syncVars, faults >>

(* No RP reference is free, or the packet cannot be built.                 *)
SegmentUnbuildable(r) ==
  /\ stage[r] = "submitting"
  /\ submitted[r] = accepted[r]
  /\ stage' = [stage EXCEPT ![r] = "closed"]
  /\ Answer(r, IF accepted[r] = 0 /\ heard[r] = {} THEN "unavailable" ELSE "unknown")
  /\ UNCHANGED << rows, gate, accepted, submitted, heard, reports, reportAcked,
                  networkVars, syncVars, faults >>

(* recordSubmitReportLocked: an RP report for a segment that is still      *)
(* registered; a repeated one changes nothing.                             *)
ReportArrives(r, s) ==
  /\ stage[r] \in {"submitting", "open"}
  /\ s \in (acked[r] \cup refused[r]) \ heard[r]
  /\ heard' = [heard EXCEPT ![r] = @ \cup {s}]
  /\ IF stage[r] = "open" /\ heard'[r] = Segments(r)
       THEN /\ stage' = [stage EXCEPT ![r] = "closed"]
            /\ reports' = [reports EXCEPT ![r] = CompletedState(r, heard'[r])]
       ELSE UNCHANGED << stage, reports >>
  /\ UNCHANGED << rows, sendVars, gate, accepted, submitted, reportAcked,
                  networkVars, syncVars, faults >>

(* expireSubmitOperationsLocked: the deadline passed without all reports.  *)
Expire(r) ==
  /\ stage[r] = "open"
  /\ SessionFree
  /\ stage' = [stage EXCEPT ![r] = "closed"]
  /\ reports' = [reports EXCEPT ![r] =
                   IF heard[r] \cap refused[r] = {} THEN "unknown" ELSE "partial"]
  /\ UNCHANGED << rows, sendVars, gate, accepted, submitted, heard,
                  reportAcked, networkVars, syncVars, faults >>

(* The network decides on a segment it took.                               *)
NetworkAcks(r, s) ==
  /\ s \in 1 .. submitted[r]
  /\ s \notin acked[r] \cup refused[r]
  /\ acked' = [acked EXCEPT ![r] = @ \cup {s}]
  /\ UNCHANGED << rows, sendVars, gate, workerVars, refused, syncVars, faults >>

NetworkRefuses(r, s) ==
  /\ s \in 1 .. submitted[r]
  /\ s \notin acked[r] \cup refused[r]
  /\ refused' = [refused EXCEPT ![r] = @ \cup {s}]
  /\ UNCHANGED << rows, sendVars, gate, workerVars, acked, syncVars, faults >>

-----------------------------------------------------------------------------
(* messaging.Service.syncInboundLine and syncSubmitReportsLocked           *)

SyncStart ==
  /\ sync = "idle"
  /\ gate = NoRequest
  /\ gate' = Synchroniser
  /\ sync' = "list"
  /\ UNCHANGED << rows, sendVars, workerVars, networkVars, listed, current, faults >>

MutantEndSyncKeepsGate ==
  /\ sync' = "idle"
  /\ listed' = NothingListed
  /\ current' = NoRequest
  /\ UNCHANGED gate

EndSync ==
  /\ sync' = "idle"
  /\ listed' = NothingListed
  /\ current' = NoRequest
  /\ gate' = NoRequest

SyncList ==
  /\ sync = "list"
  /\ SessionFree
  /\ listed' = reports
  /\ sync' = "apply"
  /\ UNCHANGED << rows, sendVars, gate, workerVars, networkVars, current, faults >>

(* What a pass does with a report, and when the store accepts it.          *)
RowAfterReport(row, r, report) ==
  CASE report = "sent"    -> MarkSent(row, r)
    [] report = "failed"  -> MarkFailed(row, r, "IMS_SMS_REJECTED")
    [] report = "partial" -> MarkUnconfirmed(row, r, "IMS_SMS_PARTIAL_OR_REJECTED")
    [] report = "unknown" -> MarkUnconfirmed(row, r, "SMS_SEND_OUTCOME_UNKNOWN")

MutantEveryReportFits(row, r, report) == report \in Reports

ReportFits(row, r, report) ==
  CASE report = "sent"    -> SentAllowed(row, r)
    [] report = "failed"  -> FailedAllowed(row, r, "IMS_SMS_REJECTED")
    [] OTHER              -> UnconfirmedAllowed(row, r)

(* A missing row is tolerated; a state conflict ends the pass before the   *)
(* acknowledgement and before the inbox is listed.                         *)
SyncApply(r) ==
  /\ sync = "apply"
  /\ listed[r] # "none"
  /\ rows' = [rows EXCEPT ![r] = RowAfterReport(@, r, listed[r])]
  /\ IF ~Exists(rows[r]) \/ ReportFits(rows[r], r, listed[r])
       THEN /\ sync' = "ack"
            /\ current' = r
            /\ UNCHANGED << gate, listed >>
       ELSE EndSync
  /\ UNCHANGED << sendVars, workerVars, networkVars, faults >>

MutantSyncAckForgets ==
  /\ sync = "ack"
  /\ SessionFree
  /\ reportAcked' = reportAcked \cup {current}
  /\ listed' = [listed EXCEPT ![current] = "none"]
  /\ current' = NoRequest
  /\ sync' = "apply"
  /\ UNCHANGED << rows, sendVars, gate, stage, accepted, submitted, heard,
                  reports, networkVars, faults >>

(* AcknowledgeSMSSubmitReport, and the pass goes on if it succeeded.       *)
SyncAck ==
  /\ sync = "ack"
  /\ SessionFree
  /\ IF current \in reportAcked \/ reports[current] # "none"
       THEN /\ reports' = [reports EXCEPT ![current] = "none"]
            /\ reportAcked' = reportAcked \cup {current}
            /\ listed' = [listed EXCEPT ![current] = "none"]
            /\ current' = NoRequest
            /\ sync' = "apply"
            /\ UNCHANGED gate
       ELSE EndSync /\ UNCHANGED << reports, reportAcked >>
  /\ UNCHANGED << rows, sendVars, stage, accepted, submitted, heard,
                  networkVars, faults >>

(* The acknowledgement is executed and its answer is lost.                 *)
SyncAckLost ==
  /\ sync = "ack"
  /\ SessionFree
  /\ Fault
  /\ IF reports[current] # "none"
       THEN /\ reports' = [reports EXCEPT ![current] = "none"]
            /\ reportAcked' = reportAcked \cup {current}
       ELSE UNCHANGED << reports, reportAcked >>
  /\ EndSync
  /\ UNCHANGED << rows, sendVars, stage, accepted, submitted, heard, networkVars >>

(* Listing, persisting or acknowledging fails without any effect.          *)
SyncFails ==
  /\ sync \in {"list", "apply", "ack", "inbox"}
  /\ Fault
  /\ EndSync
  /\ UNCHANGED << rows, sendVars, workerVars, networkVars >>

(* All reports are processed: only now is the inbox listed.                *)
SyncInbox ==
  /\ sync = "apply"
  /\ listed = NothingListed
  /\ sync' = "inbox"
  /\ UNCHANGED << rows, sendVars, gate, workerVars, networkVars, listed, current, faults >>

SyncEnd ==
  /\ sync = "inbox"
  /\ EndSync
  /\ UNCHANGED << rows, sendVars, workerVars, networkVars, faults >>

-----------------------------------------------------------------------------
(* simplusd stops and NewService runs again: every Send call and the pass  *)
(* in progress are gone, interrupted rows become unconfirmed.  The worker  *)
(* belongs to simplus-netd and goes on.                                    *)
DaemonRestarts ==
  /\ Fault
  /\ rows' = [r \in Requests |-> MarkInterrupted(rows[r])]
  /\ pc' = [r \in Requests |-> IF pc[r] = "idle" THEN "idle" ELSE "done"]
  /\ EndSync
  /\ UNCHANGED << result, workerVars, networkVars >>

(* The worker process, or its session, is replaced: its operations, its    *)
(* reports and its acknowledgement memory are gone, callers get an error.  *)
WorkerRestarts ==
  /\ Fault
  /\ stage' = [r \in Requests |-> IF stage[r] = "none" THEN "none" ELSE "closed"]
  /\ reports' = [r \in Requests |-> "none"]
  /\ reportAcked' = {}
  /\ pc' = [r \in Requests |-> IF pc[r] = "sending" THEN "result" ELSE pc[r]]
  /\ result' = [r \in Requests |-> IF pc[r] = "sending" THEN "unavailable" ELSE result[r]]
  /\ UNCHANGED << rows, gate, accepted, submitted, heard, networkVars, syncVars >>

-----------------------------------------------------------------------------
SubmitStep(r) ==
  \/ SubmitSegment(r) \/ SegmentAccepted(r) \/ SegmentRefused(r)
  \/ SegmentUnanswered(r) \/ SegmentUnbuildable(r)

Next ==
  \/ \E r \in Requests :
       \/ SendCreates(r) \/ SendReplays(r) \/ Dispatch(r)
       \/ CancelBeforeDispatch(r) \/ LoseAnswer(r) \/ Finish(r)
       \/ FinishUnsaved(r) \/ DeleteMessage(r)
       \/ RefuseCommand(r) \/ BeginSubmit(r) \/ SubmitStep(r) \/ Expire(r)
       \/ SyncApply(r)
       \/ \E s \in Segments(r) :
            ReportArrives(r, s) \/ NetworkAcks(r, s) \/ NetworkRefuses(r, s)
  \/ SyncStart \/ SyncList \/ SyncAck \/ SyncAckLost \/ SyncFails
  \/ SyncInbox \/ SyncEnd
  \/ DaemonRestarts \/ WorkerRestarts

Spec == Init /\ [][Next]_vars

(***************************************************************************)
(* Fairness.  Go runs every ready goroutine, so a handler that can go on   *)
(* does (WF), one conjunct for each sequential activity: each SIP exchange *)
(* ends within its budget, each operation by its deadline, the coordinator *)
(* starts a pass again and again.  The gate is a channel that serves its   *)
(* senders in order, so a Send gets its turn though passes take the gate   *)
(* in between (SF).  Nothing makes the network answer, a user cancel or    *)
(* delete, or a fault happen.                                              *)
(***************************************************************************)
SyncStep ==
  \/ SyncStart \/ SyncList \/ SyncAck \/ SyncInbox \/ SyncEnd
  \/ \E r \in Requests : SyncApply(r)

Fairness ==
  /\ \A r \in Requests :
       /\ SF_vars(Dispatch(r))
       /\ WF_vars(BeginSubmit(r) \/ RefuseCommand(r))
       /\ WF_vars(Expire(r))
  /\ WF_vars(\E r \in Requests : SubmitStep(r))
  /\ WF_vars(\E r \in Requests : Finish(r))
  /\ WF_vars(SyncStep)

FairSpec == Spec /\ Fairness

-----------------------------------------------------------------------------
(* Safety                                                                  *)

(* A message shows "sent" only when the network confirmed every segment of *)
(* it by RP-ACK: neither a SIP 202, nor a partial set of reports, nor a    *)
(* timeout, nor a report of another message gets it there (SubmitSMS,      *)
(* completeSubmitOperationIfReadyLocked, MarkOutboundSMSSent).             *)
SentMeansAcknowledged ==
  \A r \in Requests : rows[r].status = "sent" => acked[r] = Segments(r)

(* A message that is shown as rejected, or as cancelled, reached nobody:   *)
(* no segment of it was or will be delivered, so sending the text again is *)
(* safe (SegmentRefused's "nothing accepted or reported" condition, the    *)
(* single-segment RP-ERROR rule, and the gate's cancellation).             *)
RejectedMeansUndelivered ==
  \A r \in Requests :
    /\ rows[r].status = "failed"
    /\ rows[r].code \in {"IMS_SMS_REJECTED", "SEND_CANCELLED_BEFORE_DISPATCH"}
    => acked[r] = {}

(* A user's operation goes out once: two requests with one operation id    *)
(* are not both on their way to, or at, the network unless the user deleted*)
(* the first one's message in between.                                     *)
OperationSubmittedOnce ==
  \A r, other \in Requests :
    /\ r # other
    /\ OperationOf[r] = OperationOf[other]
    /\ stage[r] # "none"
    /\ stage[other] # "none"
    => rows[r].status = "deleted" \/ rows[other].status = "deleted"

(* An acknowledged report is gone from the worker, so the row must already *)
(* show what it said; a complete set of RP-ACKs is never thrown away.      *)
AcknowledgedReportIsRecorded ==
  \A r \in reportAcked :
    /\ heard[r] = Segments(r)
    /\ heard[r] \subseteq acked[r]
    => rows[r].status \in {"sent", "deleted"}

(* A settled message never changes its verdict: from "sent" or "failed"    *)
(* the only way out is the user's DELETE, whatever arrives late.           *)
VerdictIsFinal ==
  [][\A r \in Requests :
       rows[r].status \in {"sent", "failed"} =>
         rows'[r] = rows[r] \/ rows'[r].status = "deleted"]_rows

(* docs/architecture.md:277, "a lost response keeps the message            *)
(* unconfirmed": what is shown as failed was not delivered.                *)
FailedMeansUndelivered ==
  \A r \in Requests : rows[r].status = "failed" => acked[r] = {}

(* Every behaviour is one of SmsOutcome: a request is a message, shown     *)
(* with the status of its row, submitted once its command leaves simplusd, *)
(* confirmed once the network answered every segment with RP-ACK.          *)
Outcome == INSTANCE SmsOutcome WITH
  Messages  <- Requests,
  status    <- [r \in Requests |-> rows[r].status],
  submitted <- {r \in Requests : stage[r] # "none"},
  confirmed <- {r \in Requests : acked[r] = Segments(r)}

ImplementsOutcome == Outcome!Spec

-----------------------------------------------------------------------------
(* Liveness                                                                *)

(* Nobody waits for ever on "queued": every stored message is sent,        *)
(* failed, unconfirmed or deleted in the end, across restarts, unless the  *)
(* store refused the last write of its Send, after an answer or after a    *)
(* cancellation at the gate: only a report or a restart settles it then.   *)
QueuedSettles ==
  \A r \in Requests :
    (rows[r].status = "queued") ~> (rows[r].status # "queued" \/ pc[r] = "unsaved")

(* A report the store refuses: the row already says something else.        *)
ConflictingReport ==
  \E r \in Requests : /\ reports[r] # "none"
                      /\ Exists(rows[r])
                      /\ ~ReportFits(rows[r], r, reports[r])

(* The Line's inbox is listed again and again, unless a report that no     *)
(* pass can store stands before it in every pass.                          *)
InboxIsReached == []<>(sync = "inbox" \/ ConflictingReport)

(* Every report the worker holds is consumed, under the same exception.    *)
ReportsDrain ==
  \A r \in Requests :
    (reports[r] # "none") ~> (reports[r] = "none" \/ ConflictingReport)
=============================================================================
