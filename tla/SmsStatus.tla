----------------------------- MODULE SmsStatus -----------------------------
(***************************************************************************)
(* The status machine of one outbound row of sms_messages: the guarded     *)
(* UPDATE statements of internal/storage/sqlite/messages.go.  A row is      *)
(* "absent" before its INSERT and "deleted" after a user's DELETE; each     *)
(* statement either changes the row, finds it missing, or conflicts.        *)
(* Timestamps, line, address and body are left out: no guard reads them.    *)
(***************************************************************************)

CONSTANT NoProvider         \* the empty provider_message_id

Stored   == {"queued", "unconfirmed", "sent", "failed"}
Statuses == Stored \cup {"absent", "deleted"}

(* The error_code values the host VoWiFi path writes.                      *)
Codes == { "", "SEND_CANCELLED_BEFORE_DISPATCH", "IMS_SMS_REJECTED",
           "IMS_SMS_UNAVAILABLE", "SMS_SEND_OUTCOME_UNKNOWN",
           "IMS_SMS_ACCEPTED_AWAITING_REPORT", "IMS_SMS_PARTIAL_OR_REJECTED",
           "SEND_OUTCOME_UNKNOWN_AFTER_RESTART" }

Row(status, provider, code) ==
  [status |-> status, provider |-> provider, code |-> code]

AbsentRow  == Row("absent", NoProvider, "")
DeletedRow == Row("deleted", NoProvider, "")
QueuedRow  == Row("queued", NoProvider, "")

Exists(row) == row.status \in Stored

(* provider_message_id = CASE WHEN ? = '' THEN provider_message_id ELSE ?   *)
KeepOrSet(row, provider) ==
  IF provider = NoProvider THEN row.provider ELSE provider

Compatible(row, provider) ==
  provider = NoProvider \/ row.provider \in {NoProvider, provider}

(* Operators named Mutant... are what a plausible bug would make of the    *)
(* operator that follows them.                                             *)
MutantSentAllowedLate(row, provider) ==
  \/ row.status = "queued"
  \/ row.status \in {"unconfirmed", "failed"} /\ row.provider \in {NoProvider, provider}
  \/ row.status = "sent" /\ row.provider = provider

(* The WHERE clauses: which rows each statement may change.                *)
SentAllowed(row, provider) ==
  \/ row.status = "queued"
  \/ row.status = "unconfirmed" /\ row.provider \in {NoProvider, provider}
  \/ row.status = "sent" /\ row.provider = provider

FailedAllowed(row, provider, code) ==
  \/ row.status = "queued"
  \/ row.status = "unconfirmed" /\ Compatible(row, provider)
  \/ /\ row.status = "failed"
     /\ row.code = code
     /\ provider \in {NoProvider, row.provider}

UnconfirmedAllowed(row, provider) ==
  \/ row.status = "queued"
  \/ row.status = "unconfirmed" /\ Compatible(row, provider)

MarkSent(row, provider) ==
  IF SentAllowed(row, provider) THEN Row("sent", provider, "") ELSE row

MarkFailed(row, provider, code) ==
  IF FailedAllowed(row, provider, code)
    THEN Row("failed", KeepOrSet(row, provider), code) ELSE row

MutantMarkAccepted(row, provider, code) ==
  IF UnconfirmedAllowed(row, provider)
    THEN Row("accepted", KeepOrSet(row, provider), code) ELSE row

MarkUnconfirmed(row, provider, code) ==
  IF UnconfirmedAllowed(row, provider)
    THEN Row("unconfirmed", KeepOrSet(row, provider), code) ELSE row

MutantKeepInterrupted(row) == row

(* MarkQueuedOutboundSMSUnconfirmed, run once when the service is built.   *)
MarkInterrupted(row) ==
  IF row.status = "queued"
    THEN Row("unconfirmed", row.provider, "SEND_OUTCOME_UNKNOWN_AFTER_RESTART")
    ELSE row
=============================================================================
