------------------------------ MODULE ModemSend ------------------------------
(***************************************************************************)
(* Submitting a text message through a modem: the agent's operation        *)
(* journal, which survives a restart, and the prompted AT exchange.        *)
(*                                                                         *)
(* The device gate (DeviceGate) admits one operation at a time, so there   *)
(* is at most one send call; a second call for the same operation id runs  *)
(* when the first has returned, or after the agent's restart.  A call      *)
(* whose client went away fails in the modem exchange like a transport     *)
(* fault; its journal writes are not cancelled with it.                    *)
(*                                                                         *)
(* A message has SegmentCount segments, each one prompted exchange; modem  *)
(* and the network are external: what an exchange does on the air is known *)
(* to them, not to the agent.                                              *)
(***************************************************************************)
EXTENDS Naturals, FiniteSets

CONSTANTS
  SendOperations,  \* operation ids the application chooses
  Contents,        \* subscription, destination and body: a request digest
  SegmentCount,    \* segments of a message
  NoEntry,         \* no journal entry
  MaxSendFaults    \* bound: exchanges and writes that fail, and restarts

ASSUME SendAssumption ==
  /\ SegmentCount \in Nat \ {0}
  /\ MaxSendFaults \in Nat
  /\ NoEntry \notin [content : Contents,
                    state : {"accepted", "succeeded", "unknown"}]

VARIABLES
  journal,     \* operations table: operation id to its entry
  sendCall,    \* the call the gate admitted, or NoCall
  onAir,       \* segments the network took, by operation and content
  told,        \* answers given: operation, content and answer
  sendFaults   \* faults so far

sendVars == <<journal, sendCall, onAir, told, sendFaults>>

NoCall == [at |-> "none"]

(* How the call's exchange with the modem ended (driver.Send's error):     *)
(*   submitted    every segment has a message reference;                   *)
(*   refused      a ModemError or a transport failure that is certain;     *)
(*   uncertain    ErrSendOutcomeUnknown.                                   *)
Endings == {"submitted", "refused", "uncertain"}
Steps == {"accepted", "exchange", "ended"}

SendTypeOK ==
  /\ journal \in [SendOperations ->
       {NoEntry} \cup [content : Contents,
                       state : {"accepted", "succeeded", "unknown"}]]
  /\ \/ sendCall = NoCall
     \/ sendCall \in [at : Steps, operation : SendOperations,
                      content : Contents, completed : 0 .. SegmentCount,
                      ending : Endings]
  /\ onAir \in [SendOperations \X Contents -> Nat]
  /\ told \subseteq (SendOperations \X Contents
                      \X {"sent", "unknown", "failed", "conflict"})
  /\ sendFaults \in 0 .. MaxSendFaults

SendInit ==
  /\ journal = [o \in SendOperations |-> NoEntry]
  /\ sendCall = NoCall
  /\ onAir = [x \in SendOperations \X Contents |-> 0]
  /\ told = {}
  /\ sendFaults = 0

SendFault == /\ sendFaults < MaxSendFaults
             /\ sendFaults' = sendFaults + 1

Answer(o, c, answer) ==
  /\ sendCall' = NoCall
  /\ told' = told \cup {<<o, c, answer>>}

(* PutOperation finds no entry and inserts one: only then may the modem be *)
(* asked.                                                                  *)
MutantAccept(o, c) ==
  /\ sendCall = NoCall
  /\ \/ journal[o] = NoEntry
     \/ journal[o] = [content |-> c, state |-> "accepted"]
  /\ journal' = [journal EXCEPT ![o] = [content |-> c, state |-> "accepted"]]
  /\ sendCall' = [at |-> "accepted", operation |-> o, content |-> c,
                  completed |-> 0, ending |-> "submitted"]
  /\ UNCHANGED <<onAir, told, sendFaults>>

Accept(o, c) ==
  /\ sendCall = NoCall
  /\ journal[o] = NoEntry
  /\ journal' = [journal EXCEPT ![o] = [content |-> c, state |-> "accepted"]]
  /\ sendCall' = [at |-> "accepted", operation |-> o, content |-> c,
                  completed |-> 0, ending |-> "submitted"]
  /\ UNCHANGED <<onAir, told, sendFaults>>

(* PutOperation finds an entry: the call is answered from the journal.     *)
ReplayAnswer(o, c) ==
  CASE journal[o].content # c -> "conflict"
    [] journal[o] = [content |-> c, state |-> "succeeded"] -> "sent"
    [] OTHER                  -> "unknown"

Replay(o, c) ==
  /\ sendCall = NoCall
  /\ journal[o] # NoEntry
  /\ Answer(o, c, ReplayAnswer(o, c))
  /\ UNCHANGED <<journal, onAir, sendFaults>>

InCall(step) == sendCall # NoCall /\ sendCall.at = step

(* begin: the control endpoint, one conversation for all segments, PDU     *)
(* mode and storage.                                                       *)
BeginConversation ==
  /\ InCall("accepted")
  /\ sendCall' = [sendCall EXCEPT !.at = "exchange"]
  /\ UNCHANGED <<journal, onAir, told, sendFaults>>

BeginFails ==
  /\ InCall("accepted")
  /\ SendFault
  /\ sendCall' = [sendCall EXCEPT !.at = "ended", !.ending = "refused"]
  /\ UNCHANGED <<journal, onAir, told>>

Air == <<sendCall.operation, sendCall.content>>

(* AT+CMGS, the prompt, the PDU and Ctrl-Z, and a +CMGS reference.         *)
SegmentSubmitted ==
  /\ InCall("exchange")
  /\ onAir' = [onAir EXCEPT ![Air] = @ + 1]
  /\ LET done == sendCall.completed + 1 IN
       sendCall' = [sendCall EXCEPT !.completed = done,
                      !.at = IF done = SegmentCount THEN "ended" ELSE "exchange"]
  /\ UNCHANGED <<journal, told, sendFaults>>

(* The prompt was not reached, the bridge said so with status 412, or the  *)
(* modem answered the PDU with an error: this segment had no effect.       *)
SegmentRefused ==
  /\ InCall("exchange")
  /\ SendFault
  /\ sendCall' = [sendCall EXCEPT !.at = "ended", !.ending = "refused"]
  /\ UNCHANGED <<journal, onAir, told>>

(* The PDU was written, wholly or in part, or the bridge's answer was lost *)
(* or is no +CMGS reference: the network may or may not have the segment.  *)
SegmentUncertain(taken) ==
  /\ InCall("exchange")
  /\ SendFault
  /\ onAir' = IF taken THEN [onAir EXCEPT ![Air] = @ + 1] ELSE onAir
  /\ sendCall' = [sendCall EXCEPT !.at = "ended", !.ending = "uncertain"]
  /\ UNCHANGED <<journal, told>>

(* A failure after a completed segment is as uncertain as a lost answer.   *)
MutantUncertain == sendCall.ending = "uncertain"
Uncertain == \/ sendCall.ending = "uncertain"
             \/ sendCall.ending = "refused" /\ sendCall.completed > 0

(* The last write of the call: succeeded, unknown, or the entry is deleted *)
(* so that the application may try again.                                  *)
Outcome == CASE Uncertain                        -> "unknown"
             [] sendCall.ending = "submitted"    -> "sent"
             [] OTHER                            -> "failed"

EntryAfter(outcome) ==
  CASE outcome = "sent"    -> [content |-> sendCall.content,
                               state |-> "succeeded"]
    [] outcome = "unknown" -> [content |-> sendCall.content,
                               state |-> "unknown"]
    [] OTHER               -> NoEntry

Record ==
  /\ InCall("ended")
  /\ journal' = [journal EXCEPT ![sendCall.operation] = EntryAfter(Outcome)]
  /\ Answer(sendCall.operation, sendCall.content, Outcome)
  /\ UNCHANGED <<onAir, sendFaults>>

(* The write fails: the entry stays accepted, the answer is always         *)
(* "unknown", also when the segments are known not to be sent.             *)
RecordFails ==
  /\ InCall("ended")
  /\ SendFault
  /\ Answer(sendCall.operation, sendCall.content, "unknown")
  /\ UNCHANGED <<journal, onAir>>

(* The agent stops; the journal stays.                                     *)
AgentRestarts ==
  /\ sendCall # NoCall
  /\ SendFault
  /\ sendCall' = NoCall
  /\ UNCHANGED <<journal, onAir, told>>

SendNext ==
  \/ \E o \in SendOperations, c \in Contents : Accept(o, c) \/ Replay(o, c)
  \/ BeginConversation \/ BeginFails
  \/ SegmentSubmitted \/ SegmentRefused
  \/ \E taken \in BOOLEAN : SegmentUncertain(taken)
  \/ Record \/ RecordFails
  \/ AgentRestarts

SendSpec == SendInit /\ [][SendNext]_sendVars

-----------------------------------------------------------------------------

Taken(o) == {c \in Contents : onAir[<<o, c>>] > 0}

(* One operation id puts at most one message on the air, each segment of   *)
(* it once, whatever is lost, retried or restarted: an accepted send is    *)
(* never dispatched again (docs/architecture.md:125, adapter.go:160).      *)
SubmittedOnce(o) ==
  /\ Cardinality(Taken(o)) <= 1
  /\ \A c \in Contents : onAir[<<o, c>>] <= SegmentCount

(* An entry is deleted for another attempt only while nothing of the       *)
(* operation is on the air; what is on the air is what was journalled.     *)
ReleasedIsUnsent(o) ==
  IF journal[o] = NoEntry THEN Taken(o) = {}
                          ELSE Taken(o) \subseteq {journal[o].content}

(* "sent" was answered only for a message every segment of which was taken *)
SentIsSubmitted(o) ==
  \A c \in Contents : <<o, c, "sent">> \in told => onAir[<<o, c>>] = SegmentCount

(* The journal and the answers are true of what the network took: no       *)
(* message twice, no released operation on the air, no "sent" in vain      *)
(* (sendSMS, adapter.go:137-203, across restarts and lost answers).        *)
SendIsTrue ==
  /\ SendTypeOK
  /\ \A o \in SendOperations :
       SubmittedOnce(o) /\ ReleasedIsUnsent(o) /\ SentIsSubmitted(o)
=============================================================================
