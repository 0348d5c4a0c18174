----------------------------- MODULE ModemInbox -----------------------------
(***************************************************************************)
(* Receiving text messages through a modem: the SIM's message storage, the *)
(* agent's durable inbound records and acknowledge operations, and the     *)
(* synchronisation pass of simplusd that drains them (InboundSms has the   *)
(* pass against an IMS session; a cellular message is one reference with a *)
(* whole body).                                                            *)
(*                                                                         *)
(* The device gate (DeviceGate) admits one operation at a time and there   *)
(* is one coordinator, so list, read and acknowledge calls never overlap.  *)
(* The modem stores new entries at any time, in any free index.            *)
(*                                                                         *)
(* A record's id is a digest of the indexes and PDUs of its segments; here *)
(* it is the set of <<index, entry>> pairs.  Stored entries that are not   *)
(* received messages are left out.                                         *)
(***************************************************************************)
EXTENDS Naturals, FiniteSets

CONSTANTS
  Entries,        \* PDUs the modem may store
  Indexes,        \* storage indexes of the SIM
  TextOf,         \* multipart key of an entry: sender, coding, reference
  TotalOfText,    \* segments of a message
  AgeOfEntry,     \* rank of its timestamp; for an unreadable entry, of the
                  \* observation that takes its place
  Unreadable,     \* entries that do not decode, so without a timestamp
  Free,           \* an empty index
  MaxStoredAgain, \* bound: times an entry is stored again
  MaxModemFaults, \* bound: failed deletions and reads
  MaxRestarts     \* bound: agent restarts and failed writes

ASSUME InboxAssumption ==
  /\ Unreadable \subseteq Entries
  /\ Free \notin Entries
  /\ \A e \in Entries : AgeOfEntry[e] \in Nat
  /\ \A e \in Entries : TotalOfText[TextOf[e]] \in Nat \ {0}
  /\ \A e \in Unreadable : TotalOfText[TextOf[e]] = 1
  /\ MaxStoredAgain \in Nat /\ MaxModemFaults \in Nat /\ MaxRestarts \in Nat

VARIABLES
  slots,        \* the SIM's storage: index to entry
  arrivals,     \* entries stored, with how often
  records,      \* inbound_messages: id to deleted segments and acknowledged
  ackJournal,   \* acknowledge operations: id to state
  kept,         \* ids in the application's message database
  pass,         \* the synchronisation pass and the call it is in
  modemFaults, restarts

inboxVars == <<slots, arrivals, records, ackJournal, kept, pass,
               modemFaults, restarts>>
inboxFaults == <<modemFaults, restarts>>

Ids == {id \in SUBSET (Indexes \X Entries) :
          /\ id # {}
          /\ \A s, t \in id : s[1] = t[1] => s = t
          /\ \A s, t \in id : TextOf[s[2]] = TextOf[t[2]]
          /\ \A s, t \in id : s[2] = t[2] => s = t
          /\ \A s \in id : Cardinality(id) = TotalOfText[TextOf[s[2]]]}

Waiting == [at |-> "waiting", todo |-> {}]
PassSteps == {"put", "read", "acknowledge", "delete", "mark", "finish",
              "complete"}

InboxTypeOK ==
  /\ slots \in [Indexes -> Entries \cup {Free}]
  /\ arrivals \in [Entries -> Nat]
  /\ \A id \in DOMAIN records :
       /\ id \in Ids
       /\ records[id] \in [deleted : SUBSET id, acknowledged : BOOLEAN]
       /\ records[id].acknowledged => records[id].deleted = id
  /\ DOMAIN ackJournal \subseteq Ids
  /\ \A id \in DOMAIN ackJournal : ackJournal[id] \in {"accepted", "succeeded"}
  /\ kept \subseteq Ids
  /\ pass \in {Waiting} \cup [at : PassSteps, todo : (SUBSET Ids) \ {{}}]
  /\ modemFaults \in 0 .. MaxModemFaults /\ restarts \in 0 .. MaxRestarts

InboxInit ==
  /\ slots = [i \in Indexes |-> Free]
  /\ arrivals = [e \in Entries |-> 0]
  /\ records = << >> /\ ackJournal = << >>
  /\ kept = {}
  /\ pass = Waiting
  /\ modemFaults = 0 /\ restarts = 0

ModemFault == /\ modemFaults < MaxModemFaults
              /\ modemFaults' = modemFaults + 1
              /\ UNCHANGED restarts
Restart == /\ restarts < MaxRestarts
           /\ restarts' = restarts + 1
           /\ UNCHANGED modemFaults

With(f, x, v) == [y \in DOMAIN f \cup {x} |-> IF y = x THEN v ELSE f[y]]

(* Assembling and listing go by timestamp.                                 *)
Age(id) == CHOOSE n \in {AgeOfEntry[s[2]] : s \in id} :
             \A s \in id : n <= AgeOfEntry[s[2]]
OldestOf(ids) == CHOOSE id \in ids : \A other \in ids : Age(id) <= Age(other)

(* External: the modem stores a received PDU in a free index.              *)
Arrive(e, i) ==
  /\ slots[i] = Free
  /\ arrivals[e] <= MaxStoredAgain
  /\ slots' = [slots EXCEPT ![i] = e]
  /\ arrivals' = [arrivals EXCEPT ![e] = @ + 1]
  /\ UNCHANGED <<records, ackJournal, kept, pass, inboxFaults>>

(* assembleInbound: one record for every whole message in storage.  A      *)
(* group is held back while a part is missing or is stored twice.  An      *)
(* undecodable entry is a record of its own.                               *)
Stored == {<<i, slots[i]>> : i \in {j \in Indexes : slots[j] # Free}}
Group(text) == {s \in Stored : TextOf[s[2]] = text}
Whole(group) ==
  /\ \A s \in group : Cardinality(group) = TotalOfText[TextOf[s[2]]]
  /\ \A s, t \in group : s[2] = t[2] => s = t
Assembled ==
  {{s} : s \in {t \in Stored : TotalOfText[TextOf[t[2]]] = 1}}
    \cup {g \in {Group(TextOf[s[2]]) : s \in Stored} : Whole(g)}

Pending(recs) == {id \in DOMAIN recs : ~recs[id].acknowledged}
Go(step, ids) == IF ids = {} THEN Waiting ELSE [at |-> step, todo |-> ids]

(* The pass calls ListSMS: one storage listing, then the records.          *)
ListStorage ==
  /\ pass = Waiting
  /\ Stored # {} \/ Pending(records) # {}
  /\ pass' = IF Assembled = {} THEN Go("read", Pending(records))
                               ELSE Go("put", Assembled)
  /\ UNCHANGED <<slots, arrivals, records, ackJournal, kept, inboxFaults>>

ListFails ==
  /\ pass = Waiting
  /\ Stored # {} \/ Pending(records) # {}
  /\ ModemFault
  /\ UNCHANGED <<slots, arrivals, records, ackJournal, kept, pass>>

Calling(step) == pass.at = step
Current == OldestOf(pass.todo)
Later == pass.todo \ {Current}

(* PutInbound inserts the record, or finds it with the same identity.  The *)
(* timestamp of an undecodable entry is the time of this listing, so it    *)
(* never equals the recorded one: a conflict, which fails the listing.     *)
Conflicts(id) == \E s \in id : s[2] \in Unreadable

PutRecord ==
  /\ Calling("put")
  /\ Current \in DOMAIN records => ~Conflicts(Current)
  /\ records' = IF Current \in DOMAIN records THEN records
                ELSE With(records, Current,
                          [deleted |-> {}, acknowledged |-> FALSE])
  /\ pass' = IF Later # {} THEN Go("put", Later)
                           ELSE Go("read", Pending(records'))
  /\ UNCHANGED <<slots, arrivals, ackJournal, kept, inboxFaults>>

PutConflicts ==
  /\ Calling("put")
  /\ Current \in DOMAIN records /\ Conflicts(Current)
  /\ pass' = Waiting
  /\ UNCHANGED <<slots, arrivals, records, ackJournal, kept, inboxFaults>>

(* ReadSMS finds the pending record and the application stores the message *)
(* (persistAndAcknowledgeInbound); only then does it acknowledge.          *)
ReadAndKeep ==
  /\ Calling("read")
  /\ kept' = kept \cup {Current}
  /\ pass' = Go("acknowledge", pass.todo)
  /\ UNCHANGED <<slots, arrivals, records, ackJournal, inboxFaults>>

(* AcknowledgeSMS under the operation id derived from the message id: a    *)
(* succeeded operation is answered at once, an accepted one continues.     *)
Undeleted(id) == id \ records[id].deleted
Segments(id) == IF Undeleted(id) = {} THEN "finish" ELSE "delete"

BeginAcknowledge ==
  /\ Calling("acknowledge")
  /\ IF Current \in DOMAIN ackJournal /\ ackJournal[Current] = "succeeded"
       THEN /\ pass' = Go("read", Later)
            /\ UNCHANGED ackJournal
       ELSE /\ ackJournal' = With(ackJournal, Current, "accepted")
            /\ pass' = Go(IF records[Current].acknowledged THEN "complete"
                          ELSE Segments(Current), pass.todo)
  /\ UNCHANGED <<slots, arrivals, records, kept, inboxFaults>>

(* Segments are deleted in the order of their parts: any fixed order.      *)
Segment == CHOOSE s \in Undeleted(Current) : TRUE

(* The index is read again right before the deletion: it may be empty, or  *)
(* hold the recorded PDU, or another one, which is never deleted.          *)
MutantDeletable == slots[Segment[1]] # Free
Deletable == slots[Segment[1]] = Segment[2]

MutantAlreadyGone == FALSE
AlreadyGone == slots[Segment[1]] = Free

DeleteSegment ==
  /\ Calling("delete")
  /\ \/ AlreadyGone /\ UNCHANGED slots
     \/ Deletable /\ slots' = [slots EXCEPT ![Segment[1]] = Free]
  /\ pass' = Go("mark", pass.todo)
  /\ UNCHANGED <<arrivals, records, ackJournal, kept, inboxFaults>>

IndexReused ==
  /\ Calling("delete")
  /\ slots[Segment[1]] # Free /\ ~Deletable
  /\ pass' = Waiting
  /\ UNCHANGED <<slots, arrivals, records, ackJournal, kept, inboxFaults>>

(* The read or the deletion fails, and reading again fails too or shows    *)
(* the entry still there: the call fails.  A deletion whose answer is lost *)
(* may have been done.                                                     *)
DeleteFails(done) ==
  /\ Calling("delete")
  /\ slots[Segment[1]] # Free => Deletable
  /\ ModemFault
  /\ slots' = IF done THEN [slots EXCEPT ![Segment[1]] = Free] ELSE slots
  /\ pass' = Waiting
  /\ UNCHANGED <<arrivals, records, ackJournal, kept>>

(* UpdateInbound after every segment.                                      *)
MarkDeleted ==
  /\ Calling("mark")
  /\ records' = [records EXCEPT ![Current].deleted = @ \cup {Segment}]
  /\ pass' = Go(IF Undeleted(Current) = {Segment} THEN "finish" ELSE "delete",
                pass.todo)
  /\ UNCHANGED <<slots, arrivals, ackJournal, kept, inboxFaults>>

Finish ==
  /\ Calling("finish")
  /\ records' = [records EXCEPT ![Current].acknowledged = TRUE]
  /\ pass' = Go("complete", pass.todo)
  /\ UNCHANGED <<slots, arrivals, ackJournal, kept, inboxFaults>>

CompleteOperation ==
  /\ Calling("complete")
  /\ ackJournal' = [ackJournal EXCEPT ![Current] = "succeeded"]
  /\ pass' = Go("read", Later)
  /\ UNCHANGED <<slots, arrivals, records, kept, inboxFaults>>

(* The agent stops, or a write of its state fails, between any two steps:  *)
(* the call fails and the pass with it; storage and records stay.          *)
AgentStops ==
  /\ pass # Waiting
  /\ Restart
  /\ pass' = Waiting
  /\ UNCHANGED <<slots, arrivals, records, ackJournal, kept>>

CallStep == PutRecord \/ PutConflicts \/ ReadAndKeep \/ BeginAcknowledge
              \/ DeleteSegment \/ IndexReused \/ MarkDeleted
              \/ Finish \/ CompleteOperation

InboxNext ==
  \/ \E e \in Entries, i \in Indexes : Arrive(e, i)
  \/ ListStorage \/ ListFails
  \/ CallStep
  \/ \E done \in BOOLEAN : DeleteFails(done)
  \/ AgentStops

InboxSpec == InboxInit /\ [][InboxNext]_inboxVars

(* The coordinator runs passes for ever and every call returns.            *)
InboxFairSpec ==
  InboxSpec /\ WF_inboxVars(ListStorage) /\ WF_inboxVars(CallStep)

-----------------------------------------------------------------------------

KeptEntry(e) == \E id \in kept : \E s \in id : s[2] = e

(* Nothing leaves the SIM unless the application's database has it: an     *)
(* entry that was stored is still stored, or kept.  The digest check       *)
(* protects an entry that took a deleted segment's index before that       *)
(* deletion was recorded (deleteInboundSegment, adapter.go:278-307).       *)
OnlyKeptIsDeleted ==
  /\ InboxTypeOK
  /\ \A e \in Entries :
       arrivals[e] > 0 => KeptEntry(e) \/ \E i \in Indexes : slots[i] = e

(* A record waits for the deletion of an entry whose index holds another.  *)
IndexTaken ==
  \E id \in Pending(records) :
    \E s \in Undeleted(id) : slots[s[1]] \notin {Free, s[2]}

(* An entry that did not decode is still stored after its listing: every   *)
(* later listing gives it another timestamp than the one on record.        *)
UnreadableIsListedAgain ==
  \E id \in DOMAIN records : Conflicts(id) /\ id \subseteq Stored

(* An entry that is part of a whole message reaches the application's      *)
(* database: what one pass leaves undone, a crash or a lost answer         *)
(* interrupts, a later pass completes.  Two obstacles can stop it for ever:*)
(* an index taken again before its deletion was recorded, and an           *)
(* undecodable entry that the pass which recorded it did not delete, for   *)
(* which every later ListSMS fails.                                        *)
WholeIsKept ==
  \A e \in Entries \ Unreadable :
    (\E g \in Assembled : \E s \in g : s[2] = e)
      ~> KeptEntry(e) \/ IndexTaken \/ UnreadableIsListedAgain
=============================================================================
