---------------------------- MODULE Modem_proofs ----------------------------
(* Theorems of ModemSend and ModemInbox, for any operations, contents and  *)
(* segments, any storage and messages, and any number of faults, restarts  *)
(* and repetitions.                                                        *)
EXTENDS ModemInbox, ModemSend, FiniteSetTheorems, WellFoundedInduction, TLAPS

USE DEF sendVars, inboxVars, inboxFaults

-----------------------------------------------------------------------------
(* Sending: the inductive invariant.                                       *)

Entry(c, s) == [content |-> c, state |-> s]

(* The call in progress is journalled as accepted, and it knows what it    *)
(* has put on the air unless its outcome is uncertain.                     *)
CallIsJournalled ==
  sendCall # NoCall =>
    /\ journal[sendCall.operation] = Entry(sendCall.content, "accepted")
    /\ sendCall.at = "accepted" => sendCall.completed = 0
    /\ sendCall.at = "exchange" => sendCall.completed < SegmentCount
    /\ sendCall.at \in {"accepted", "exchange"} => onAir[Air] = sendCall.completed
    /\ sendCall.at = "ended" /\ ~Uncertain =>
         onAir[Air] = IF sendCall.ending = "submitted" THEN SegmentCount ELSE 0

(* What is on the air is journalled, wholly if the entry says so.          *)
AirIsJournalled ==
  \A o \in SendOperations, c \in Contents :
    /\ onAir[<<o, c>>] > 0 => journal[o] # NoEntry /\ journal[o].content = c
    /\ onAir[<<o, c>>] <= SegmentCount
    /\ journal[o] = Entry(c, "succeeded") => onAir[<<o, c>>] = SegmentCount
    /\ <<o, c, "sent">> \in told => onAir[<<o, c>>] = SegmentCount

SendInv == SendTypeOK /\ CallIsJournalled /\ AirIsJournalled

LEMMA NoEntryIsNone == \A c \in Contents, s \in {"accepted", "succeeded", "unknown"} :
                          Entry(c, s) # NoEntry
BY SendAssumption DEF Entry

LEMMA SendInvInit == SendInit => SendInv
BY SendAssumption, NoEntryIsNone
   DEF SendInit, SendInv, SendTypeOK, CallIsJournalled, AirIsJournalled, NoCall, Entry

(* Types.                                                                  *)
Calls == [at : Steps, operation : SendOperations, content : Contents,
          completed : 0 .. SegmentCount, ending : Endings]

LEMMA CallTypes ==
  ASSUME SendTypeOK, NEW step \in Steps, InCall(step)
  PROVE  /\ sendCall \in Calls /\ sendCall.at = step
         /\ Air \in SendOperations \X Contents
BY DEF SendTypeOK, InCall, Calls, Air, NoCall, Steps

LEMMA SendTypesNext ==
  ASSUME SendInv, [SendNext]_sendVars
  PROVE  SendTypeOK'
<1> USE SendAssumption
<1>1. ASSUME NEW o \in SendOperations, NEW c \in Contents, Accept(o, c)
      PROVE  SendTypeOK'
  BY <1>1 DEF SendInv, SendTypeOK, Accept, Steps, Endings
<1>2. ASSUME NEW o \in SendOperations, NEW c \in Contents, Replay(o, c)
      PROVE  SendTypeOK'
  <2>1. ReplayAnswer(o, c) \in {"conflict", "sent", "unknown"}
    BY DEF ReplayAnswer
  <2>2. QED
    BY <1>2, <2>1 DEF SendInv, SendTypeOK, Replay, Answer, NoCall
<1>3. CASE BeginConversation
  <2>1. sendCall \in Calls
    BY <1>3, CallTypes DEF SendInv, BeginConversation, Steps
  <2>2. sendCall' \in Calls
    BY <1>3, <2>1 DEF BeginConversation, Calls, Steps
  <2>3. QED
    BY <1>3, <2>2 DEF SendInv, SendTypeOK, BeginConversation, Calls
<1>4. CASE BeginFails
  <2>1. sendCall \in Calls
    BY <1>4, CallTypes DEF SendInv, BeginFails, Steps
  <2>2. sendCall' \in Calls
    BY <1>4, <2>1 DEF BeginFails, Calls, Steps, Endings
  <2>3. QED
    BY <1>4, <2>2 DEF SendInv, SendTypeOK, BeginFails, Calls, SendFault
<1>5. CASE SegmentSubmitted
  <2>1. sendCall \in Calls /\ sendCall.at = "exchange" /\ Air \in SendOperations \X Contents
    BY <1>5, CallTypes DEF SendInv, SegmentSubmitted, Steps
  <2>2. sendCall.completed + 1 \in 0 .. SegmentCount
    BY <2>1 DEF SendInv, CallIsJournalled, Calls, NoCall
  <2>3. sendCall' \in Calls
    BY <1>5, <2>1, <2>2 DEF SegmentSubmitted, Calls, Steps
  <2>4. onAir' \in [SendOperations \X Contents -> Nat]
    BY <1>5, <2>1 DEF SegmentSubmitted, SendInv, SendTypeOK
  <2>5. QED
    BY <1>5, <2>3, <2>4 DEF SendInv, SendTypeOK, SegmentSubmitted, Calls
<1>6. CASE SegmentRefused
  <2>1. sendCall \in Calls
    BY <1>6, CallTypes DEF SendInv, SegmentRefused, Steps
  <2>2. sendCall' \in Calls
    BY <1>6, <2>1 DEF SegmentRefused, Calls, Steps, Endings
  <2>3. QED
    BY <1>6, <2>2 DEF SendInv, SendTypeOK, SegmentRefused, Calls, SendFault
<1>7. ASSUME NEW taken \in BOOLEAN, SegmentUncertain(taken)
      PROVE  SendTypeOK'
  <2>1. sendCall \in Calls /\ Air \in SendOperations \X Contents
    BY <1>7, CallTypes DEF SendInv, SegmentUncertain, Steps
  <2>2. sendCall' \in Calls
    BY <1>7, <2>1 DEF SegmentUncertain, Calls, Steps, Endings
  <2>3. onAir' \in [SendOperations \X Contents -> Nat]
    BY <1>7, <2>1 DEF SegmentUncertain, SendInv, SendTypeOK
  <2>4. QED
    BY <1>7, <2>2, <2>3 DEF SendInv, SendTypeOK, SegmentUncertain, Calls, SendFault
<1>8. CASE Record
  <2>1. sendCall \in Calls
    BY <1>8, CallTypes DEF SendInv, Record, Steps
  <2>2. Outcome \in {"unknown", "sent", "failed"}
    BY DEF Outcome
  <2>3. EntryAfter(Outcome) \in
          {NoEntry} \cup [content : Contents,
                          state : {"accepted", "succeeded", "unknown"}]
    BY <2>1, <2>2 DEF EntryAfter, Calls
  <2>4. QED
    BY <1>8, <2>1, <2>2, <2>3 DEF SendInv, SendTypeOK, Record, Answer, NoCall, Calls
<1>9. CASE RecordFails
  <2>1. sendCall \in Calls
    BY <1>9, CallTypes DEF SendInv, RecordFails, Steps
  <2>2. QED
    BY <1>9, <2>1 DEF SendInv, SendTypeOK, RecordFails, Answer, NoCall, Calls, SendFault
<1>10. CASE AgentRestarts
  BY <1>10 DEF SendInv, SendTypeOK, AgentRestarts, NoCall, SendFault
<1>11. CASE UNCHANGED sendVars
  BY <1>11 DEF SendInv, SendTypeOK
<1>12. QED
  BY <1>1, <1>2, <1>3, <1>4, <1>5, <1>6, <1>7, <1>8, <1>9, <1>10, <1>11 DEF SendNext

(* One segment more is on the air, of the call in progress.                *)
LEMMA TakenSegment ==
  ASSUME SendInv, sendCall \in Calls, sendCall.at = "exchange",
         journal' = journal, told' = told,
         onAir' = [onAir EXCEPT ![Air] = @ + 1]
  PROVE  /\ AirIsJournalled'
         /\ onAir'[Air] = sendCall.completed + 1
<1> USE SendAssumption
<1>1. /\ journal[sendCall.operation] = Entry(sendCall.content, "accepted")
      /\ sendCall.completed \in Nat /\ sendCall.completed < SegmentCount
      /\ onAir[Air] = sendCall.completed
      /\ sendCall.operation \in SendOperations /\ sendCall.content \in Contents
      /\ Air = <<sendCall.operation, sendCall.content>>
  BY DEF SendInv, CallIsJournalled, Calls, NoCall, Air
<1>2. onAir \in [SendOperations \X Contents -> Nat]
  BY DEF SendInv, SendTypeOK
<1>3. onAir'[Air] = sendCall.completed + 1
  BY <1>1, <1>2
<1>4. ASSUME NEW o \in SendOperations, NEW c \in Contents
      PROVE  /\ onAir'[<<o, c>>] > 0 => journal[o] # NoEntry /\ journal[o].content = c
             /\ onAir'[<<o, c>>] <= SegmentCount
             /\ journal[o] = Entry(c, "succeeded") => onAir'[<<o, c>>] = SegmentCount
             /\ <<o, c, "sent">> \in told => onAir'[<<o, c>>] = SegmentCount
  <2>1. CASE <<o, c>> = Air
    <3>1. o = sendCall.operation /\ c = sendCall.content
      BY <1>1, <2>1
    <3>2. journal[o] = Entry(c, "accepted") /\ Entry(c, "accepted") # NoEntry
      BY <1>1, <3>1, NoEntryIsNone
    <3>3. onAir[<<o, c>>] # SegmentCount
      BY <1>1, <2>1
    <3>4. <<o, c, "sent">> \notin told
      BY <3>3 DEF SendInv, AirIsJournalled
    <3>5. journal[o].content = c /\ journal[o] # Entry(c, "succeeded")
      BY <3>2 DEF Entry
    <3>6. QED
      BY <1>1, <1>3, <2>1, <3>2, <3>4, <3>5
  <2>2. CASE <<o, c>> # Air
    <3>1. onAir'[<<o, c>>] = onAir[<<o, c>>]
      BY <1>2, <2>2
    <3>2. QED
      BY <3>1 DEF SendInv, AirIsJournalled
  <2>3. QED
    BY <2>1, <2>2
<1>5. QED
  BY <1>3, <1>4 DEF AirIsJournalled

LEMMA SendInvNext ==
  ASSUME SendInv, [SendNext]_sendVars
  PROVE  SendInv'
<1> USE SendAssumption
<1> SUFFICES CallIsJournalled' /\ AirIsJournalled'
  BY SendTypesNext DEF SendInv
<1>1. ASSUME NEW o \in SendOperations, NEW c \in Contents, Accept(o, c)
      PROVE  CallIsJournalled' /\ AirIsJournalled'
  <2>1. \A d \in Contents : onAir[<<o, d>>] = 0 /\ <<o, d, "sent">> \notin told
    BY <1>1 DEF SendInv, AirIsJournalled, SendTypeOK, Accept
  <2>2. journal'[o] = Entry(c, "accepted")
    BY <1>1 DEF Accept, Entry, SendInv, SendTypeOK
  <2>3. CallIsJournalled'
    BY <1>1, <2>1, <2>2 DEF Accept, CallIsJournalled, Air
  <2>4. ASSUME NEW p \in SendOperations, NEW d \in Contents
        PROVE  /\ onAir'[<<p, d>>] > 0 => journal'[p] # NoEntry /\ journal'[p].content = d
               /\ onAir'[<<p, d>>] <= SegmentCount
               /\ journal'[p] = Entry(d, "succeeded") => onAir'[<<p, d>>] = SegmentCount
               /\ <<p, d, "sent">> \in told' => onAir'[<<p, d>>] = SegmentCount
    <3>1. CASE p = o
      BY <1>1, <2>1, <2>2, <3>1 DEF Accept, Entry
    <3>2. CASE p # o
      <4>1. journal'[p] = journal[p]
        BY <1>1, <3>2 DEF Accept, SendInv, SendTypeOK
      <4>2. QED
        BY <1>1, <4>1 DEF Accept, SendInv, AirIsJournalled
    <3>3. QED
      BY <3>1, <3>2
  <2>5. QED
    BY <2>3, <2>4 DEF AirIsJournalled
<1>2. ASSUME NEW o \in SendOperations, NEW c \in Contents, Replay(o, c)
      PROVE  CallIsJournalled' /\ AirIsJournalled'
  <2>1. ReplayAnswer(o, c) = "sent" => onAir[<<o, c>>] = SegmentCount
    <3>1. ReplayAnswer(o, c) = "sent" => journal[o] = Entry(c, "succeeded")
      BY DEF ReplayAnswer, Entry
    <3>2. QED
      BY <3>1 DEF SendInv, AirIsJournalled
  <2>2. QED
    BY <1>2, <2>1 DEF Replay, Answer, SendInv, AirIsJournalled, CallIsJournalled
<1>3. CASE BeginConversation
  <2>1. sendCall \in Calls /\ sendCall.at = "accepted"
    BY <1>3, CallTypes DEF SendInv, BeginConversation, Steps
  <2>2. /\ sendCall'.operation = sendCall.operation /\ sendCall'.content = sendCall.content
        /\ sendCall'.completed = sendCall.completed /\ sendCall'.at = "exchange"
    BY <1>3, <2>1 DEF BeginConversation, Calls
  <2>3. CallIsJournalled'
    BY <1>3, <2>1, <2>2 DEF BeginConversation, SendInv, CallIsJournalled, Calls, NoCall, Air
  <2>4. QED
    BY <1>3, <2>3 DEF BeginConversation, SendInv, AirIsJournalled
<1>4. CASE BeginFails
  <2>1. sendCall \in Calls /\ sendCall.at = "accepted"
    BY <1>4, CallTypes DEF SendInv, BeginFails, Steps
  <2>2. /\ sendCall'.operation = sendCall.operation /\ sendCall'.content = sendCall.content
        /\ sendCall'.completed = sendCall.completed /\ sendCall'.at = "ended"
        /\ sendCall'.ending = "refused"
    BY <1>4, <2>1 DEF BeginFails, Calls
  <2>3. CallIsJournalled'
    BY <1>4, <2>1, <2>2 DEF BeginFails, SendInv, CallIsJournalled, Calls, NoCall, Air, Uncertain
  <2>4. QED
    BY <1>4, <2>3 DEF BeginFails, SendInv, AirIsJournalled
<1>5. CASE SegmentSubmitted
  <2>1. sendCall \in Calls /\ sendCall.at = "exchange"
    BY <1>5, CallTypes DEF SendInv, SegmentSubmitted, Steps
  <2>2. AirIsJournalled' /\ onAir'[Air] = sendCall.completed + 1
    BY <1>5, <2>1, TakenSegment DEF SegmentSubmitted
  <2>3. /\ sendCall'.operation = sendCall.operation /\ sendCall'.content = sendCall.content
        /\ sendCall'.completed = sendCall.completed + 1
        /\ sendCall'.ending = sendCall.ending
        /\ sendCall'.at = IF sendCall.completed + 1 = SegmentCount
                          THEN "ended" ELSE "exchange"
    BY <1>5, <2>1 DEF SegmentSubmitted, Calls
  <2>4. CallIsJournalled'
    BY <1>5, <2>1, <2>2, <2>3
       DEF SegmentSubmitted, SendInv, CallIsJournalled, Calls, NoCall, Air, Uncertain, Endings
  <2>5. QED
    BY <2>2, <2>4
<1>6. CASE SegmentRefused
  <2>1. sendCall \in Calls /\ sendCall.at = "exchange"
    BY <1>6, CallTypes DEF SendInv, SegmentRefused, Steps
  <2>2. /\ sendCall'.operation = sendCall.operation /\ sendCall'.content = sendCall.content
        /\ sendCall'.completed = sendCall.completed /\ sendCall'.at = "ended"
        /\ sendCall'.ending = "refused"
    BY <1>6, <2>1 DEF SegmentRefused, Calls
  <2>3. CallIsJournalled'
    BY <1>6, <2>1, <2>2
       DEF SegmentRefused, SendInv, CallIsJournalled, Calls, NoCall, Air, Uncertain
  <2>4. QED
    BY <1>6, <2>3 DEF SegmentRefused, SendInv, AirIsJournalled
<1>7. ASSUME NEW taken \in BOOLEAN, SegmentUncertain(taken)
      PROVE  CallIsJournalled' /\ AirIsJournalled'
  <2>1. sendCall \in Calls /\ sendCall.at = "exchange"
    BY <1>7, CallTypes DEF SendInv, SegmentUncertain, Steps
  <2>2. /\ sendCall'.operation = sendCall.operation /\ sendCall'.content = sendCall.content
        /\ sendCall'.at = "ended" /\ sendCall'.ending = "uncertain"
    BY <1>7, <2>1 DEF SegmentUncertain, Calls
  <2>3. CallIsJournalled'
    BY <1>7, <2>1, <2>2
       DEF SegmentUncertain, SendInv, CallIsJournalled, Calls, NoCall, Uncertain
  <2>4. AirIsJournalled'
    <3>1. CASE taken
      BY <1>7, <2>1, <3>1, TakenSegment DEF SegmentUncertain
    <3>2. CASE ~taken
      BY <1>7, <3>2 DEF SegmentUncertain, SendInv, AirIsJournalled
    <3>3. QED
      BY <3>1, <3>2
  <2>5. QED
    BY <2>3, <2>4
<1>8. CASE Record
  <2>1. /\ sendCall \in Calls /\ sendCall.at = "ended"
        /\ sendCall.operation \in SendOperations /\ sendCall.content \in Contents
    BY <1>8, CallTypes DEF SendInv, Record, Steps, Calls
  <2>2. PICK o \in SendOperations, c \in Contents :
          o = sendCall.operation /\ c = sendCall.content
    BY <2>1
  <2>3. /\ journal[o] = Entry(c, "accepted")
        /\ Outcome = "sent" => onAir[<<o, c>>] = SegmentCount
        /\ Outcome = "failed" => onAir[<<o, c>>] = 0
        /\ Outcome \in {"sent", "failed", "unknown"}
    <3>1. /\ journal[o] = Entry(c, "accepted")
          /\ ~Uncertain =>
               onAir[<<o, c>>] = IF sendCall.ending = "submitted" THEN SegmentCount ELSE 0
      BY <2>1, <2>2 DEF SendInv, CallIsJournalled, Calls, NoCall, Air
    <3>2. /\ Outcome = "sent" => ~Uncertain /\ sendCall.ending = "submitted"
          /\ Outcome = "failed" => ~Uncertain /\ sendCall.ending # "submitted"
          /\ Outcome \in {"sent", "failed", "unknown"}
      BY DEF Outcome, Uncertain
    <3>3. QED
      BY <3>1, <3>2
  <2>4. /\ told' = told \cup {<<o, c, Outcome>>} /\ onAir' = onAir
        /\ sendCall' = NoCall
        /\ journal' = [journal EXCEPT ![o] = EntryAfter(Outcome)]
    BY <1>8, <2>2 DEF Record, Answer
  <2>5. /\ Outcome = "sent" => EntryAfter(Outcome) = Entry(c, "succeeded")
        /\ Outcome = "unknown" => EntryAfter(Outcome) = Entry(c, "unknown")
        /\ Outcome = "failed" => EntryAfter(Outcome) = NoEntry
    BY <2>2 DEF EntryAfter, Entry
  <2>6. ASSUME NEW p \in SendOperations, NEW d \in Contents
        PROVE  /\ onAir[<<p, d>>] > 0 => journal'[p] # NoEntry /\ journal'[p].content = d
               /\ onAir[<<p, d>>] <= SegmentCount
               /\ journal'[p] = Entry(d, "succeeded") => onAir[<<p, d>>] = SegmentCount
               /\ <<p, d, "sent">> \in told' => onAir[<<p, d>>] = SegmentCount
    <3>1. /\ onAir[<<p, d>>] > 0 => journal[p] # NoEntry /\ journal[p].content = d
          /\ onAir[<<p, d>>] <= SegmentCount
          /\ journal[p] = Entry(d, "succeeded") => onAir[<<p, d>>] = SegmentCount
          /\ <<p, d, "sent">> \in told => onAir[<<p, d>>] = SegmentCount
      BY DEF SendInv, AirIsJournalled
    <3>2. <<p, d, "sent">> \in told' => onAir[<<p, d>>] = SegmentCount
      BY <2>3, <2>4, <3>1
    <3>3. CASE p = o
      <4>1. journal'[o] = EntryAfter(Outcome)
        BY <2>4 DEF SendInv, SendTypeOK
      <4>2. onAir[<<o, d>>] \in Nat
        BY DEF SendInv, SendTypeOK
      <4>3. onAir[<<o, d>>] > 0 => d = c /\ Outcome # "failed"
        BY <2>3, <3>1, <3>3, <4>2 DEF Entry
      <4>4. onAir[<<o, d>>] > 0 => journal'[o] # NoEntry /\ journal'[o].content = d
        BY <2>3, <2>5, <4>1, <4>3, NoEntryIsNone DEF Entry
      <4>5. journal'[o] = Entry(d, "succeeded") => Outcome = "sent" /\ d = c
        BY <2>3, <2>5, <4>1, NoEntryIsNone DEF Entry
      <4>6. QED
        BY <2>3, <3>1, <3>2, <3>3, <4>4, <4>5
    <3>4. CASE p # o
      <4>1. journal'[p] = journal[p]
        BY <2>4, <3>4 DEF SendInv, SendTypeOK
      <4>2. QED
        BY <3>1, <3>2, <4>1
    <3>5. QED
      BY <3>3, <3>4
  <2>7. QED
    BY <2>4, <2>6 DEF AirIsJournalled, CallIsJournalled
<1>9. CASE RecordFails
  BY <1>9 DEF RecordFails, Answer, SendInv, AirIsJournalled, CallIsJournalled
<1>10. CASE AgentRestarts
  BY <1>10 DEF AgentRestarts, SendInv, AirIsJournalled, CallIsJournalled
<1>11. CASE UNCHANGED sendVars
  BY <1>11 DEF SendInv, AirIsJournalled, CallIsJournalled, Air, Uncertain
<1>12. QED
  BY <1>1, <1>2, <1>3, <1>4, <1>5, <1>6, <1>7, <1>8, <1>9, <1>10, <1>11 DEF SendNext

LEMMA SendInvImplies == SendInv => SendIsTrue
<1> SUFFICES ASSUME SendInv, NEW o \in SendOperations
             PROVE  SubmittedOnce(o) /\ ReleasedIsUnsent(o) /\ SentIsSubmitted(o)
  BY DEF SendInv, SendIsTrue
<1>1. ReleasedIsUnsent(o)
  BY DEF ReleasedIsUnsent, Taken, SendInv, AirIsJournalled
<1>2. Cardinality(Taken(o)) <= 1
  <2>1. CASE Taken(o) = {}
    BY <2>1, FS_EmptySet
  <2>2. CASE Taken(o) # {}
    <3>1. Taken(o) = {journal[o].content}
      BY <1>1, <2>2 DEF ReleasedIsUnsent
    <3>2. Cardinality(Taken(o)) = 1
      BY <3>1, FS_Singleton
    <3>3. QED
      BY <3>2
  <2>3. QED
    BY <2>1, <2>2
<1>3. QED
  BY <1>1, <1>2 DEF SubmittedOnce, SentIsSubmitted, SendInv, AirIsJournalled

(* What the agent answers and journals of a send is true of what went on   *)
(* the air: no operation sends two messages, or a segment twice, a released*)
(* operation has sent nothing, "sent" is said of whole messages only       *)
(* (sendSMS, for any faults and restarts).                                 *)
THEOREM SendingIsTrue == SendSpec => []SendIsTrue
<1>1. SendInit => SendInv
  BY SendInvInit
<1>2. SendInv /\ [SendNext]_sendVars => SendInv'
  BY SendInvNext
<1>3. QED
  BY <1>1, <1>2, SendInvImplies, PTL DEF SendSpec

-----------------------------------------------------------------------------
(* Receiving: the inductive invariant.                                     *)

Acknowledging == {"acknowledge", "delete", "mark", "finish", "complete"}

(* A pass reads what is on record, acknowledges what the application has,  *)
(* and knows whether a segment is left to delete.                          *)
PassIsCoherent ==
  /\ pass.at \in {"read"} \cup Acknowledging => pass.todo \subseteq DOMAIN records
  /\ pass.at \in Acknowledging => Current \in kept
  /\ pass.at \in {"delete", "mark"} => Undeleted(Current) # {}
  /\ pass.at = "finish" => Undeleted(Current) = {}

StoredOrKept ==
  \A e \in Entries :
    arrivals[e] > 0 => KeptEntry(e) \/ \E i \in Indexes : slots[i] = e

InboxInv == InboxTypeOK /\ PassIsCoherent /\ StoredOrKept

LEMMA InboxInvInit == InboxInit => InboxInv
BY InboxAssumption
   DEF InboxInit, InboxInv, InboxTypeOK, PassIsCoherent, StoredOrKept, Waiting, Acknowledging

(* The oldest message is one of those there are.                           *)
LEMMA LeastAge ==
  ASSUME NEW S \in SUBSET Nat, S # {}
  PROVE  \E n \in S : \A m \in S : n <= m
<1>1. PICK n \in S : \A m \in S : ~(<<m, n>> \in OpToRel(<, Nat))
  BY NatLessThanWellFounded, WFMin
<1>2. \A m \in S : ~(m < n)
  BY <1>1 DEF OpToRel
<1>3. QED
  BY <1>2

LEMMA AgesAreNumbers == \A id \in Ids : Age(id) \in Nat
<1> SUFFICES ASSUME NEW id \in Ids PROVE Age(id) \in Nat
  OBVIOUS
<1> DEFINE Ages == {AgeOfEntry[s[2]] : s \in id}
<1>1. Ages \in SUBSET Nat /\ Ages # {}
  BY InboxAssumption DEF Ids
<1> HIDE DEF Ages
<1>2. PICK n \in Ages : \A m \in Ages : n <= m
  BY <1>1, LeastAge
<1>3. Age(id) \in Ages
  BY <1>2 DEF Age, Ages
<1>4. QED
  BY <1>1, <1>3

LEMMA OldestIsThere ==
  ASSUME NEW ids \in SUBSET Ids, ids # {}
  PROVE  OldestOf(ids) \in ids
<1> DEFINE Ages == {Age(id) : id \in ids}
<1>1. Ages \in SUBSET Nat /\ Ages # {}
  BY AgesAreNumbers
<1> HIDE DEF Ages
<1>2. PICK n \in Ages : \A m \in Ages : n <= m
  BY <1>1, LeastAge
<1>3. \E id \in ids : \A other \in ids : Age(id) <= Age(other)
  BY <1>2 DEF Ages
<1>4. QED
  BY <1>3 DEF OldestOf

LEMMA Going ==
  ASSUME NEW step \in PassSteps, NEW ids \in SUBSET Ids
  PROVE  /\ Go(step, ids) \in {Waiting} \cup [at : PassSteps, todo : (SUBSET Ids) \ {{}}]
         /\ ids = {} => Go(step, ids).at = "waiting"
         /\ ids # {} => Go(step, ids).at = step /\ Go(step, ids).todo = ids
BY DEF Go, Waiting

(* A pass that is at a step has a message in hand.                         *)
LEMMA InHand ==
  ASSUME InboxTypeOK, NEW step \in PassSteps, Calling(step)
  PROVE  /\ pass.at = step
         /\ pass.todo \in SUBSET Ids /\ pass.todo # {}
         /\ Current \in pass.todo /\ Current \in Ids
         /\ Later \in SUBSET Ids
<1>1. pass.at = step /\ pass.todo \in SUBSET Ids /\ pass.todo # {}
  BY DEF InboxTypeOK, Calling, Waiting, PassSteps
<1>2. QED
  BY <1>1, OldestIsThere DEF Current, Later

LEMMA PendingIsRecorded ==
  ASSUME NEW recs, DOMAIN recs \subseteq Ids
  PROVE  Pending(recs) \in SUBSET Ids /\ Pending(recs) \subseteq DOMAIN recs
BY DEF Pending

(* A whole group of stored entries is a message.                           *)
LEMMA AssembledAreMessages ==
  ASSUME InboxTypeOK
  PROVE  Assembled \in SUBSET Ids
<1>1. Stored \in SUBSET (Indexes \X Entries) /\ \A s \in Stored : s[2] = slots[s[1]]
  BY InboxAssumption DEF InboxTypeOK, Stored
<1>2. \A s, t \in Stored : s[1] = t[1] => s = t
  BY <1>1
<1>3. ASSUME NEW s \in Stored, TotalOfText[TextOf[s[2]]] = 1
      PROVE  {s} \in Ids
  BY <1>1, <1>3, FS_Singleton DEF Ids
<1>4. ASSUME NEW s \in Stored, Whole(Group(TextOf[s[2]]))
      PROVE  Group(TextOf[s[2]]) \in Ids
  <2>1. Group(TextOf[s[2]]) \subseteq Stored /\ s \in Group(TextOf[s[2]])
    BY DEF Group
  <2>2. QED
    BY <1>1, <1>2, <1>4, <2>1 DEF Ids, Whole, Group
<1>5. QED
  BY <1>3, <1>4 DEF Assembled

LEMMA RecordsAreTyped ==
  InboxTypeOK => DOMAIN records \subseteq Ids
BY DEF InboxTypeOK

(* A deletion leaves every entry stored or kept.                           *)
LEMMA DeletionIsSafe ==
  ASSUME InboxInv, Calling("delete"), slots[Segment[1]] # Free => Deletable,
         slots' = [slots EXCEPT ![Segment[1]] = Free], kept' = kept,
         arrivals' = arrivals
  PROVE  StoredOrKept' /\ slots' \in [Indexes -> Entries \cup {Free}]
<1>1. Current \in kept /\ Current \in Ids /\ Undeleted(Current) # {}
  BY InHand DEF InboxInv, PassIsCoherent, Acknowledging, Calling, PassSteps
<1>2. Segment \in Current
  BY <1>1 DEF Segment, Undeleted
<1>3. slots \in [Indexes -> Entries \cup {Free}]
  BY DEF InboxInv, InboxTypeOK
<1>4. ASSUME NEW e \in Entries, NEW i \in Indexes, slots[i] = e, slots'[i] # e
      PROVE  KeptEntry(e)
  <2>1. i = Segment[1] /\ slots[Segment[1]] # Free
    BY <1>3, <1>4, InboxAssumption
  <2>2. e = Segment[2]
    BY <1>4, <2>1 DEF Deletable
  <2>3. QED
    BY <1>1, <1>2, <2>2 DEF KeptEntry
<1>5. \A e \in Entries : KeptEntry(e) => KeptEntry(e)'
  BY DEF KeptEntry
<1>6. StoredOrKept'
  BY <1>4, <1>5 DEF InboxInv, StoredOrKept
<1>7. QED
  BY <1>3, <1>6

(* A step that leaves storage, arrivals and the database alone.            *)
LEMMA StorageUnchanged ==
  ASSUME StoredOrKept, UNCHANGED <<slots, arrivals, kept>>
  PROVE  StoredOrKept'
BY DEF StoredOrKept, KeptEntry

LEMMA InboxInvNext ==
  ASSUME InboxInv, [InboxNext]_inboxVars
  PROVE  InboxInv'
<1> USE InboxAssumption
<1>1. ASSUME NEW e \in Entries, NEW i \in Indexes, Arrive(e, i)
      PROVE  InboxInv'
  <2>1. InboxTypeOK'
    BY <1>1 DEF Arrive, InboxInv, InboxTypeOK
  <2>2. PassIsCoherent'
    BY <1>1 DEF Arrive, InboxInv, PassIsCoherent, Current, Undeleted
  <2>3. ASSUME NEW d \in Entries, arrivals'[d] > 0
        PROVE  KeptEntry(d)' \/ \E j \in Indexes : slots'[j] = d
    <3>1. slots'[i] = e
      BY <1>1 DEF Arrive, InboxInv, InboxTypeOK
    <3>2. CASE d # e
      <4>1. arrivals'[d] = arrivals[d]
        BY <1>1, <3>2 DEF Arrive, InboxInv, InboxTypeOK
      <4>2. KeptEntry(d) \/ \E j \in Indexes : slots[j] = d
        BY <2>3, <4>1 DEF InboxInv, StoredOrKept
      <4>3. \A j \in Indexes : slots[j] = d => slots'[j] = d
        BY <1>1 DEF Arrive, InboxInv, InboxTypeOK
      <4>4. QED
        BY <1>1, <4>2, <4>3 DEF Arrive, KeptEntry
    <3>3. QED
      BY <3>1, <3>2
  <2>4. QED
    BY <2>1, <2>2, <2>3 DEF InboxInv, StoredOrKept
<1>2. CASE ListStorage
  <2>1. Assembled \in SUBSET Ids /\ Pending(records) \in SUBSET Ids
        /\ Pending(records) \subseteq DOMAIN records
    BY AssembledAreMessages, RecordsAreTyped, PendingIsRecorded DEF InboxInv
  <2>2. /\ pass' \in {Waiting} \cup [at : PassSteps, todo : (SUBSET Ids) \ {{}}]
        /\ pass'.at \in {"waiting", "put", "read"}
        /\ pass'.at = "read" => pass'.todo = Pending(records)
    BY <1>2, <2>1, Going DEF ListStorage, PassSteps
  <2>3. InboxTypeOK'
    BY <1>2, <2>2 DEF ListStorage, InboxInv, InboxTypeOK
  <2>4. PassIsCoherent'
    BY <1>2, <2>1, <2>2 DEF ListStorage, PassIsCoherent, Acknowledging
  <2>5. QED
    BY <1>2, <2>3, <2>4, StorageUnchanged DEF ListStorage, InboxInv
<1>3. CASE ListFails
  BY <1>3, StorageUnchanged
     DEF ListFails, ModemFault, InboxInv, InboxTypeOK, PassIsCoherent, Current, Undeleted
<1>4. CASE PutRecord
  <2>1. Current \in Ids /\ Later \in SUBSET Ids /\ DOMAIN records \subseteq Ids
    BY <1>4, InHand, RecordsAreTyped DEF PutRecord, InboxInv, PassSteps
  <2>2. \A id \in DOMAIN records' :
          /\ id \in Ids
          /\ records'[id] \in [deleted : SUBSET id, acknowledged : BOOLEAN]
          /\ records'[id].acknowledged => records'[id].deleted = id
    BY <1>4, <2>1 DEF PutRecord, With, InboxInv, InboxTypeOK
  <2>3. Pending(records') \in SUBSET Ids /\ Pending(records') \subseteq DOMAIN records'
    BY <2>2, PendingIsRecorded
  <2>4. /\ pass' \in {Waiting} \cup [at : PassSteps, todo : (SUBSET Ids) \ {{}}]
        /\ pass'.at \in {"waiting", "put", "read"}
        /\ pass'.at = "read" => pass'.todo = Pending(records')
    BY <1>4, <2>1, <2>3, Going DEF PutRecord, PassSteps
  <2>5. InboxTypeOK'
    BY <1>4, <2>2, <2>4 DEF PutRecord, InboxInv, InboxTypeOK
  <2>6. PassIsCoherent'
    BY <2>3, <2>4 DEF PassIsCoherent, Acknowledging
  <2>7. QED
    BY <1>4, <2>5, <2>6, StorageUnchanged DEF PutRecord, InboxInv
<1>5. CASE PutConflicts
  BY <1>5, StorageUnchanged
     DEF PutConflicts, InboxInv, InboxTypeOK, PassIsCoherent, Waiting, Acknowledging
<1>6. CASE ReadAndKeep
  <2>1. /\ pass.at = "read" /\ Current \in Ids
        /\ pass.todo \in SUBSET Ids /\ pass.todo # {}
    BY <1>6, InHand DEF ReadAndKeep, InboxInv, PassSteps
  <2>2. /\ pass' \in {Waiting} \cup [at : PassSteps, todo : (SUBSET Ids) \ {{}}]
        /\ pass'.at = "acknowledge" /\ pass'.todo = pass.todo
    BY <1>6, <2>1, Going DEF ReadAndKeep, PassSteps
  <2>3. InboxTypeOK'
    BY <1>6, <2>1, <2>2 DEF ReadAndKeep, InboxInv, InboxTypeOK
  <2>4. PassIsCoherent'
    BY <1>6, <2>1, <2>2 DEF ReadAndKeep, InboxInv, PassIsCoherent, Acknowledging, Current
  <2>5. StoredOrKept'
    BY <1>6 DEF ReadAndKeep, InboxInv, StoredOrKept, KeptEntry
  <2>6. QED
    BY <2>3, <2>4, <2>5 DEF InboxInv
<1>7. CASE BeginAcknowledge
  <2>1. /\ pass.at = "acknowledge" /\ Current \in Ids /\ Later \in SUBSET Ids
        /\ pass.todo \in SUBSET Ids /\ pass.todo # {}
        /\ Current \in kept /\ pass.todo \subseteq DOMAIN records
        /\ Later \subseteq pass.todo
    BY <1>7, InHand
       DEF BeginAcknowledge, InboxInv, PassSteps, PassIsCoherent, Acknowledging, Later
  <2>2. CASE Current \in DOMAIN ackJournal /\ ackJournal[Current] = "succeeded"
    <3>1. pass' = Go("read", Later) /\ ackJournal' = ackJournal
      BY <1>7, <2>2 DEF BeginAcknowledge
    <3>2. /\ pass' \in {Waiting} \cup [at : PassSteps, todo : (SUBSET Ids) \ {{}}]
          /\ pass'.at \in {"waiting", "read"}
          /\ pass'.at = "read" => pass'.todo = Later
      BY <2>1, <3>1, Going DEF PassSteps
    <3>3. InboxTypeOK'
      BY <1>7, <3>1, <3>2 DEF BeginAcknowledge, InboxInv, InboxTypeOK
    <3>4. PassIsCoherent'
      BY <1>7, <2>1, <3>2 DEF BeginAcknowledge, PassIsCoherent, Acknowledging
    <3>5. QED
      BY <1>7, <3>3, <3>4, StorageUnchanged DEF BeginAcknowledge, InboxInv
  <2>3. CASE ~(Current \in DOMAIN ackJournal /\ ackJournal[Current] = "succeeded")
    <3>1. PICK step \in {"complete", "finish", "delete"} :
            /\ pass' = Go(step, pass.todo)
            /\ step = "delete" => Undeleted(Current) # {}
            /\ step = "finish" => Undeleted(Current) = {}
      BY <1>7, <2>3 DEF BeginAcknowledge, Segments
    <3>2. /\ pass' \in {Waiting} \cup [at : PassSteps, todo : (SUBSET Ids) \ {{}}]
          /\ pass'.at = step /\ pass'.todo = pass.todo
      BY <2>1, <3>1, Going DEF PassSteps
    <3>3. /\ DOMAIN ackJournal' \subseteq Ids
          /\ \A id \in DOMAIN ackJournal' : ackJournal'[id] \in {"accepted", "succeeded"}
      BY <1>7, <2>1, <2>3 DEF BeginAcknowledge, With, InboxInv, InboxTypeOK
    <3>4. InboxTypeOK'
      BY <1>7, <3>2, <3>3 DEF BeginAcknowledge, InboxInv, InboxTypeOK
    <3>5. PassIsCoherent'
      BY <1>7, <2>1, <3>1, <3>2
         DEF BeginAcknowledge, PassIsCoherent, Acknowledging, Current, Undeleted
    <3>6. QED
      BY <1>7, <3>4, <3>5, StorageUnchanged DEF BeginAcknowledge, InboxInv
  <2>4. QED
    BY <2>2, <2>3
<1>8. CASE DeleteSegment
  <2>1. /\ pass.at = "delete" /\ Current \in kept
        /\ pass.todo \in SUBSET Ids /\ pass.todo # {}
        /\ pass.todo \subseteq DOMAIN records /\ Undeleted(Current) # {}
    BY <1>8, InHand DEF DeleteSegment, InboxInv, PassSteps, PassIsCoherent, Acknowledging
  <2>2. /\ pass' \in {Waiting} \cup [at : PassSteps, todo : (SUBSET Ids) \ {{}}]
        /\ pass'.at = "mark" /\ pass'.todo = pass.todo
    BY <1>8, <2>1, Going DEF DeleteSegment, PassSteps
  <2>3. StoredOrKept' /\ slots' \in [Indexes -> Entries \cup {Free}]
    <3>1. CASE slots' = slots
      BY <1>8, <3>1, StorageUnchanged DEF DeleteSegment, InboxInv, InboxTypeOK
    <3>2. CASE Deletable /\ slots' = [slots EXCEPT ![Segment[1]] = Free]
      BY <1>8, <3>2, DeletionIsSafe DEF DeleteSegment
    <3>3. QED
      BY <1>8, <3>1, <3>2 DEF DeleteSegment
  <2>4. InboxTypeOK'
    BY <1>8, <2>2, <2>3 DEF DeleteSegment, InboxInv, InboxTypeOK
  <2>5. PassIsCoherent'
    BY <1>8, <2>1, <2>2
       DEF DeleteSegment, PassIsCoherent, Acknowledging, Current, Undeleted
  <2>6. QED
    BY <2>3, <2>4, <2>5 DEF InboxInv
<1>9. CASE IndexReused
  BY <1>9, StorageUnchanged
     DEF IndexReused, InboxInv, InboxTypeOK, PassIsCoherent, Waiting, Acknowledging
<1>10. ASSUME NEW done \in BOOLEAN, DeleteFails(done)
       PROVE  InboxInv'
  <2>1. StoredOrKept' /\ slots' \in [Indexes -> Entries \cup {Free}]
    <3>1. CASE done
      BY <1>10, <3>1, DeletionIsSafe DEF DeleteFails
    <3>2. CASE ~done
      BY <1>10, <3>2, StorageUnchanged DEF DeleteFails, InboxInv, InboxTypeOK
    <3>3. QED
      BY <3>1, <3>2
  <2>2. InboxTypeOK'
    BY <1>10, <2>1 DEF DeleteFails, ModemFault, InboxInv, InboxTypeOK
  <2>3. PassIsCoherent'
    BY <1>10 DEF DeleteFails, PassIsCoherent, Waiting, Acknowledging
  <2>4. QED
    BY <2>1, <2>2, <2>3 DEF InboxInv
<1>11. CASE MarkDeleted
  <2>1. /\ pass.at = "mark" /\ Current \in kept /\ Current \in DOMAIN records
        /\ pass.todo \in SUBSET Ids /\ pass.todo # {}
        /\ pass.todo \subseteq DOMAIN records /\ Undeleted(Current) # {}
    BY <1>11, InHand DEF MarkDeleted, InboxInv, PassSteps, PassIsCoherent, Acknowledging
  <2>a. PICK id \in DOMAIN records : id = Current
    BY <2>1
  <2>b. PICK s \in id \ records[id].deleted : s = Segment
    BY <2>1, <2>a DEF Segment, Undeleted
  <2>2. id \in DOMAIN records /\ id = Current /\ s \in id \ records[id].deleted /\ s = Segment
    BY <2>a, <2>b
  <2>3. records[id] \in [deleted : SUBSET id, acknowledged : BOOLEAN]
    BY DEF InboxInv, InboxTypeOK
  <2>4. /\ DOMAIN records' = DOMAIN records
        /\ records'[id] = [records[id] EXCEPT !.deleted = @ \cup {s}]
        /\ \A other \in DOMAIN records : other # id => records'[other] = records[other]
    BY <1>11, <2>2 DEF MarkDeleted
  <2>5. /\ records'[id].deleted = records[id].deleted \cup {s}
        /\ records'[id].acknowledged = records[id].acknowledged
        /\ records'[id] \in [deleted : SUBSET id, acknowledged : BOOLEAN]
    BY <2>2, <2>3, <2>4
  <2>6. PICK step \in {"finish", "delete"} :
          /\ pass' = Go(step, pass.todo)
          /\ step = "finish" <=> id \ records[id].deleted = {s}
    BY <1>11, <2>2 DEF MarkDeleted, Undeleted
  <2>7. /\ pass' \in {Waiting} \cup [at : PassSteps, todo : (SUBSET Ids) \ {{}}]
        /\ pass'.at = step /\ pass'.todo = pass.todo
    BY <2>1, <2>6, Going DEF PassSteps
  <2>8. \A other \in DOMAIN records' :
          /\ other \in Ids
          /\ records'[other] \in [deleted : SUBSET other, acknowledged : BOOLEAN]
          /\ records'[other].acknowledged => records'[other].deleted = other
    <3>1. ASSUME NEW other \in DOMAIN records'
          PROVE  /\ other \in Ids
                 /\ records'[other] \in [deleted : SUBSET other, acknowledged : BOOLEAN]
                 /\ records'[other].acknowledged => records'[other].deleted = other
      <4>1. CASE other = id
        BY <2>2, <2>4, <2>5, <4>1 DEF InboxInv, InboxTypeOK
      <4>2. CASE other # id
        BY <2>4, <4>2 DEF InboxInv, InboxTypeOK
      <4>3. QED
        BY <4>1, <4>2
    <3>2. QED
      BY <3>1
  <2>9. InboxTypeOK'
    BY <1>11, <2>7, <2>8 DEF MarkDeleted, InboxInv, InboxTypeOK
  <2>10. Current' = id /\ Undeleted(Current)' = (id \ records[id].deleted) \ {s}
    BY <2>2, <2>5, <2>7 DEF Current, Undeleted
  <2>11. PassIsCoherent'
    BY <1>11, <2>1, <2>2, <2>4, <2>6, <2>7, <2>10 DEF MarkDeleted, PassIsCoherent, Acknowledging
  <2>12. QED
    BY <1>11, <2>9, <2>11, StorageUnchanged DEF MarkDeleted, InboxInv
<1>12. CASE Finish
  <2>1. /\ pass.at = "finish" /\ Current \in kept /\ Current \in DOMAIN records
        /\ pass.todo \in SUBSET Ids /\ pass.todo # {}
        /\ pass.todo \subseteq DOMAIN records /\ Undeleted(Current) = {}
    BY <1>12, InHand DEF Finish, InboxInv, PassSteps, PassIsCoherent, Acknowledging
  <2>2. /\ pass' \in {Waiting} \cup [at : PassSteps, todo : (SUBSET Ids) \ {{}}]
        /\ pass'.at = "complete" /\ pass'.todo = pass.todo
    BY <1>12, <2>1, Going DEF Finish, PassSteps
  <2>3. PICK id \in DOMAIN records : id = Current
    BY <2>1
  <2>4. /\ records[id] \in [deleted : SUBSET id, acknowledged : BOOLEAN]
        /\ records[id].deleted = id
    BY <2>1, <2>3 DEF InboxInv, InboxTypeOK, Undeleted
  <2>5. /\ DOMAIN records' = DOMAIN records
        /\ records'[id] = [records[id] EXCEPT !.acknowledged = TRUE]
        /\ \A other \in DOMAIN records : other # id => records'[other] = records[other]
    BY <1>12, <2>3 DEF Finish
  <2>6. /\ records'[id] \in [deleted : SUBSET id, acknowledged : BOOLEAN]
        /\ records'[id].deleted = id
    BY <2>4, <2>5
  <2>7. \A other \in DOMAIN records' :
          /\ other \in Ids
          /\ records'[other] \in [deleted : SUBSET other, acknowledged : BOOLEAN]
          /\ records'[other].acknowledged => records'[other].deleted = other
    BY <2>5, <2>6 DEF InboxInv, InboxTypeOK
  <2>8. InboxTypeOK'
    BY <1>12, <2>2, <2>7 DEF Finish, InboxInv, InboxTypeOK
  <2>9. PassIsCoherent'
    BY <1>12, <2>1, <2>2, <2>5 DEF Finish, PassIsCoherent, Acknowledging, Current
  <2>10. QED
    BY <1>12, <2>8, <2>9, StorageUnchanged DEF Finish, InboxInv
<1>13. CASE CompleteOperation
  <2>1. /\ pass.at = "complete" /\ Later \in SUBSET Ids
        /\ pass.todo \subseteq DOMAIN records /\ Later \subseteq pass.todo
    BY <1>13, InHand
       DEF CompleteOperation, InboxInv, PassSteps, PassIsCoherent, Acknowledging, Later
  <2>2. /\ pass' \in {Waiting} \cup [at : PassSteps, todo : (SUBSET Ids) \ {{}}]
        /\ pass'.at \in {"waiting", "read"}
        /\ pass'.at = "read" => pass'.todo = Later
    BY <1>13, <2>1, Going DEF CompleteOperation, PassSteps
  <2>3. InboxTypeOK'
    BY <1>13, <2>2 DEF CompleteOperation, InboxInv, InboxTypeOK
  <2>4. PassIsCoherent'
    BY <1>13, <2>1, <2>2 DEF CompleteOperation, PassIsCoherent, Acknowledging
  <2>5. QED
    BY <1>13, <2>3, <2>4, StorageUnchanged DEF CompleteOperation, InboxInv
<1>14. CASE AgentStops
  BY <1>14, StorageUnchanged
     DEF AgentStops, Restart, InboxInv, InboxTypeOK, PassIsCoherent, Waiting, Acknowledging
<1>15. CASE UNCHANGED inboxVars
  BY <1>15, StorageUnchanged DEF InboxInv, InboxTypeOK, PassIsCoherent, Current, Undeleted
<1>16. QED
  BY <1>1, <1>2, <1>3, <1>4, <1>5, <1>6, <1>7, <1>8, <1>9, <1>10, <1>11, <1>12, <1>13,
     <1>14, <1>15
     DEF InboxNext, CallStep

(* Whatever is stored, repeated, interrupted or answered twice, an entry   *)
(* leaves the SIM only when the application's database has it              *)
(* (deleteInboundSegment, for any storage and any messages).               *)
THEOREM NothingDeletedUnkept == InboxSpec => []OnlyKeptIsDeleted
<1>1. InboxInv => OnlyKeptIsDeleted
  BY DEF InboxInv, StoredOrKept, OnlyKeptIsDeleted
<1>2. InboxInit => InboxInv
  BY InboxInvInit
<1>3. InboxInv /\ [InboxNext]_inboxVars => InboxInv'
  BY InboxInvNext
<1>4. QED
  BY <1>1, <1>2, <1>3, PTL DEF InboxSpec
=============================================================================
