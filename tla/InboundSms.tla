----------------------------- MODULE InboundSms -----------------------------
(***************************************************************************)
(* Receiving text messages on one host-VoWiFi Line, end to end.            *)
(*                                                                         *)
(*  - the network (external) delivers each SMS-DELIVER until it gets the   *)
(*    RP-ACK for it, and may repeat one that is already acknowledged;      *)
(*  - the IMS worker keeps what it received in memory until the            *)
(*    application acknowledges it, and only then sends the RP-ACK;         *)
(*  - simplusd's coordinator runs one pass after another: list, then read, *)
(*    persist and acknowledge one message at a time, oldest first, then    *)
(*    announce what the pass persisted;                                    *)
(*  - the message store spools the segments of long messages, inserts a    *)
(*    row and its unread marker in one transaction, and clears markers up  *)
(*    to the boundary of a page a browser has shown.                       *)
(*                                                                         *)
(* A delivery is one SMS-DELIVER TPDU; its message id is a digest of it,   *)
(* so a repeated delivery has the same id.  A row is named by the delivery *)
(* that founded it: a single segment, or the first stored segment of a     *)
(* group.  All segments are within one assembly window of each other and   *)
(* younger than the spool's retention.                                     *)
(***************************************************************************)
EXTENDS Naturals, FiniteSets, Sequences

CONSTANTS
  Deliveries,   \* SMS-DELIVER TPDUs
  MessageOf,    \* the message a delivery is a segment of
  PartOf,       \* its part number
  TotalOf,      \* number of segments of a message
  ReferenceOf,  \* sender, encoding and concatenation reference of a message
  SenderOf,     \* the conversation a message belongs to
  AgeOf,        \* rank of a delivery's service-centre timestamp
  Unsupported,  \* kept by the worker and refused by netd (SmsCodec!KeptIsCarried)
  None,         \* no delivery
  MaxInbox,     \* 256 pending messages of a session
  MaxRepeats,   \* bound: repeated deliveries
  MaxFaults     \* bound: faults and crashes together

ASSUME ConstantsAssumption ==
  /\ AgeOf \in [Deliveries -> Nat]
  /\ \A d, e \in Deliveries : AgeOf[d] = AgeOf[e] => d = e
  /\ \A d \in Deliveries : /\ TotalOf[MessageOf[d]] \in Nat \ {0}
                           /\ PartOf[d] \in 1 .. TotalOf[MessageOf[d]]
  /\ \A d, e \in Deliveries :
       MessageOf[d] = MessageOf[e] /\ PartOf[d] = PartOf[e] => d = e
  /\ \A d, e \in Deliveries :
       ReferenceOf[MessageOf[d]] = ReferenceOf[MessageOf[e]] =>
         TotalOf[MessageOf[d]] = TotalOf[MessageOf[e]]
  /\ Unsupported \subseteq Deliveries
  /\ None \notin Deliveries
  /\ MaxInbox \in Nat \ {0}
  /\ MaxRepeats \in Nat /\ MaxFaults \in Nat

VARIABLES
  offered,       \* deliveries the network sent at least once
  settled,       \* deliveries whose RP-ACK the network received
  repeats,       \* repeated deliveries so far
  pending,       \* pendingSMS
  acknowledged,  \* acknowledgedSMS
  spool,         \* sms_inbound_fragments: the group of a stored segment
  stored,        \* rows of sms_messages
  unread,        \* sms_message_unread: the unread_id of a row, 0 if none
  lastUnread,    \* the largest unread_id ever given
  phase,         \* where the coordinator's cycle is
  todo,          \* listed messages this pass has not finished
  item,          \* the message it is working on
  received,      \* rows this pass inserted and has not announced
  token,         \* read-through token of a page a browser shows
  created,       \* how often a row was inserted
  deleted,       \* how often a user deleted it
  announced,     \* how often it was announced
  faults,        \* failed or unanswered calls, replaced workers
  crashes        \* restarts of simplusd, failed announcements

networkVars == << offered, settled, repeats >>
workerVars  == << pending, acknowledged >>
storeVars   == << spool, stored, unread, lastUnread, created >>
passVars    == << phase, todo, item, received >>
userVars    == << token, deleted >>
boundVars   == << faults, crashes >>

vars == << networkVars, workerVars, storeVars, passVars, userVars, announced,
           boundVars >>

NoToken == [unread |-> 0, message |-> None, shown |-> {}]

Total(d)     == TotalOf[MessageOf[d]]
Reference(d) == ReferenceOf[MessageOf[d]]
Sender(d)    == SenderOf[MessageOf[d]]

TypeOK ==
  /\ offered \subseteq Deliveries
  /\ settled \subseteq offered
  /\ repeats \in 0 .. MaxRepeats
  /\ pending \subseteq offered
  /\ acknowledged \subseteq offered
  /\ spool \in [Deliveries -> Deliveries \cup {None}]
  /\ stored \subseteq Deliveries
  /\ lastUnread \in Nat
  /\ unread \in [Deliveries -> 0 .. lastUnread]
  /\ phase \in {"idle", "read", "store", "create", "ack", "announce"}
  /\ todo \subseteq Deliveries
  /\ item \in Deliveries \cup {None}
  /\ received \in Seq(Deliveries)
  /\ token.unread \in 0 .. lastUnread
  /\ token.message \in Deliveries \cup {None}
  /\ token.shown \subseteq Deliveries \X (1 .. lastUnread)
  /\ created \in [Deliveries -> Nat]
  /\ deleted \in [Deliveries -> Nat]
  /\ announced \in [Deliveries -> Nat]
  /\ faults \in 0 .. MaxFaults
  /\ crashes \in 0 .. MaxFaults

Init ==
  /\ offered = {} /\ settled = {} /\ repeats = 0
  /\ pending = {} /\ acknowledged = {}
  /\ spool = [d \in Deliveries |-> None]
  /\ stored = {}
  /\ unread = [d \in Deliveries |-> 0]
  /\ lastUnread = 0
  /\ phase = "idle" /\ todo = {} /\ item = None /\ received = << >>
  /\ token = NoToken
  /\ created = [d \in Deliveries |-> 0]
  /\ deleted = [d \in Deliveries |-> 0]
  /\ announced = [d \in Deliveries |-> 0]
  /\ faults = 0 /\ crashes = 0

Fault == faults + crashes < MaxFaults /\ faults' = faults + 1
Crash == faults + crashes < MaxFaults /\ crashes' = crashes + 1

(* Operators named Mutant... are what a plausible bug would make of the    *)
(* operator that follows them; nothing of the specification uses them.     *)

-----------------------------------------------------------------------------
(* The network and the IMS worker                                          *)

MutantReceive(d) ==
  IF d \in pending \/ Cardinality(pending) >= MaxInbox
    THEN UNCHANGED workerVars
    ELSE /\ pending' = pending \cup {d}
         /\ UNCHANGED acknowledged

(* handleIncomingRequestLocked answers SIP 200, then queueInboundSMSLocked *)
(* keeps the message unless the inbox is full.  A message that comes again *)
(* after its acknowledgement waits for another one.                        *)
Receive(d) ==
  IF d \in pending \/ Cardinality(pending) >= MaxInbox
    THEN UNCHANGED workerVars
    ELSE /\ pending' = pending \cup {d}
         /\ acknowledged' = acknowledged \ {d}

NetworkDelivers(d) ==
  /\ d \notin offered
  /\ offered' = offered \cup {d}
  /\ Receive(d)
  /\ UNCHANGED << settled, repeats, storeVars, passVars, userVars, announced, boundVars >>

(* Unacknowledged deliveries are repeated, acknowledged ones may be late.  *)
NetworkRepeats(d) ==
  /\ d \in offered
  /\ repeats < MaxRepeats
  /\ repeats' = repeats + 1
  /\ Receive(d)
  /\ UNCHANGED << offered, settled, storeVars, passVars, userVars, announced, boundVars >>

(* The worker process or its session is replaced.                          *)
WorkerRestarts ==
  /\ Fault
  /\ pending' = {}
  /\ acknowledged' = {}
  /\ UNCHANGED << networkVars, storeVars, passVars, userVars, announced, crashes >>

-----------------------------------------------------------------------------
(* The message store                                                       *)

Members(g) == {d \in Deliveries : spool[d] = g}
Parts(g)   == {PartOf[d] : d \in Members(g)}

(* Groups with the delivery's reference where its part is still missing.   *)
OpenGroups(d) ==
  {g \in Deliveries : /\ Members(g) # {}
                      /\ \A e \in Members(g) : Reference(e) = Reference(d)
                      /\ PartOf[d] \notin Parts(g)}

(* More than one group could take the segment: nothing is stored.          *)
Ambiguous(d) == spool[d] = None /\ Cardinality(OpenGroups(d)) > 1

GroupFor(d) ==
  IF spool[d] # None THEN spool[d]
  ELSE IF OpenGroups(d) = {} THEN d
  ELSE CHOOSE g \in OpenGroups(d) : TRUE

Complete(g, d) == Parts(g) \cup {PartOf[d]} = 1 .. Total(d)

Markers == {unread[d] : d \in Deliveries}

MutantNextUnread == 1 + CHOOSE n \in Markers : \A m \in Markers : m <= n

(* unread_id is AUTOINCREMENT: an id is never given twice, even after the  *)
(* marker that had it is gone.                                             *)
NextUnread == lastUnread + 1

-----------------------------------------------------------------------------
(* SyncCoordinator.runCycle, SyncInbound, syncInboundLine                  *)

MutantEndPass ==
  /\ phase' = "idle"
  /\ received' = << >>
  /\ todo' = {}
  /\ item' = None

(* A pass ends, with an error or not; whatever it inserted is announced.   *)
EndPass ==
  /\ phase' = IF received = << >> THEN "idle" ELSE "announce"
  /\ todo' = {}
  /\ item' = None
  /\ UNCHANGED received

StartPass ==
  /\ phase = "idle"
  /\ phase' = "read"
  /\ todo' = pending
  /\ UNCHANGED << item, received, networkVars, workerVars, storeVars, userVars,
                  announced, boundVars >>

Oldest(d) == d \in todo /\ \A e \in todo : AgeOf[d] <= AgeOf[e]

(* ReadSMS and the checks on what it returned; any error ends the pass.    *)
ReadNext(d) ==
  /\ phase = "read"
  /\ Oldest(d)
  /\ IF d \in pending \ Unsupported
       THEN /\ phase' = IF Total(d) = 1 THEN "create" ELSE "store"
            /\ todo' = todo \ {d}
            /\ item' = d
            /\ UNCHANGED received
       ELSE EndPass
  /\ UNCHANGED << networkVars, workerVars, storeVars, userVars, announced, boundVars >>

MutantAfterStore(g, d) == "ack"

AfterStore(g, d) == IF Complete(g, d) THEN "create" ELSE "ack"

(* StoreInboundSMSFragment; a segment that is already stored is replayed.  *)
StoreFragment ==
  /\ phase = "store"
  /\ IF Ambiguous(item)
       THEN EndPass /\ UNCHANGED spool
       ELSE /\ spool' = [spool EXCEPT ![item] = GroupFor(item)]
            /\ phase' = AfterStore(GroupFor(item), item)
            /\ UNCHANGED << todo, item, received >>
  /\ UNCHANGED << networkVars, workerVars, stored, unread, lastUnread, created,
                  userVars, announced, boundVars >>

Founder == IF Total(item) = 1 THEN item ELSE spool[item]

MutantReplayed(g) == FALSE

Replayed(g) == g \in stored

(* CreateInboundSMS: one transaction for the row and its unread marker; a  *)
(* row that is there already is left as it is and not announced again.     *)
CreateRow ==
  /\ phase = "create"
  /\ IF Replayed(Founder)
       THEN UNCHANGED << stored, unread, lastUnread, created, received >>
       ELSE /\ stored' = stored \cup {Founder}
            /\ unread' = [unread EXCEPT ![Founder] = NextUnread]
            /\ lastUnread' = NextUnread
            /\ created' = [created EXCEPT ![Founder] = @ + 1]
            /\ received' = Append(received, Founder)
  /\ phase' = "ack"
  /\ UNCHANGED << todo, item, spool, networkVars, workerVars, userVars,
                  announced, boundVars >>

(* AcknowledgeSMS for a message the worker no longer has.                  *)
AckUnknown ==
  /\ phase = "ack"
  /\ item \notin acknowledged \cup pending
  /\ EndPass
  /\ UNCHANGED << networkVars, workerVars, storeVars, userVars, announced, boundVars >>

(* The RP-ACK in a SIP MESSAGE of its own, with the one repetition without *)
(* In-Reply-To after a 488; a 2xx response ends the delivery.  An operation *)
(* that succeeded before is answered without the network.                  *)
AckExecuted ==
  /\ phase = "ack"
  /\ item \in pending \cup acknowledged
  /\ IF item \in acknowledged
       THEN UNCHANGED << settled, workerVars >>
       ELSE /\ settled' = settled \cup {item}
            /\ pending' = pending \ {item}
            /\ acknowledged' = acknowledged \cup {item}
  /\ UNCHANGED << offered, repeats >>

AckSucceeds ==
  /\ AckExecuted
  /\ phase' = "read"
  /\ item' = None
  /\ UNCHANGED << todo, received, storeVars, userVars, announced, boundVars >>

(* The worker's answer is lost on its way through simplus-netd.            *)
AckAnswerLost ==
  /\ AckExecuted
  /\ Fault
  /\ EndPass
  /\ UNCHANGED << storeVars, userVars, announced, crashes >>

(* The network takes the RP-ACK and its SIP response is lost.              *)
AckResponseLost ==
  /\ phase = "ack"
  /\ item \in pending \ acknowledged
  /\ Fault
  /\ settled' = settled \cup {item}
  /\ EndPass
  /\ UNCHANGED << offered, repeats, workerVars, storeVars, userVars, announced, crashes >>

(* A list, a read, a transaction or an acknowledgement fails without any   *)
(* effect, or the 20 s of a pass are over.                                 *)
PassFails ==
  /\ phase \in {"read", "store", "create", "ack"}
  /\ Fault
  /\ EndPass
  /\ UNCHANGED << networkVars, workerVars, storeVars, userVars, announced, crashes >>

PassDone ==
  /\ phase = "read"
  /\ todo = {}
  /\ EndPass
  /\ UNCHANGED << networkVars, workerVars, storeVars, userVars, announced, boundVars >>

Shorten ==
  /\ received' = Tail(received)
  /\ phase' = IF Len(received) = 1 THEN "idle" ELSE "announce"
  /\ UNCHANGED << todo, item >>

(* NotifyReceivedSMS: one attempt for each row, in the order of insertion. *)
Announce ==
  /\ phase = "announce"
  /\ announced' = [announced EXCEPT ![Head(received)] = @ + 1]
  /\ Shorten
  /\ UNCHANGED << networkVars, workerVars, storeVars, userVars, boundVars >>

AnnounceFails ==
  /\ phase = "announce"
  /\ Crash
  /\ Shorten
  /\ UNCHANGED << networkVars, workerVars, storeVars, userVars, announced, faults >>

(* simplusd stops; the worker and the browser go on.                       *)
DaemonRestarts ==
  /\ Crash
  /\ phase' = "idle"
  /\ todo' = {}
  /\ item' = None
  /\ received' = << >>
  /\ UNCHANGED << networkVars, workerVars, storeVars, userVars, announced, faults >>

-----------------------------------------------------------------------------
(* The user                                                                *)

MarkersOf(g) == {d \in Deliveries : unread[d] # 0 /\ Sender(d) = Sender(g)}

(* ListSMSPageWithUnread: rows and the newest marker from one snapshot.    *)
ShowPage(g) ==
  /\ g \in MarkersOf(g)
  /\ \A d \in MarkersOf(g) : unread[d] <= unread[g]
  /\ token' = [unread  |-> unread[g], message |-> g,
               shown |-> {<< d, unread[d] >> : d \in MarkersOf(g)}]
  /\ UNCHANGED << deleted, networkVars, workerVars, storeVars, passVars,
                  announced, boundVars >>

MutantReadThrough(d) == Sender(d) = Sender(token.message)

(* The markers a read boundary clears.                                     *)
ReadThrough(d) == Sender(d) = Sender(token.message) /\ unread[d] <= token.unread

(* MarkSMSConversationRead: the boundary's row and its very marker must    *)
(* still be there.                                                         *)
MarkRead ==
  /\ token.message \in stored
  /\ unread[token.message] = token.unread
  /\ unread' = [d \in Deliveries |-> IF ReadThrough(d) THEN 0 ELSE unread[d]]
  /\ UNCHANGED << spool, stored, lastUnread, created, token, deleted,
                  networkVars, workerVars, passVars, announced, boundVars >>

(* DeleteSMS; the marker goes with the row, the spooled segments stay.     *)
DeleteMessage(g) ==
  /\ g \in stored
  /\ stored' = stored \ {g}
  /\ unread' = [unread EXCEPT ![g] = 0]
  /\ deleted' = [deleted EXCEPT ![g] = @ + 1]
  /\ UNCHANGED << spool, lastUnread, created, token, networkVars, workerVars,
                  passVars, announced, boundVars >>

-----------------------------------------------------------------------------
Next ==
  \/ \E d \in Deliveries :
       \/ NetworkDelivers(d) \/ NetworkRepeats(d)
       \/ ReadNext(d) \/ ShowPage(d) \/ DeleteMessage(d)
  \/ StartPass \/ StoreFragment \/ CreateRow
  \/ AckUnknown \/ AckSucceeds \/ AckAnswerLost \/ AckResponseLost
  \/ PassFails \/ PassDone \/ Announce \/ AnnounceFails
  \/ MarkRead \/ WorkerRestarts \/ DaemonRestarts

Spec == Init /\ [][Next]_vars

(* The coordinator runs its cycles for ever and every call in them has a   *)
(* timeout; nothing makes the network deliver or a user act.               *)
PassStep ==
  \/ StartPass \/ (\E d \in Deliveries : ReadNext(d)) \/ StoreFragment \/ CreateRow
  \/ AckUnknown \/ AckSucceeds \/ PassDone \/ Announce

FairSpec == Spec /\ WF_vars(PassStep)

-----------------------------------------------------------------------------
(* Safety                                                                  *)

(* The network forgets a message only when simplus has it: a single        *)
(* segment whose RP-ACK the network received was inserted as a row; a long *)
(* message's is spooled, and a complete group all of whose segments are    *)
(* acknowledged was inserted, whatever crashed or was lost in between      *)
(* (persistAndAcknowledgeInbound, StoreInboundSMSFragment).                *)
SettledIsKept ==
  \A d \in settled :
    IF Total(d) = 1 THEN created[d] > 0
    ELSE /\ spool[d] # None
         /\ /\ Parts(spool[d]) = 1 .. Total(d)
            /\ Members(spool[d]) \subseteq settled
            => created[spool[d]] > 0

(* Every message that came in is announced, also when a later message, an  *)
(* acknowledgement or a timeout ends its pass with an error; only a crash  *)
(* of simplusd or a failing channel loses an announcement (runCycle).      *)
ArrivalsAreAnnounced ==
  phase = "idle" /\ crashes = 0 => announced = created

(* Repeated deliveries, lost acknowledgements and restarts announce no     *)
(* message twice; it takes a user's DELETE to make one arrive again        *)
(* (CreateInboundSMS).                                                     *)
AnnouncedOnce ==
  \A d \in Deliveries : announced[d] <= 1 + deleted[d]

(* The markers a read token clears were there when its page was shown: a   *)
(* message that came in later, or came again after a DELETE, stays unread  *)
(* (MarkSMSConversationRead, AUTOINCREMENT).                               *)
OnlyShownIsRead ==
  [][\A d \in Deliveries :
       unread[d] # 0 /\ unread'[d] = 0 /\ d \in stored' =>
         << d, unread[d] >> \in token.shown]_vars

-----------------------------------------------------------------------------
(* Liveness                                                                *)

(* A message that no pass can get past.                                    *)
Stuck(d) == d \in pending /\ (d \in Unsupported \/ (Total(d) > 1 /\ Ambiguous(d)))

(* Every message the worker holds is persisted and acknowledged, unless it *)
(* is stuck or an older one is.                                            *)
InboxDrains ==
  \A d \in Deliveries :
    d \in pending ~>
      d \notin pending \/ \E e \in Deliveries : Stuck(e) /\ AgeOf[e] <= AgeOf[d]

(* docs/architecture.md:291, "a single segment is persisted, then          *)
(* acknowledged": every one is, whatever else is in the inbox.             *)
SinglesAreAcknowledged ==
  \A d \in Deliveries : Total(d) = 1 /\ d \in pending ~> d \notin pending
=============================================================================
