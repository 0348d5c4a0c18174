--------------------------- MODULE Notifications ---------------------------
(***************************************************************************)
(* Notification channels and the binding that creates one: a user starts a *)
(* binding, authorises it at the provider, a goroutine polls for that,     *)
(* sends a test message and stores the channel.  Users edit and delete     *)
(* channels while deliveries that read a channel earlier are on their way. *)
(*                                                                         *)
(* An attempt is its generation, which is also the id of its channel; id 0 *)
(* is a webhook channel of the user.  Generations are counted on over a    *)
(* restart: only their equality matters, and no attempt survives one.      *)
(***************************************************************************)
EXTENDS Naturals

CONSTANTS
  MaxGenerations,  \* bound: bindings started or cancelled
  MaxEdits,        \* bound: edits of settings
  MaxNotifyStarts, \* bound: restarts of simplusd
  NoChannel

ASSUME NotifyAssumption ==
  /\ MaxGenerations \in Nat /\ MaxEdits \in Nat /\ MaxNotifyStarts \in Nat
  /\ NoChannel \notin 0 .. MaxGenerations
  /\ NoChannel \notin {"never", "success", "failed"}

VARIABLES
  binding,     \* bindingController: generation, state
  attempt,     \* what the goroutine of a generation is doing
  authorised,  \* generations whose poll was answered with credentials
  cancelled,   \* generations that a user was told are cancelled
  channels,    \* the two channel tables: the last delivery's status by id
  edit,        \* Update between its read and its write
  delivery,    \* deliver between the listing and the record
  recorded,    \* history: what the latest delivery of each channel recorded
  edits,
  notifyStarts

notifyVars == <<binding, attempt, authorised, cancelled, channels, edit,
                delivery, recorded, edits, notifyStarts>>
channelVars == <<channels, edit, delivery, recorded, edits, notifyStarts>>

Generations == 1 .. MaxGenerations
ChannelIds == 0 .. MaxGenerations
Statuses == {"never", "success", "failed"}
NoEdit == [channel |-> NoChannel]

NotifyTypeOK ==
  /\ binding \in [generation : ChannelIds,
                  state : {"idle", "waiting", "testing", "succeeded", "failed",
                           "expired", "cancelled"}]
  /\ attempt \in [Generations -> {"none", "begin", "poll", "send", "store",
                                  "finish", "gone"}]
  /\ authorised \subseteq Generations /\ cancelled \subseteq Generations
  /\ channels \in [ChannelIds -> Statuses \cup {NoChannel}]
  /\ recorded \in [ChannelIds -> Statuses]
  /\ edit = NoEdit \/ edit \in [channel : ChannelIds, item : Statuses]
  /\ delivery \subseteq ChannelIds
  /\ edits \in 0 .. MaxEdits /\ notifyStarts \in 0 .. MaxNotifyStarts

NotifyInit ==
  /\ binding = [generation |-> 0, state |-> "idle"]
  /\ attempt = [g \in Generations |-> "none"]
  /\ authorised = {} /\ cancelled = {}
  /\ channels = [id \in ChannelIds |->
                   IF id = 0 THEN "never" ELSE NoChannel]
  /\ edit = NoEdit /\ delivery = {}
  /\ recorded = [id \in ChannelIds |-> "never"]
  /\ edits = 0 /\ notifyStarts = 0

-----------------------------------------------------------------------------
(* The binding.                                                            *)

Goes(g, where) == attempt' = [attempt EXCEPT ![g] = where]
Owns(g, state) == g = binding.generation /\ binding.state = state

(* finishBindingFailure: only the current generation changes the state.    *)
BindingFails(g, state) ==
  /\ Goes(g, "gone")
  /\ binding' = IF g = binding.generation
                  THEN [binding EXCEPT !.state = state] ELSE binding
  /\ UNCHANGED <<authorised, cancelled, channelVars>>

Started == [generation |-> binding.generation + 1, state |-> "waiting"]

StartFeishuBinding ==
  /\ binding.generation < MaxGenerations
  /\ binding.state \notin {"waiting", "testing"}
  /\ binding' = Started
  /\ Goes(Started.generation, "begin")
  /\ UNCHANGED <<authorised, cancelled, channelVars>>

Begun(g) ==
  /\ attempt[g] = "begin"
  /\ Goes(g, IF Owns(g, "waiting") THEN "poll" ELSE "gone")
  /\ UNCHANGED <<binding, authorised, cancelled, channelVars>>

(* Only a waiting binding is cancelled: one whose test message is on its   *)
(* way is not.                                                             *)
CancelFeishuBinding ==
  /\ binding.state = "waiting" /\ binding.generation < MaxGenerations
  /\ binding' = [generation |-> binding.generation + 1, state |-> "cancelled"]
  /\ cancelled' = cancelled \cup {binding.generation}
  /\ UNCHANGED <<attempt, authorised, channelVars>>

(* The poll's answer is taken only by the attempt that still waits.        *)
MutantClaims(g) == binding.state = "waiting"
Claims(g) == Owns(g, "waiting")

Polled(g) ==
  /\ attempt[g] = "poll"
  /\ authorised' = authorised \cup {g}
  /\ IF Claims(g)
       THEN /\ binding' = [binding EXCEPT !.state = "testing"]
            /\ Goes(g, "send")
       ELSE /\ Goes(g, "gone") /\ UNCHANGED binding
  /\ UNCHANGED <<cancelled, channelVars>>

AttemptFails(g) ==
  \/ attempt[g] \in {"begin", "send", "store"} /\ BindingFails(g, "failed")
  \/ attempt[g] = "poll" /\ BindingFails(g, "failed")
  \/ attempt[g] = "poll" /\ BindingFails(g, "expired")

TestSent(g) ==
  /\ attempt[g] = "send"
  /\ Goes(g, IF Owns(g, "testing") THEN "store" ELSE "gone")
  /\ UNCHANGED <<binding, authorised, cancelled, channelVars>>

(* UpsertNotificationChannel with a new id, without the lock.              *)
BindingStored(g) ==
  /\ attempt[g] = "store"
  /\ Goes(g, "finish")
  /\ channels' = [channels EXCEPT ![g] = "success"]
  /\ recorded' = [recorded EXCEPT ![g] = "success"]
  /\ UNCHANGED <<binding, authorised, cancelled, edit, delivery, edits, notifyStarts>>

BindingFinishes(g) ==
  /\ attempt[g] = "finish"
  /\ Goes(g, "gone")
  /\ IF Owns(g, "testing")
       THEN /\ binding' = [binding EXCEPT !.state = "succeeded"]
            /\ UNCHANGED channels
       ELSE /\ channels' = [channels EXCEPT ![g] = NoChannel]
            /\ UNCHANGED binding
  /\ UNCHANGED <<authorised, cancelled, edit, delivery, recorded, edits, notifyStarts>>

-----------------------------------------------------------------------------
(* Channels, without their settings: one connection per database makes a   *)
(* statement atomic, but nothing holds a channel between a read and the    *)
(* write that follows it.                                                  *)

bindingVars == <<binding, attempt, authorised, cancelled>>

EditReads(id) ==
  /\ edit = NoEdit /\ edits < MaxEdits /\ channels[id] # NoChannel
  /\ edit' = [channel |-> id, item |-> channels[id]]
  /\ edits' = edits + 1
  /\ UNCHANGED <<bindingVars, channels, delivery, recorded, notifyStarts>>

(* INSERT .. ON CONFLICT: an existing row keeps its delivery columns, and  *)
(* a row that was deleted meanwhile comes back as it was read.             *)
MutantUpserted(id, item) == item
Upserted(id, item) == IF channels[id] = NoChannel THEN item ELSE channels[id]

EditWrites ==
  /\ edit # NoEdit /\ edit' = NoEdit
  /\ channels' = [channels EXCEPT ![edit.channel] = Upserted(edit.channel, edit.item)]
  /\ recorded' = [recorded EXCEPT ![edit.channel] =
                    IF channels[edit.channel] = NoChannel THEN edit.item ELSE @]
  /\ UNCHANGED <<bindingVars, delivery, edits, notifyStarts>>

EditFails ==
  /\ edit # NoEdit /\ edit' = NoEdit
  /\ UNCHANGED <<bindingVars, channels, delivery, recorded, edits, notifyStarts>>

DeleteChannel(id) ==
  /\ channels[id] # NoChannel
  /\ channels' = [channels EXCEPT ![id] = NoChannel]
  /\ UNCHANGED <<bindingVars, edit, delivery, recorded, edits, notifyStarts>>

(* notify lists the channels once and delivers to one after the other.     *)
Notify ==
  /\ delivery = {}
  /\ delivery' = {id \in ChannelIds : channels[id] # NoChannel}
  /\ UNCHANGED <<bindingVars, channels, edit, recorded, edits, notifyStarts>>

(* RecordNotificationDelivery changes no row once the channel is deleted;  *)
(* a delivery that fails does not keep the next channel from its turn.     *)
DeliveryEnds(id, result) ==
  /\ id \in delivery /\ delivery' = delivery \ {id}
  /\ IF channels[id] = NoChannel
       THEN UNCHANGED <<channels, recorded>>
       ELSE /\ channels' = [channels EXCEPT ![id] = result]
            /\ recorded' = [recorded EXCEPT ![id] = result]
  /\ UNCHANGED <<bindingVars, edit, edits, notifyStarts>>

(* simplusd ends: the binding, its goroutines and open requests are gone.  *)
NotifyRestarts ==
  /\ notifyStarts < MaxNotifyStarts /\ notifyStarts' = notifyStarts + 1
  /\ binding' = [binding EXCEPT !.state = "idle"]
  /\ attempt' = [g \in Generations |-> IF attempt[g] = "none" THEN "none" ELSE "gone"]
  /\ edit' = NoEdit /\ delivery' = {}
  /\ UNCHANGED <<authorised, cancelled, channels, recorded, edits>>

NotifyNext ==
  \/ StartFeishuBinding \/ CancelFeishuBinding
  \/ \E g \in Generations :
       Begun(g) \/ Polled(g) \/ AttemptFails(g) \/ TestSent(g)
         \/ BindingStored(g) \/ BindingFinishes(g)
  \/ \E id \in ChannelIds :
       \/ EditReads(id) \/ DeleteChannel(id)
       \/ \E result \in {"success", "failed"} : DeliveryEnds(id, result)
  \/ EditWrites \/ EditFails \/ Notify \/ NotifyRestarts

NotifySpec == NotifyInit /\ [][NotifyNext]_notifyVars

-----------------------------------------------------------------------------
(* A binding that is shown as active is attended by the goroutine of its   *)
(* generation: StartFeishuBinding, which refuses while one is active, is   *)
(* not refused for ever after a cancelled attempt answered late.           *)
ActiveIsAttended ==
  binding.state \in {"waiting", "testing"} =>
    attempt[binding.generation] \in {"begin", "poll", "send", "store", "finish"}

(* A channel of a binding exists only if the user authorised that attempt  *)
(* and was not told that it is cancelled.                                  *)
ChannelsAreAuthorised ==
  \A g \in Generations :
    channels[g] # NoChannel => g \in authorised \ cancelled

BindingIsSafe == NotifyTypeOK /\ ActiveIsAttended /\ ChannelsAreAuthorised

(* What a channel shows of its latest delivery is what that delivery       *)
(* recorded: an edit that read the channel before it does not undo it.     *)
DeliveriesAreKept ==
  \A id \in ChannelIds :
    channels[id] # NoChannel => channels[id] = recorded[id]
=============================================================================
