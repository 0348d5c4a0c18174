---------------------------- MODULE HardwareNews ----------------------------
(***************************************************************************)
(* How a browser learns that the hardware changed: the agent's monitor     *)
(* counts generations of its snapshot, the coordinator in simplusd watches *)
(* them with long polls, the hub hands each open event stream at most one  *)
(* pending event, and the browser reads the inventory again over HTTP,     *)
(* which makes the agent scan.                                             *)
(*                                                                         *)
(* A hardware state is a number; an event is the set of its topics, a      *)
(* resync has all of them.  Attention hints, heartbeats, event ids and the *)
(* wrap of a generation at 2^40 are left out.                              *)
(***************************************************************************)
EXTENDS Naturals

CONSTANTS
  Browsers,
  NoView,         \* the browser shows no inventory, or an error
  MaxHardware,    \* bound: changes of the hardware
  MaxAgentStarts, \* bound: restarts of the agent
  MaxNewsFaults   \* bound: failed watches and restarts of simplusd

NewsAssumption ==
  /\ MaxHardware \in Nat /\ MaxAgentStarts \in Nat /\ MaxNewsFaults \in Nat
  /\ NoView \notin Nat

ASSUME NewsAssumption

VARIABLES
  hardware,   \* external: what is plugged in
  agentUp,
  monitor,    \* Monitor: instanceID, snapshot.Generation, snapshot content
  watch,      \* AgentChangeCoordinator.Run: where it is, what it knows, the
              \* generation whose channel a poll waits for
  open,       \* browsers with a subscription
  queue,      \* the subscription's channel of one event, {} if empty
  view,       \* hardware state that the browser shows
  unannounced, \* a change that the coordinator took in without publishing
  newsFaults

newsVars == <<hardware, agentUp, monitor, watch, open, queue, view,
              unannounced, newsFaults>>
monitorVars == <<hardware, agentUp, monitor>>
browserVars == <<open, queue, view>>

Topics == {"hardware", "messages"}
Versions == [instance : 0 .. MaxAgentStarts + 1, generation : 0 .. MaxHardware + 1]
Watching == [at : {"snapshot", "ask", "back off"}, known : Versions]
Polls == [at : {"poll"}, known : Versions, channel : Versions]
Unknown == [instance |-> 0, generation |-> 0]
Shown == [instance |-> monitor.instance, generation |-> monitor.generation]

NewsTypeOK ==
  /\ hardware \in 0 .. MaxHardware /\ agentUp \in BOOLEAN
  /\ monitor \in [instance : 1 .. MaxAgentStarts + 1,
                  generation : 1 .. MaxHardware + 1, content : 0 .. MaxHardware]
  /\ watch \in Watching \cup Polls
  /\ open \subseteq Browsers /\ queue \in [Browsers -> SUBSET Topics]
  /\ view \in [Browsers -> 0 .. MaxHardware \cup {NoView}]
  /\ unannounced \in BOOLEAN /\ newsFaults \in 0 .. MaxNewsFaults

NewsInit ==
  /\ hardware = 0 /\ agentUp = TRUE
  /\ monitor = [instance |-> 1, generation |-> 1, content |-> 0]
  /\ watch = [at |-> "snapshot", known |-> Unknown]
  /\ open = {} /\ queue = [b \in Browsers |-> {}]
  /\ view = [b \in Browsers |-> NoView]
  /\ unannounced = FALSE /\ newsFaults = 0

-----------------------------------------------------------------------------
(* The agent.                                                              *)

Plug ==
  /\ hardware < MaxHardware /\ hardware' = hardware + 1
  /\ UNCHANGED <<agentUp, monitor, watch, browserVars, unannounced, newsFaults>>

(* Monitor.Refresh: a new generation if the content differs; the channel   *)
(* that polls wait for is closed and replaced with the generation.         *)
Refreshed ==
  IF monitor.content = hardware THEN monitor
    ELSE [monitor EXCEPT !.generation = @ + 1, !.content = hardware]

Refresh ==
  /\ agentUp /\ monitor.content # hardware
  /\ monitor' = Refreshed
  /\ UNCHANGED <<hardware, agentUp, watch, browserVars, unannounced, newsFaults>>

AgentStops ==
  /\ agentUp /\ monitor.instance <= MaxAgentStarts
  /\ agentUp' = FALSE
  /\ UNCHANGED <<hardware, monitor, watch, browserVars, unannounced, newsFaults>>

AgentStarts ==
  /\ ~agentUp /\ agentUp' = TRUE
  /\ monitor' = [instance |-> monitor.instance + 1, generation |-> 1,
                 content |-> hardware]
  /\ UNCHANGED <<hardware, watch, browserVars, unannounced, newsFaults>>

-----------------------------------------------------------------------------
(* Hub.Publish: an event for every subscription; one that still has an     *)
(* event gets a resync in its place.                                       *)
MutantDeliver(pending, topics) == IF pending = {} THEN topics ELSE pending
Deliver(pending, topics) == IF pending = {} THEN topics ELSE Topics

Publish(topics) ==
  queue' = [b \in Browsers |->
              IF b \in open THEN Deliver(queue[b], topics) ELSE queue[b]]

Announce == Publish({"hardware"}) /\ unannounced' = FALSE

(* Other services publish at any time.                                     *)
PublishOther ==
  /\ \E b \in open : Deliver(queue[b], {"messages"}) # queue[b]
  /\ Publish({"messages"})
  /\ UNCHANGED <<monitorVars, watch, open, view, unannounced, newsFaults>>

-----------------------------------------------------------------------------
(* The coordinator.                                                        *)

KnowAndAsk == watch' = [at |-> "ask", known |-> Shown]

(* Snapshot(false).  The first one is never announced, whatever browsers   *)
(* read before it.                                                         *)
TakeSnapshot ==
  /\ watch.at = "snapshot" /\ agentUp
  /\ KnowAndAsk
  /\ IF watch.known = Unknown
       THEN /\ unannounced' = \E b \in open : view[b] # hardware
            /\ UNCHANGED queue
     ELSE IF watch.known # Shown THEN Announce
     ELSE UNCHANGED <<queue, unannounced>>
  /\ UNCHANGED <<monitorVars, open, view, newsFaults>>

(* Changes: the request reaches the agent, which compares under the lock   *)
(* and takes the channel of that generation.                               *)
Newer == Shown.instance # watch.known.instance
           \/ Shown.generation > watch.known.generation

Ask ==
  /\ watch.at = "ask" /\ agentUp
  /\ IF Newer THEN KnowAndAsk /\ Announce
              ELSE /\ watch' = [at |-> "poll", known |-> watch.known,
                                channel |-> Shown]
                   /\ UNCHANGED <<queue, unannounced>>
  /\ UNCHANGED <<monitorVars, open, view, newsFaults>>

Polling == watch.at = "poll" /\ agentUp /\ watch.channel.instance = monitor.instance

(* The channel is closed: the answer has the snapshot of now.              *)
PollChanged ==
  /\ Polling /\ watch.channel # Shown
  /\ KnowAndAsk /\ Announce
  /\ UNCHANGED <<monitorVars, open, view, newsFaults>>

(* The poll times out: the answer says unchanged, but has the snapshot of  *)
(* now, which the coordinator takes as known.                              *)
PollTimesOut ==
  /\ Polling
  /\ KnowAndAsk
  /\ unannounced' = (unannounced \/ watch.known # Shown)
  /\ UNCHANGED <<monitorVars, browserVars, newsFaults>>

(* Snapshot or Changes fails, because the agent stopped or otherwise.      *)
WatchFails ==
  /\ watch.at # "back off"
  /\ IF agentUp /\ ~(watch.at = "poll" /\ ~Polling)
       THEN newsFaults < MaxNewsFaults /\ newsFaults' = newsFaults + 1
       ELSE UNCHANGED newsFaults
  /\ watch' = [at |-> "back off", known |-> watch.known]
  /\ UNCHANGED <<monitorVars, browserVars, unannounced>>

Retry ==
  /\ watch.at = "back off"
  /\ watch' = [watch EXCEPT !.at = "snapshot"]
  /\ UNCHANGED <<monitorVars, browserVars, unannounced, newsFaults>>

-----------------------------------------------------------------------------
(* The event stream and the browser.                                       *)

(* Subscribe puts a resync into the channel.                               *)
Connect(b) ==
  /\ b \notin open
  /\ open' = open \cup {b} /\ queue' = [queue EXCEPT ![b] = Topics]
  /\ UNCHANGED <<monitorVars, watch, view, unannounced, newsFaults>>

Disconnect(b) ==
  /\ b \in open
  /\ open' = open \ {b} /\ queue' = [queue EXCEPT ![b] = {}]
  /\ UNCHANGED <<monitorVars, watch, view, unannounced, newsFaults>>

(* The browser takes the event; a hardware topic invalidates the inventory *)
(* query, whose request makes the agent scan first (Snapshot(true)).       *)
TakeEvent(b) ==
  /\ b \in open /\ queue[b] # {}
  /\ queue' = [queue EXCEPT ![b] = {}]
  /\ IF "hardware" \in queue[b]
       THEN /\ view' = [view EXCEPT ![b] = IF agentUp THEN hardware ELSE NoView]
            /\ monitor' = IF agentUp THEN Refreshed ELSE monitor
       ELSE UNCHANGED <<view, monitor>>
  /\ UNCHANGED <<hardware, agentUp, watch, open, unannounced, newsFaults>>

(* simplusd restarts: every stream ends, the coordinator knows nothing.    *)
ServerRestarts ==
  /\ newsFaults < MaxNewsFaults /\ newsFaults' = newsFaults + 1
  /\ watch' = [at |-> "snapshot", known |-> Unknown]
  /\ open' = {} /\ queue' = [b \in Browsers |-> {}]
  /\ UNCHANGED <<monitorVars, view, unannounced>>

NewsNext ==
  \/ Plug \/ Refresh \/ AgentStops \/ AgentStarts
  \/ PublishOther
  \/ TakeSnapshot \/ Ask \/ PollChanged \/ PollTimesOut \/ WatchFails \/ Retry
  \/ \E b \in Browsers : Connect(b) \/ Disconnect(b) \/ TakeEvent(b)
  \/ ServerRestarts

NewsSpec == NewsInit /\ [][NewsNext]_newsVars

-----------------------------------------------------------------------------

(* A browser with an open stream that shows an old inventory will be told: *)
(* the agent has yet to scan or is down, an event with the hardware topic  *)
(* waits for it however many were published meanwhile, or the coordinator  *)
(* has yet to see the new generation.  Two changes are taken in without an *)
(* announcement: one before the coordinator's first snapshot and one in    *)
(* the moment a poll times out (monitor.go:173-180, hub.go:108-124,        *)
(* change_coordinator.go:56-92).                                           *)
StaleIsAnnounced ==
  /\ NewsTypeOK
  /\ \A b \in open :
       view[b] # hardware =>
         \/ ~agentUp \/ monitor.content # hardware
         \/ "hardware" \in queue[b]
         \/ watch.known # Shown
         \/ unannounced
=============================================================================
