------------------------------ MODULE HttpApi ------------------------------
(***************************************************************************)
(* The HTTP server of simplusd and the browser in front of it: the gates a *)
(* request passes, the handlers that change something and then say so, the *)
(* timeout that answers for a handler still at work, the browser's cookies *)
(* and the event stream by which its tabs learn what to fetch again.       *)
(*                                                                         *)
(* What a handler changes is a set of tags, those its queries are cached   *)
(* under in a tab; what the services behind it do is in their own modules. *)
(***************************************************************************)
EXTENDS Naturals

CONSTANTS
  Handlers,     \* requests that may be under way at a time
  Tabs,         \* pages of the one browser
  Routes,       \* the routes that are asked, of Catalogue
  MaxLogins,    \* bound: administrator sessions issued
  MaxApiFaults  \* bound: failures, timeouts and lost answers

VARIABLES
  stage,        \* installation state: setup or ready
  live,         \* live administrator sessions
  issued,       \* sessions issued so far
  cookies,      \* the browser's: session (0 for none) and setup
  handling,     \* per handler: the request, its progress and its answer
  streams,      \* per tab: the stream's session (0 for none) and its slot
  stale,        \* per tab: tags changed since the tab fetched them
  untold,       \* per tab: stale tags no handler will tell of
  later,        \* a goroutine changed a channel and has yet to publish
  apiFaults

httpVars == <<stage, live, issued, cookies, handling, streams, stale, untold,
              later, apiFaults>>
tabVars == <<streams, stale, untold, later>>

Topics == {"system", "inventory", "modems", "lines", "vowifi", "messages",
           "calls", "contacts", "mihomo", "notifications", "euicc"}

(* topicTags of events.ts.                                                 *)
TagsOf(topic) ==
  CASE topic = "inventory" -> {"inventory", "modems", "lines"}
    [] topic = "modems"    -> {"modems", "inventory"}
    [] topic = "lines"     -> {"lines", "inventory"}
    [] topic = "vowifi"    -> {"vowifi", "lines"}
    [] topic = "mihomo"    -> {"mihomo", "lines", "vowifi"}
    [] OTHER               -> {topic}
TagsOfAll(topics) == UNION {TagsOf(topic) : topic \in topics}

-----------------------------------------------------------------------------
(* The routes: the gate in front, the tags of what a success changes, the  *)
(* topics published, and whether a failure may leave part of the change.   *)
(* Reads, Tells and FailsPartway only shorten the tables below, which give *)
(* each handler's.                                                         *)

Route(gate, changes, topics, partway) ==
  [gate |-> gate, changes |-> changes, topics |-> topics, partway |-> partway]
Reads(gate) == Route(gate, {}, {}, FALSE)
Tells(gate, topic) == Route(gate, {topic}, {topic}, FALSE)
FailsPartway(route) == [route EXCEPT !.partway = TRUE]

SetupRoutes ==
  [setupStatus |-> Reads("none"), setupSession |-> Reads("setup"),
   setupStep |-> FailsPartway(Reads("setup"))]
SetupHardware == [setupInventory |-> Reads("setup"), setupReview |-> Reads("setup")]
InventoryReads == [inventory |-> Reads("business"), topology |-> Reads("business")]
CoreRoutes ==
  [core |-> Reads("admin"), installCore |-> Tells("admin", "mihomo")]
SubscriptionRoutes ==
  [subscriptions |-> Reads("admin"),
   writeSubscription |-> FailsPartway(Tells("admin", "mihomo")),
   refreshSubscription |-> FailsPartway(Tells("admin", "mihomo")),
   deleteSubscription |-> Tells("admin", "mihomo")]
EgressRoutes ==
  [bindings |-> Reads("admin"),
   putEgress |-> Route("admin", {"lines"}, {"lines", "mihomo", "vowifi"}, FALSE)]
VoWiFiRoutes ==
  [vowifiLines |-> Reads("business"),
   activate |-> Route("business", {"lines"}, {"vowifi"}, TRUE),
   deactivate |-> Route("business", {"lines"}, {"vowifi"}, TRUE)]
ConfigRoutes ==
  [config |-> Reads("admin"), publishConfig |-> Tells("admin", "mihomo"),
   select |-> Route("admin", {"mihomo", "lines"}, {"mihomo", "vowifi"}, FALSE),
   runtime |-> Route("admin", {"mihomo", "lines"}, {"mihomo", "vowifi"}, TRUE)]
NotificationRoutes ==
  [notifications |-> Reads("admin"),
   writeChannel |-> Tells("admin", "notifications"),
   testChannel |-> FailsPartway(Tells("admin", "notifications")),
   bindFeishu |-> Reads("admin")]
MessageReads == [messages |-> Reads("business")]
MessageRoutes ==
  [markRead |-> Tells("business", "messages"),
   deleteMessage |-> Tells("business", "messages"),
   sendMessage |-> FailsPartway(Tells("business", "messages"))]
CallReads == [calls |-> Reads("business")]
EuiccRoutes ==
  [euicc |-> Reads("business"), activateProfile |-> Tells("business", "euicc")]
CallRoutes ==
  [startCall |-> FailsPartway(Tells("business", "calls")),
   controlCall |-> FailsPartway(Tells("business", "calls"))]
ContactRoutes ==
  [contacts |-> Reads("business"), writeContact |-> Tells("business", "contacts")]
LineRoutes ==
  [lines |-> Reads("business"),
   addLine |-> Route("business", {"lines", "inventory"}, {"inventory", "lines"}, FALSE),
   updateLine |-> Tells("business", "lines")]
ModemRoutes ==
  [modems |-> Reads("business"), equipmentIdentity |-> Reads("business"),
   addModem |-> Route("business", {"inventory", "lines"},
                      {"inventory", "modems", "lines"}, FALSE),
   setRF |-> Route("business", {"inventory", "lines"},
                   {"inventory", "modems", "lines"}, TRUE)]
HealthRoutes == [systemHealth |-> Reads("none")]
DoorRoutes ==
  [authSession |-> Reads("admin"), login |-> Reads("none"), logout |-> Reads("cookie"),
   password |-> Reads("cookie"), bootstrap |-> Reads("none"), complete |-> Reads("setup")]

RouteGroups ==
  {SetupRoutes, SetupHardware, InventoryReads, CoreRoutes, SubscriptionRoutes,
   EgressRoutes, VoWiFiRoutes, ConfigRoutes, NotificationRoutes, MessageReads,
   MessageRoutes, CallReads, EuiccRoutes, CallRoutes, ContactRoutes, LineRoutes,
   ModemRoutes, HealthRoutes, DoorRoutes}

(* Router.                                                                 *)
Catalogue ==
  [r \in UNION {DOMAIN routes : routes \in RouteGroups} |->
     (CHOOSE routes \in RouteGroups : r \in DOMAIN routes)[r]]

ASSUME HttpAssumption ==
  /\ Routes \subseteq DOMAIN Catalogue
  /\ MaxLogins \in Nat /\ MaxApiFaults \in Nat

(* A refusal that need not be asked again, although part was done.         *)
RefusesPartway == {"writeSubscription", "runtime"}

-----------------------------------------------------------------------------
(* Answers: a kind, and what their Set-Cookie headers do to the browser.   *)

NoAnswer == [kind |-> "none", admin |-> "keep", setup |-> "keep", session |-> 0]
Says(kind) == [NoAnswer EXCEPT !.kind = kind]
ClearsAdmin(answer) == [answer EXCEPT !.admin = "clear"]
ClearsSetup(answer) == [answer EXCEPT !.setup = "clear"]
SetsAdmin(answer, session) == [answer EXCEPT !.admin = "set", !.session = session]
SetsSetup(answer) == [answer EXCEPT !.setup = "set"]

Idle == [at |-> "idle", route |-> "none", session |-> 0, setup |-> FALSE,
         answer |-> NoAnswer, wire |-> "none", reply |-> NoAnswer, did |-> "nothing"]
NoStream == [session |-> 0, slot |-> {}]

HttpAnswers == [kind : {"none", "done", "refused", "again"},
            admin : {"keep", "clear", "set"}, setup : {"keep", "clear", "set"},
            session : Nat]
Requested == [at : {"idle", "gate", "act", "tell", "write", "over"},
              route : Routes \cup {"none"}, session : Nat, setup : BOOLEAN,
              answer : HttpAnswers, wire : {"none", "waiting", "answered"},
              reply : HttpAnswers, did : {"nothing", "part", "all"}]

HttpTypeOK ==
  /\ stage \in {"setup", "ready"} /\ issued \in 0 .. MaxLogins
  /\ live \subseteq 1 .. issued
  /\ cookies \in [session : 0 .. issued, setup : BOOLEAN]
  /\ handling \in [Handlers -> Requested]
  /\ streams \in [Tabs -> [session : 0 .. issued, slot : SUBSET Topics]]
  /\ stale \in [Tabs -> SUBSET Topics]
  /\ untold \in [Tabs -> SUBSET Topics]
  /\ later \in BOOLEAN
  /\ apiFaults \in 0 .. MaxApiFaults

HttpInit ==
  /\ stage \in {"setup", "ready"}
  /\ live = {} /\ issued = 0
  /\ cookies = [session |-> 0, setup |-> FALSE]
  /\ handling = [h \in Handlers |-> Idle]
  /\ streams = [t \in Tabs |-> NoStream]
  /\ stale = [t \in Tabs |-> {}] /\ untold = [t \in Tabs |-> {}]
  /\ later = FALSE
  /\ apiFaults = 0

HttpFault == apiFaults < MaxApiFaults /\ apiFaults' = apiFaults + 1
Steps(h, changed) == handling' = [handling EXCEPT ![h] = changed]
HandlerAt(h, where) == handling[h].at = where
Of(h) == Catalogue[handling[h].route]
Answered(h, answer) ==
  Steps(h, [handling[h] EXCEPT !.at = "write", !.answer = answer])

-----------------------------------------------------------------------------
(* A request on its way to its handler.                                    *)

SendRequest(h, route) ==
  /\ handling[h] = Idle
  /\ Steps(h, [Idle EXCEPT !.at = "gate", !.route = route, !.wire = "waiting",
                           !.session = cookies.session, !.setup = cookies.setup])
  /\ UNCHANGED <<stage, live, issued, cookies, tabVars, apiFaults>>

Unauthorised == ClearsAdmin(Says("refused"))

(* requireBusinessAPI, requireAdministrator and the setup session's cookie; *)
(* Logout clears the cookies it did not get, ChangeAdministratorPassword   *)
(* answers that the CSRF token is wrong.                                   *)
Turned(h) ==
  LET session == handling[h].session
      gate == Of(h).gate
  IN  IF gate = "business" /\ stage # "ready" THEN Says("refused")
      ELSE IF gate \in {"business", "admin", "cookie"} /\ session = 0
             THEN IF handling[h].route = "password" THEN Says("refused")
                  ELSE Unauthorised
      ELSE IF gate \in {"business", "admin"} /\ session \notin live
             THEN Says("refused")
      ELSE IF gate = "setup" /\ ~handling[h].setup
             THEN ClearsSetup(Says("refused"))
      ELSE NoAnswer

PassGate(h) ==
  /\ HandlerAt(h, "gate")
  /\ IF Turned(h) = NoAnswer
       THEN Steps(h, [handling[h] EXCEPT !.at = "act"])
       ELSE Answered(h, Turned(h))
  /\ UNCHANGED <<stage, live, issued, cookies, tabVars, apiFaults>>

GateFails(h) ==
  /\ HandlerAt(h, "gate") /\ Of(h).gate # "none" /\ HttpFault
  /\ Answered(h, Says("again"))
  /\ UNCHANGED <<stage, live, issued, cookies, tabVars>>

-----------------------------------------------------------------------------
(* A handler at work.                                                      *)

Changes(tags) == stale' = [t \in Tabs |-> stale[t] \cup tags]
Plain == {r \in Routes : r \notin DOMAIN DoorRoutes \/ r = "authSession"}

(* The service did what it was asked: a change of data is told next.       *)
Succeeds(h) ==
  /\ HandlerAt(h, "act") /\ handling[h].route \in Plain
  /\ Steps(h, [handling[h] EXCEPT !.at = "tell", !.did = "all"])
  /\ Changes(Of(h).changes)
  /\ UNCHANGED <<stage, live, issued, cookies, streams, untold, later, apiFaults>>

Refuses(h, kind) ==
  /\ HandlerAt(h, "act") /\ handling[h].route \in Plain
  /\ Answered(h, Says(kind))
  /\ UNCHANGED <<stage, live, issued, cookies, tabVars, apiFaults>>

(* An error after part of the work returns before publish.                 *)
FailsHalfway(h, kind) ==
  /\ HandlerAt(h, "act") /\ handling[h].route \in Plain /\ Of(h).partway /\ HttpFault
  /\ kind = "refused" => handling[h].route \in RefusesPartway
  /\ Steps(h, [handling[h] EXCEPT !.at = "write", !.did = "part", !.answer = Says(kind)])
  /\ Changes(Of(h).changes)
  /\ untold' = [t \in Tabs |-> untold[t] \cup Of(h).changes]
  /\ UNCHANGED <<stage, live, issued, cookies, streams, later>>

(* Hub.Publish: a stream's slot holds one event, and a second one makes it *)
(* a resync.                                                               *)
MutantInSlot(slot, topics) == IF slot = {} THEN topics ELSE slot
InSlot(slot, topics) ==
  CASE topics = {} -> slot
    [] topics # {} /\ slot = {} -> topics
    [] OTHER -> Topics

Publish(topics) ==
  streams' = [t \in Tabs |-> IF streams[t].session = 0 THEN streams[t]
                ELSE [streams[t] EXCEPT !.slot = InSlot(@, topics)]]

Tell(h) ==
  /\ HandlerAt(h, "tell")
  /\ Publish(Of(h).topics)
  /\ Answered(h, Says("done"))
  /\ UNCHANGED <<stage, live, issued, cookies, stale, untold, later, apiFaults>>

-----------------------------------------------------------------------------
(* Goroutines that handlers leave behind: notifyAsync records deliveries,  *)
(* a Feishu binding stores a channel and may have to delete it again.      *)

LeavesWork == {"bindFeishu", "sendMessage", "startCall", "controlCall"}

ChannelChanges ==
  /\ Routes \cap LeavesWork # {} /\ stage = "ready" /\ ~later
  /\ Changes({"notifications"}) /\ later' = TRUE
  /\ UNCHANGED <<stage, live, issued, cookies, handling, streams, untold, apiFaults>>

ChannelTold ==
  /\ later /\ later' = FALSE
  /\ Publish({"notifications"})
  /\ UNCHANGED <<stage, live, issued, cookies, handling, stale, untold, apiFaults>>

(* The binding was cancelled while its channel was written.                *)
ChannelWithdrawn ==
  /\ later /\ later' = FALSE /\ HttpFault
  /\ Changes({"notifications"})
  /\ untold' = [t \in Tabs |-> untold[t] \cup {"notifications"}]
  /\ UNCHANGED <<stage, live, issued, cookies, handling, streams>>

-----------------------------------------------------------------------------
(* The door: sessions come and go.                                         *)

(* Login's cookies are set before the setup session is asked for, so that  *)
(* they go with its failure as well.                                       *)
Login(h) ==
  /\ HandlerAt(h, "act") /\ handling[h].route = "login" /\ issued < MaxLogins
  /\ issued' = issued + 1 /\ live' = live \cup {issued'}
  /\ LET signedIn(kind) == SetsAdmin(Says(kind), issued')
     IN  \/ /\ Answered(h, IF stage = "setup" THEN SetsSetup(signedIn("done"))
                           ELSE signedIn("done"))
            /\ UNCHANGED apiFaults
         \/ HttpFault /\ Answered(h, signedIn("again"))
  /\ UNCHANGED <<stage, cookies, tabVars>>

Logout(h) ==
  /\ HandlerAt(h, "act") /\ handling[h].route = "logout"
  /\ live' = live \ {handling[h].session}
  /\ Answered(h, IF handling[h].session \in live
                   THEN ClearsAdmin(Says("done")) ELSE Says("refused"))
  /\ UNCHANGED <<stage, issued, cookies, tabVars, apiFaults>>

ChangePassword(h) ==
  /\ HandlerAt(h, "act") /\ handling[h].route = "password"
  /\ IF handling[h].session \in live
       THEN live' = {} /\ Answered(h, ClearsAdmin(Says("done")))
       ELSE Answered(h, Says("refused")) /\ UNCHANGED live
  /\ UNCHANGED <<stage, issued, cookies, tabVars, apiFaults>>

GrantSetup(h) ==
  /\ HandlerAt(h, "act") /\ handling[h].route = "bootstrap"
  /\ Answered(h, IF stage = "setup" THEN SetsSetup(Says("done"))
                 ELSE ClearsSetup(Says("refused")))
  /\ UNCHANGED <<stage, live, issued, cookies, tabVars, apiFaults>>

(* A setup session that does not answer for itself any more is cleared.    *)
CompleteSetup(h) ==
  /\ HandlerAt(h, "act") /\ handling[h].route = "complete"
  /\ \/ stage = "setup" /\ stage' = "ready" /\ Answered(h, ClearsSetup(Says("done")))
     \/ stage = "ready" /\ UNCHANGED stage /\ Answered(h, ClearsSetup(Says("refused")))
  /\ UNCHANGED <<live, issued, cookies, tabVars, apiFaults>>

DoorRefuses(h) ==
  /\ HandlerAt(h, "act") /\ handling[h].route \in DOMAIN DoorRoutes
  /\ Answered(h, Says("refused"))
  /\ UNCHANGED <<stage, live, issued, cookies, tabVars, apiFaults>>

-----------------------------------------------------------------------------
(* The answer on its way: timeoutJSON's buffer is committed or dropped.    *)

Wires(h, reply) == [handling[h] EXCEPT !.wire = "answered", !.reply = reply]
HandlerEnds(h) ==
  Steps(h, IF HandlerAt(h, "over") THEN Idle ELSE [handling[h] EXCEPT !.wire = "none"])

Commit(h) ==
  /\ HandlerAt(h, "write")
  /\ Steps(h, CASE handling[h].wire = "waiting" ->
                     [Wires(h, handling[h].answer) EXCEPT !.at = "over"]
                [] handling[h].wire = "answered" -> [handling[h] EXCEPT !.at = "over"]
                [] OTHER -> Idle)
  /\ UNCHANGED <<stage, live, issued, cookies, tabVars, apiFaults>>

(* The handler is not stopped: what it does later is done and told of.     *)
TimeOut(h) ==
  /\ handling[h].wire = "waiting" /\ HttpFault
  /\ Steps(h, Wires(h, Says("again")))
  /\ UNCHANGED <<stage, live, issued, cookies, tabVars>>

(* The browser applies the cookies of the answers in the order they come.  *)
Receive(h) ==
  /\ handling[h].wire = "answered"
  /\ LET reply == handling[h].reply
     IN  cookies' = [session |-> CASE reply.admin = "set" -> reply.session
                                   [] reply.admin = "clear" -> 0
                                   [] OTHER -> cookies.session,
                     setup |-> IF reply.setup = "keep" THEN cookies.setup
                               ELSE reply.setup = "set"]
  /\ HandlerEnds(h)
  /\ UNCHANGED <<stage, live, issued, tabVars, apiFaults>>

AnswerLost(h) ==
  /\ handling[h].wire = "answered" /\ HttpFault
  /\ HandlerEnds(h)
  /\ UNCHANGED <<stage, live, issued, cookies, tabVars>>

-----------------------------------------------------------------------------
(* Streams.  Subscribe starts each with a resync of everything.            *)

Admitted(session) == stage = "ready" /\ session \in live

OpenStream(t) ==
  /\ streams[t] = NoStream /\ Admitted(cookies.session)
  /\ streams' = [streams EXCEPT ![t] = [session |-> cookies.session, slot |-> Topics]]
  /\ UNCHANGED <<stage, live, issued, cookies, handling, stale, untold, later, apiFaults>>

(* The tab fetches what the event makes stale; a fetch under way is begun  *)
(* anew.                                                                   *)
TabHears(t) ==
  /\ streams[t].slot # {}
  /\ LET fetched == TagsOfAll(streams[t].slot)
     IN  /\ stale' = [stale EXCEPT ![t] = @ \ fetched]
         /\ untold' = [untold EXCEPT ![t] = @ \ fetched]
  /\ streams' = [streams EXCEPT ![t].slot = {}]
  /\ UNCHANGED <<stage, live, issued, cookies, handling, later, apiFaults>>

(* The heartbeat asks for the session again.                               *)
Heartbeat(t) ==
  /\ streams[t] # NoStream /\ ~Admitted(streams[t].session)
  /\ streams' = [streams EXCEPT ![t] = NoStream]
  /\ UNCHANGED <<stage, live, issued, cookies, handling, stale, untold, later, apiFaults>>

(* A write fails, or the tab is hidden.                                    *)
StreamCloses(t) ==
  /\ streams[t] # NoStream
  /\ streams' = [streams EXCEPT ![t] = NoStream]
  /\ UNCHANGED <<stage, live, issued, cookies, handling, stale, untold, later, apiFaults>>

HandlerStep(h) ==
  \/ \E route \in Routes : SendRequest(h, route)
  \/ PassGate(h) \/ GateFails(h) \/ Succeeds(h) \/ Tell(h)
  \/ \E kind \in {"refused", "again"} : Refuses(h, kind) \/ FailsHalfway(h, kind)
  \/ Login(h) \/ Logout(h) \/ ChangePassword(h) \/ GrantSetup(h)
  \/ CompleteSetup(h) \/ DoorRefuses(h)
  \/ Commit(h) \/ TimeOut(h) \/ Receive(h) \/ AnswerLost(h)
TabStep(t) == OpenStream(t) \/ TabHears(t) \/ Heartbeat(t) \/ StreamCloses(t)

HttpNext ==
  \/ \E h \in Handlers : HandlerStep(h)
  \/ \E t \in Tabs : TabStep(t)
  \/ ChannelChanges \/ ChannelTold \/ ChannelWithdrawn

HttpSpec == HttpInit /\ [][HttpNext]_httpVars

-----------------------------------------------------------------------------
(* What a tab with a stream shows and is out of date, an event in its slot *)
(* or a handler that has still to publish will have it fetch again; only   *)
(* failures halfway and a withdrawn channel are not told.                  *)
ChangesAreTold ==
  \A t \in Tabs : streams[t].session # 0 =>
    \A tag \in stale[t] :
      \/ tag \in TagsOfAll(streams[t].slot) \cup untold[t]
      \/ \E h \in Handlers : HandlerAt(h, "tell") /\ tag \in TagsOfAll(Of(h).topics)
      \/ later /\ tag = "notifications"

(* The answer that reaches the browser is one, and true: a success was all *)
(* done and told of, and a refusal that need not be asked again has        *)
(* changed nothing, a subscription written and then not fetched and        *)
(* Mihomo's start apart.                                                   *)
AnswersAreTrue ==
  \A h \in Handlers : handling[h].wire = "answered" /\ handling[h].route \in Plain =>
    /\ handling[h].reply.kind = "done" => HandlerAt(h, "over") /\ handling[h].did = "all"
    /\ handling[h].reply.kind = "refused" /\ handling[h].did # "nothing"
         => handling[h].route \in RefusesPartway

HttpIsSafe == ChangesAreTold /\ AnswersAreTrue

=============================================================================
