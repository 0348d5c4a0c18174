----------------------------- MODULE MCServices -----------------------------
(* Components of simplusd that share no state in the models: `side' picks  *)
(* the one a behaviour is about, and the others stay as they start.  Two   *)
(* sides of one component bound different parts of it.                     *)
EXTENDS VoiceCalls, CallEvents, Installation, LinePlan, Web, TLC

VARIABLE side

CONSTANTS l1, l2, s1, q1, q2, q3, k1, k2

(* The clients of one side are the handlers of another.                    *)
Interchangeable == Permutations(Clients)

(* The routes by which sessions come and go, and three that fail.          *)
MCDoorRoutes == {"login", "logout", "password", "complete", "bootstrap",
                 "setupStep", "bindFeishu", "writeSubscription"}
MCHttpRoutes == {"login", "putEgress", "testChannel"}
MCRoutes == MCDoorRoutes \cup MCHttpRoutes

(* The third modem has the first one's IMEI.                               *)
MCImeiOf(m) == IF m = q3 THEN q1 ELSE m

(* Two requests for one Line, one for the other, one operation id reused.  *)
Request(o, l, d) == [operation |-> o, line |-> l, number |-> 1, direction |-> d]
MCRequests == {Request("o1", l1, "outbound"), Request("o2", l1, "inbound"),
               Request("o3", l2, "outbound"), Request("o1", l2, "outbound")}

serviceVars == <<side, callVars, voiceVars, installVars, httpVars,
                   pageVars, notifyVars, planVars>>

(* What the other sides start with is not looked at: one value is enough.  *)
ServiceInit ==
  /\ side \in {"events", "voice", "install", "http", "door",
                "pages", "callPages", "notify", "edits", "plan"}
  /\ IF side # "events"
       THEN sim = s1 ELSE TRUE
  /\ IF side # "voice"
       THEN ready = {} ELSE TRUE
  /\ IF side \notin {"http", "door"}
       THEN stage = "ready" ELSE TRUE
  /\ placed = <<q1, q2>>
  /\ cards = (q1 :> k1 @@ q2 :> k2 @@ q3 :> NoCard)
  /\ IF side # "plan"
       THEN modemRecords = {} ELSE TRUE
  /\ CallInit
  /\ VoiceInit
  /\ InstallInit
  /\ HttpInit
  /\ PageInit
  /\ NotifyInit
  /\ PlanInit

EventsOnly == UNCHANGED <<side, voiceVars, installVars, httpVars, pageVars,
                          notifyVars, planVars>>
VoiceOnly == UNCHANGED <<side, callVars, installVars, httpVars, pageVars,
                         notifyVars, planVars>>
SetupOnly == UNCHANGED <<side, callVars, voiceVars, httpVars, pageVars,
                         notifyVars, planVars>>
HttpOnly == UNCHANGED <<side, callVars, voiceVars, installVars, pageVars,
                        notifyVars, planVars>>
PagesOnly == UNCHANGED <<side, callVars, voiceVars, installVars, httpVars,
                         notifyVars, planVars>>
NotifyOnly == UNCHANGED <<side, callVars, voiceVars, installVars, httpVars,
                          pageVars, planVars>>
PlanOnly == UNCHANGED <<side, callVars, voiceVars, installVars, httpVars,
                        pageVars, notifyVars>>

(* Requests that overlap, and requests one at a time by which sessions     *)
(* come and go.                                                            *)
Asking(routes) == \A h \in Handlers : handling'[h].route \in routes \cup {"none"}
OneAtATime == Cardinality({h \in Handlers : handling'[h] # Idle}) <= 1

(* A list runs by itself: beside others it does no more than another       *)
(* request for a modem does before its command.                            *)
ListsAlone == \A c, d \in Clients :
  c # d /\ requests'[c] # Resting /\ requests'[d] # Resting => requests'[c].kind # "list"

(* A fault or another data directory, not both.                            *)
OneMishap == installFaults' + directory' <= 2

ServiceNext ==
  \/ side = "events" /\ EventsOnly /\ CallNext
  \/ side = "voice" /\ VoiceOnly /\ VoiceNext
  \/ side = "install" /\ SetupOnly /\ InstallNext /\ OneMishap
  \/ /\ side = "http" /\ HttpOnly /\ HttpNext
     /\ Asking(MCHttpRoutes) /\ issued' <= 1 /\ ~later'
  \/ /\ side = "door" /\ HttpOnly /\ HttpNext
     /\ Asking(MCDoorRoutes) /\ OneAtATime
  \/ side = "pages" /\ PagesOnly /\ UNCHANGED <<records, now>> /\ PageNext
  \/ side = "callPages" /\ PagesOnly /\ UNCHANGED <<texts, sequence>> /\ PageNext
  \/ side = "notify" /\ NotifyOnly /\ NotifyNext /\ edits' = 0 /\ notifyStarts' = 0
  \/ side = "edits" /\ NotifyOnly /\ NotifyNext /\ binding'.generation <= 2
  \/ side = "plan" /\ PlanOnly /\ PlanNext /\ ListsAlone

ServiceSpec == ServiceInit /\ [][ServiceNext]_serviceVars
=============================================================================
