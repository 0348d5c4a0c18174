-------------------------- MODULE ImsRegistration --------------------------
(***************************************************************************)
(* A VoWiFi worker and the IMS session it keeps: strongSwan's tunnel, the  *)
(* REGISTER exchanges with a challenge answered by the SIM, the IPsec      *)
(* associations with the P-CSCF, and the loop that keeps the registration  *)
(* alive beside the requests of the SMS server, which hold the session's   *)
(* mutex while the loop's own calls wait for it: a poll for messages four  *)
(* times a second, keepalives, refreshes.  A failure of any step ends the  *)
(* attempt; everything is taken down and a new attempt begins after a      *)
(* pause.                                                                  *)
(*                                                                         *)
(* The registrar, the SIM and the kernel are external.  A key is the nonce *)
(* it was derived from; the four associations of a session are one; a      *)
(* request is what a registrar can tell it by.  An exchange is one step:   *)
(* its request is lost, its answer is lost, or it is answered; that of a   *)
(* refresh takes time.  Time is counted in ticks.  What the loop does      *)
(* within a fraction of a second takes none: a poll or a keepalive that    *)
(* has the mutex, a look at the associations, starting the SMS server.     *)
(***************************************************************************)
EXTENDS Naturals, Sequences, FiniteSets

CONSTANTS
  Proxies,          \* P-CSCF addresses
  NoSession,
  MaxAttempts,      \* bound: attempts of the worker
  MaxNonces,        \* bound: challenges of the registrar
  MaxRefreshes,     \* bound: refreshes of the registration
  MaxSubmits,       \* bound: submissions of the SMS server
  Lead,             \* ticks from the moment a refresh is due to the end of the
                    \*   registrar's session: 30 s at least, less an answer's way
  ExchangeLimit,    \* ticks the exchange of a refresh may take: 15 s
  MaxImsFaults      \* bound: lost requests and answers, refusals, failing calls

VARIABLES
  worker,      \* where RunWorker stands
  event,       \* the state it reported last
  charon,      \* the strongSwan process runs
  ims,         \* the IMSSession
  mutex,       \* who holds IMSSession.mu
  server,      \* the SMS server accepts submissions
  kernel,      \* IMS associations that are installed (external)
  agent,       \* the agent's instance (external)
  issued,      \* the registrar's challenges so far (external)
  seen,        \* REGISTER requests the registrar got (external)
  binding,     \* the session the registrar keeps (external): the ticks it has
               \*   left and, of those since its refresh was due, the ticks the
               \*   loop waited behind SMS requests and its exchange has taken
  attempts, refreshes, submits, imsFaults

imsVars == <<worker, event, charon, ims, mutex, server, kernel, agent, issued,
             seen, binding, attempts, refreshes, submits, imsFaults>>
counters == <<attempts, refreshes, submits>>
outside  == <<kernel, agent, issued, seen, binding>>

Places == {"prepare", "strongSwan", "tunnel", "discover", "register", "online", "close",
           "ended", "backoff", "stopped"}
Workers == [at : Places, waits : {"no", "poll", "keepalive", "refresh"}, late : BOOLEAN,
            left : Seq(Proxies), target : Nat, stopping : BOOLEAN]
ImsSteps == {"initial", "challenged", "keyed", "protected", "open"}
ImsSessions == [call : Nat, step : ImsSteps, sequence : Nat, nonce : Nat, count : Nat,
                keys : Nat, tries : Nat, retried : BOOLEAN]
Registers == [call : Nat, sequence : Nat, nonce : Nat, count : Nat, branch : Nat]
Bindings == [call : Nat, life : 0 .. Lead + 1, waited : Nat, took : Nat]

ImsAssumption == /\ NoSession \notin ImsSessions /\ IsFiniteSet(Proxies) /\ MaxNonces \in Nat
                 /\ Lead \in Nat /\ ExchangeLimit \in Nat /\ ExchangeLimit < Lead
ASSUME ImsAssumption

Resynchronisations == 2   \* maxIMSResynchronizationAttempts
NoBinding == [call |-> 0, life |-> 0, waited |-> 0, took |-> 0]

(* refreshDeadline: a refresh is due while the registration has Lead ticks *)
(* left; of the time before, one tick stands for all.                      *)
MutantFresh(call) == [call |-> call, life |-> ExchangeLimit, waited |-> 0, took |-> 0]
Fresh(call) == [call |-> call, life |-> Lead + 1, waited |-> 0, took |-> 0]
Due == binding.life <= Lead
At(place) == worker.at = place
Establishing == At("register")

ImsTypeOK ==
  /\ worker \in Workers
  /\ event \in {"starting", "connecting", "registering", "online", "reconnecting"}
  /\ charon \in BOOLEAN /\ server \in BOOLEAN
  /\ mutex \in {"free", "submission", "loop"}
  /\ ims \in ImsSessions \cup {NoSession}
  /\ kernel \subseteq [call : Nat, key : Nat] /\ agent \in Nat
  /\ issued \in 0 .. MaxNonces
  /\ seen \subseteq Registers /\ IsFiniteSet(seen)
  /\ binding \in Bindings

ImsInit ==
  /\ worker = [at |-> "prepare", waits |-> "no", late |-> FALSE, left |-> <<>>, target |-> 0,
               stopping |-> FALSE]
  /\ event = "starting" /\ charon = FALSE /\ ims = NoSession
  /\ mutex = "free" /\ server = FALSE
  /\ kernel = {} /\ agent = 1 /\ issued = 0 /\ seen = {} /\ binding = NoBinding
  /\ attempts = 1 /\ refreshes = 0 /\ submits = 0 /\ imsFaults = 0

ImsFault == imsFaults < MaxImsFaults /\ imsFaults' = imsFaults + 1
Moves(place) == worker' = [worker EXCEPT !.at = place]
Ends == worker' = [worker EXCEPT !.at = "close", !.waits = "no", !.late = FALSE]

-----------------------------------------------------------------------------
(* The way to the tunnel.                                                  *)

(* InspectHostVoWiFiLine: the agent's instance is part of the target.      *)
Prepare ==
  /\ At("prepare")
  /\ worker' = [worker EXCEPT !.at = "strongSwan", !.target = agent]
  /\ UNCHANGED <<event, charon, ims, mutex, server, outside, counters, imsFaults>>

StartStrongSwan ==
  /\ At("strongSwan")
  /\ charon' = TRUE /\ event' = "connecting" /\ Moves("tunnel")
  /\ UNCHANGED <<ims, mutex, server, outside, counters, imsFaults>>

Initiate ==
  /\ At("tunnel") /\ charon /\ Moves("discover")
  /\ UNCHANGED <<event, charon, ims, mutex, server, outside, counters, imsFaults>>

(* discoverInnerAddress and collectPCSCF: one address after another.       *)
Discover ==
  /\ At("discover")
  /\ \E order \in [1 .. Cardinality(Proxies) -> Proxies] :
       /\ \A i, j \in DOMAIN order : order[i] = order[j] => i = j
       /\ worker' = [worker EXCEPT !.at = "register", !.left = order]
  /\ event' = "registering"
  /\ UNCHANGED <<charon, ims, mutex, server, outside, counters, imsFaults>>

StepFails ==
  /\ worker.at \in {"prepare", "strongSwan", "tunnel", "discover"}
  /\ ImsFault /\ Ends
  /\ UNCHANGED <<event, charon, ims, mutex, server, outside, counters>>

-----------------------------------------------------------------------------
(* EstablishIMSSession.                                                    *)

Calls == {s.call : s \in seen} \cup {binding.call}
NextCall == 1 + CHOOSE c \in Calls : \A d \in Calls : d <= c

OpenSession ==
  /\ Establishing /\ ims = NoSession /\ worker.left # <<>>
  /\ ims' = [call |-> NextCall, step |-> "initial", sequence |-> 1, nonce |-> 0,
             count |-> 0, keys |-> 0, tries |-> 0, retried |-> FALSE]
  /\ worker' = [worker EXCEPT !.left = Tail(@)]
  /\ UNCHANGED <<event, charon, mutex, server, outside, counters, imsFaults>>

(* A request the registrar gets; the branch tells it from a retransmission *)
(* of another.                                                             *)
Arrives(sequence, nonce, count) ==
  seen' = seen \cup {[call |-> ims.call, sequence |-> sequence, nonce |-> nonce,
                      count |-> count, branch |-> Cardinality(seen)]}

(* fail: the session is closed, and its associations are removed unless    *)
(* that fails too; the next address is tried, or the attempt ends.         *)
Associations == {[call |-> ims.call, key |-> ims.keys]}
Removed == kernel' = {} \/ (kernel' = kernel /\ kernel # {})

Gives ==
  /\ ims' = NoSession /\ Removed
  /\ IF worker.left = <<>> THEN Ends ELSE UNCHANGED worker

Untouched == UNCHANGED <<event, charon, mutex, server, agent, counters>>

(* 401: the challenge of the last answer counts.                           *)
Challenged ==
  /\ Establishing /\ ims # NoSession /\ ims.step = "initial"
  /\ issued < MaxNonces /\ issued' = issued + 1
  /\ Arrives(ims.sequence, 0, 0)
  /\ ims' = [ims EXCEPT !.step = "challenged", !.nonce = issued + 1]
  /\ UNCHANGED <<worker, kernel, binding, imsFaults>> /\ Untouched

(* 423: one repetition with the interval the registrar wants.              *)
IntervalTooBrief ==
  /\ Establishing /\ ims # NoSession /\ ims.step = "initial" /\ ~ims.retried /\ ImsFault
  /\ Arrives(ims.sequence, 0, 0)
  /\ ims' = [ims EXCEPT !.sequence = @ + 1, !.retried = TRUE]
  /\ UNCHANGED <<worker, kernel, issued, binding>> /\ Untouched

(* AuthenticateIMSChallenge, against the agent the worker inspected.       *)
Authenticates ==
  /\ Establishing /\ ims # NoSession /\ ims.step = "challenged" /\ worker.target = agent
  /\ ims' = [ims EXCEPT !.step = "keyed", !.keys = ims.nonce]
  /\ UNCHANGED <<worker, kernel, issued, seen, binding, imsFaults>> /\ Untouched

(* The SIM wants a new challenge: AUTS goes out under the old nonce, and   *)
(* the answer must bring another one.                                      *)
Refreshed(new) == new # ims.nonce

Resynchronises ==
  /\ Establishing /\ ims # NoSession /\ ims.step = "challenged" /\ worker.target = agent
  /\ ims.tries < Resynchronisations /\ ImsFault
  /\ Arrives(ims.sequence + 1, ims.nonce, 1)
  /\ \E new \in {ims.nonce, issued + 1} :
       /\ new <= MaxNonces
       /\ issued' = IF new = ims.nonce THEN issued ELSE new
       /\ IF Refreshed(new)
            THEN /\ ims' = [ims EXCEPT !.sequence = @ + 1, !.nonce = new, !.tries = @ + 1]
                 /\ UNCHANGED <<worker, kernel>>
            ELSE Gives
  /\ UNCHANGED binding /\ Untouched

(* InstallIMSXFRM removes what the reserved ids name before it adds.       *)
InstallXfrm ==
  /\ Establishing /\ ims # NoSession /\ ims.step = "keyed"
  /\ kernel' = Associations
  /\ ims' = [ims EXCEPT !.step = "protected"]
  /\ UNCHANGED <<worker, issued, seen, binding, imsFaults>> /\ Untouched

Registered ==
  /\ Establishing /\ ims # NoSession /\ ims.step = "protected"
  /\ Arrives(ims.sequence + 1, ims.nonce, 1)
  /\ binding' = Fresh(ims.call)
  /\ ims' = [ims EXCEPT !.step = "open", !.sequence = @ + 1, !.count = 1]
  /\ UNCHANGED <<worker, kernel, issued, imsFaults>> /\ Untouched

(* The SMS server starts, then the Line is reported online.                *)
GoOnline ==
  /\ Establishing /\ ims # NoSession /\ ims.step = "open"
  /\ server' = TRUE /\ event' = "online" /\ Moves("online")
  /\ UNCHANGED <<charon, ims, mutex, outside, counters, imsFaults>>

(* What the step's request was to the registrar, if it got it.             *)
RequestOfStep ==
  CASE ims.step = "initial" -> Arrives(ims.sequence, 0, 0)
    [] ims.step = "challenged" -> Arrives(ims.sequence + 1, ims.nonce, 1)
    [] ims.step = "protected" -> Arrives(ims.sequence + 1, ims.nonce, 1)
    [] OTHER -> UNCHANGED seen

(* Lost, refused, or a call that failed.  A registrar that took the last   *)
(* REGISTER keeps the session although its answer is lost.                 *)
EstablishmentFails ==
  /\ Establishing /\ ims # NoSession /\ ims.step # "open" /\ ImsFault
  /\ Gives
  /\ \/ UNCHANGED <<seen, binding>>
     \/ RequestOfStep /\ UNCHANGED binding
     \/ /\ ims.step = "protected" /\ RequestOfStep
        /\ binding' = Fresh(ims.call)
  /\ UNCHANGED issued /\ Untouched

AgentChanged ==
  /\ Establishing /\ ims # NoSession /\ ims.step = "challenged" /\ worker.target # agent
  /\ Gives
  /\ UNCHANGED <<issued, seen, binding, imsFaults>> /\ Untouched

-----------------------------------------------------------------------------
(* Online.                                                                 *)

Idle == At("online") /\ worker.waits = "no"

(* A tick of the loop calls into the session; the time limit of the call   *)
(* runs from here, but its wait for the mutex heeds no limit.              *)
CallSession(what) ==
  /\ Idle
  /\ IF what = "refresh" THEN Due /\ refreshes < MaxRefreshes ELSE mutex # "free"
  /\ worker' = [worker EXCEPT !.waits = what]
  /\ UNCHANGED <<event, charon, ims, mutex, server, outside, counters, imsFaults>>

WaitTooLong ==
  /\ worker.waits # "no" /\ mutex = "submission" /\ ~worker.late
  /\ worker' = [worker EXCEPT !.late = TRUE]
  /\ UNCHANGED <<event, charon, ims, mutex, server, outside, counters, imsFaults>>

Called(what) == At("online") /\ worker.waits = what /\ mutex = "free"

(* PollSMS: past its time limit it reads nothing, which is no error.       *)
Polled ==
  /\ Called("poll") /\ worker' = [worker EXCEPT !.waits = "no", !.late = FALSE]
  /\ UNCHANGED <<event, charon, ims, mutex, server, outside, counters, imsFaults>>

(* Past its time limit the packet is not written and the attempt ends.     *)
Keepalive ==
  /\ Called("keepalive")
  /\ IF worker.late THEN Ends ELSE worker' = [worker EXCEPT !.waits = "no"]
  /\ UNCHANGED <<event, charon, ims, mutex, server, outside, counters, imsFaults>>

RefreshBegins ==
  /\ Called("refresh") /\ ~worker.late /\ mutex' = "loop"
  /\ UNCHANGED <<worker, event, charon, ims, server, outside, counters, imsFaults>>

(* A request that is answered moves the counters of the session along.     *)
RefreshAnswered ==
  /\ mutex = "loop" /\ mutex' = "free"
  /\ Arrives(ims.sequence + 1, ims.nonce, ims.count + 1)
  /\ binding' = Fresh(ims.call)
  /\ ims' = [ims EXCEPT !.sequence = @ + 1, !.count = @ + 1]
  /\ worker' = [worker EXCEPT !.waits = "no"]
  /\ refreshes' = refreshes + 1
  /\ UNCHANGED <<event, charon, server, kernel, agent, issued, attempts, submits, imsFaults>>

(* No answer, a refusal, a new nonce, or the context ended: the attempt    *)
(* ends, and with it the digest state.                                     *)
RefreshFails ==
  /\ mutex = "loop" /\ mutex' = "free"
  /\ IF worker.stopping THEN UNCHANGED imsFaults ELSE ImsFault
  /\ \/ UNCHANGED <<seen, binding>>
     \/ /\ Arrives(ims.sequence + 1, ims.nonce, ims.count + 1)
        /\ binding' \in {binding, Fresh(ims.call)}
  /\ refreshes' = refreshes + 1 /\ Ends
  /\ UNCHANGED <<event, charon, ims, server, kernel, agent, issued, attempts, submits>>

(* No time is left to ask when the mutex is free at last.                  *)
RefreshTooLate ==
  /\ Called("refresh") /\ worker.late
  /\ refreshes' = refreshes + 1 /\ Ends
  /\ UNCHANGED <<event, charon, ims, mutex, server, outside, attempts, submits, imsFaults>>

(* strongSwan exits, its associations are gone, receiving fails, or the    *)
(* SMS server ends or does not even start.                                 *)
OnlineFails ==
  /\ Idle \/ (Establishing /\ ims # NoSession /\ ims.step = "open")
  /\ ImsFault /\ charon' \in BOOLEAN /\ Ends
  /\ UNCHANGED <<event, ims, mutex, server, outside, counters>>

(* The loop sees the end of its context between two calls.                 *)
LoopStops ==
  /\ Idle /\ worker.stopping /\ Ends
  /\ UNCHANGED <<event, charon, ims, mutex, server, outside, counters, imsFaults>>

(* SubmitSMS holds the mutex for as long as its segments take; a request   *)
(* that waits for another may outlast the server.                          *)
SubmissionStarts ==
  /\ server \/ (At("close") /\ event = "online")
  /\ mutex = "free" /\ ims # NoSession /\ submits < MaxSubmits
  /\ mutex' = "submission" /\ submits' = submits + 1
  /\ UNCHANGED <<worker, event, charon, ims, server, outside, attempts, refreshes, imsFaults>>

SubmissionEnds ==
  /\ mutex = "submission" /\ mutex' = "free"
  /\ UNCHANGED <<worker, event, charon, ims, server, outside, counters, imsFaults>>

-----------------------------------------------------------------------------
(* The end of an attempt: the deferred calls, last one first.              *)

StopServer ==
  /\ At("close") /\ server /\ server' = FALSE
  /\ UNCHANGED <<worker, event, charon, ims, mutex, outside, counters, imsFaults>>

(* Close waits for the mutex.                                              *)
CanClose == mutex = "free"

CloseSession ==
  /\ At("close") /\ ~server /\ ims # NoSession /\ CanClose
  /\ ims' = NoSession /\ Removed
  /\ UNCHANGED <<worker, event, charon, mutex, server, agent, issued, seen, binding,
                 counters, imsFaults>>

TerminateStrongSwan ==
  /\ At("close") /\ ~server /\ ims = NoSession
  /\ charon' = FALSE /\ Moves("ended")
  /\ UNCHANGED <<event, ims, mutex, server, outside, counters, imsFaults>>

AttemptEnds ==
  /\ At("ended")
  /\ IF worker.stopping THEN Moves("stopped") /\ UNCHANGED event
       ELSE Moves("backoff") /\ event' = "reconnecting"
  /\ UNCHANGED <<charon, ims, mutex, server, outside, counters, imsFaults>>

NextAttempt ==
  /\ At("backoff") /\ attempts < MaxAttempts
  /\ attempts' = attempts + 1 /\ Moves("prepare")
  /\ UNCHANGED <<event, charon, ims, mutex, server, outside, refreshes, submits, imsFaults>>

(* The context ends: netd stops the worker.                                *)
StopWorker ==
  /\ ~worker.stopping /\ ImsFault
  /\ worker' = [worker EXCEPT !.stopping = TRUE,
                  !.at = IF @ = "backoff" THEN "stopped"
                           ELSE IF @ \in {"online", "ended", "close"} THEN @ ELSE "close"]
  /\ UNCHANGED <<event, charon, ims, mutex, server, outside, counters>>

-----------------------------------------------------------------------------
(* Time and the agent.                                                     *)

(* What the code does before time passes: the loop handles a timer that    *)
(* has expired, a call proceeds once it can have the mutex, a refresh gives *)
(* up at its limit.                                                        *)
Urgent ==
  \/ Idle /\ Due
  \/ At("online") /\ worker.waits # "no" /\ mutex = "free"
  \/ mutex = "loop" /\ binding.took >= ExchangeLimit
  \/ Establishing /\ ims # NoSession /\ ims.step = "open"

Waits == At("online") /\ worker.waits # "no" /\ mutex = "submission"

TimePasses ==
  /\ binding.life > 0 /\ ~Urgent
  /\ binding' = [binding EXCEPT !.life = @ - 1,
                    !.waited = IF Due /\ Waits THEN @ + 1 ELSE @,
                    !.took = IF mutex = "loop" THEN @ + 1 ELSE @]
  /\ UNCHANGED <<worker, event, charon, ims, mutex, server, kernel, agent, issued, seen,
                 counters, imsFaults>>

AgentRestarts ==
  /\ ImsFault /\ agent' = agent + 1
  /\ UNCHANGED <<worker, event, charon, ims, mutex, server, kernel, issued, seen, binding,
                 counters>>

ImsNext ==
  \/ Prepare \/ StartStrongSwan \/ Initiate \/ Discover \/ StepFails
  \/ OpenSession \/ Challenged \/ IntervalTooBrief \/ Authenticates \/ Resynchronises
  \/ InstallXfrm \/ Registered \/ GoOnline \/ EstablishmentFails \/ AgentChanged
  \/ \E what \in {"poll", "keepalive", "refresh"} : CallSession(what)
  \/ WaitTooLong \/ Polled \/ Keepalive \/ RefreshBegins \/ RefreshAnswered \/ RefreshFails
  \/ RefreshTooLate \/ OnlineFails \/ LoopStops
  \/ SubmissionStarts \/ SubmissionEnds
  \/ StopServer \/ CloseSession \/ TerminateStrongSwan \/ AttemptEnds \/ NextAttempt
  \/ StopWorker \/ TimePasses \/ AgentRestarts

ImsSpec == ImsInit /\ [][ImsNext]_imsVars

-----------------------------------------------------------------------------
(* No two REGISTER requests carry one CSeq, and no nonce is answered twice *)
(* with one count (comment at session.go:873).                             *)
DigestsAreFresh ==
  \A r, s \in seen :
    /\ r.call = s.call /\ r.sequence = s.sequence => r = s
    /\ r.nonce = s.nonce /\ r.nonce # 0 /\ r.count = s.count => r = s

(* A protected request, and every segment of a submission, goes out under  *)
(* this session's associations and no other, which carry the keys of the   *)
(* challenge its REGISTER answers.                                         *)
ProtectedByOwnKeys ==
  /\ ims # NoSession /\ ims.step \in {"protected", "open"} =>
       kernel = {[call |-> ims.call, key |-> ims.nonce]}
  /\ mutex = "submission" => ims # NoSession /\ ims.step = "open"

(* What is reported online is registered, and its registration lapses only *)
(* when requests of the SMS server kept the loop from the mutex, since the *)
(* refresh was due, for longer than the lead leaves beside the exchange.   *)
OnlineIsRegistered ==
  At("online") => /\ event = "online" /\ ims # NoSession /\ ims.step = "open"
                  /\ binding.call = ims.call
                  /\ binding.life = 0 => binding.waited >= Lead - ExchangeLimit

(* Nothing of an attempt is left when the next one begins.                 *)
NothingOutlives ==
  worker.at \in {"prepare", "backoff", "stopped"} =>
    ims = NoSession /\ ~server /\ ~charon /\ mutex = "free"

(* All of it, through lost requests and answers, restarts of the agent and *)
(* stops at any time (EstablishIMSSession, RunWorker).                     *)
RegistrationIsSafe ==
  /\ ImsTypeOK
  /\ DigestsAreFresh /\ ProtectedByOwnKeys /\ OnlineIsRegistered /\ NothingOutlives
=============================================================================
