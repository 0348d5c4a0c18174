---------------------------- MODULE SimIdentity -----------------------------
(***************************************************************************)
(* The ML307A adapter's calls on the SIM: reading the IMS identity from an *)
(* ISIM application or deriving it from the IMSI, and the USIM AKA         *)
(* exchange.  An application is reached through a logical channel of the   *)
(* card, of which there are few: CCHO opens, CGLA carries, CCHC closes.    *)
(*                                                                         *)
(* One call at a time: the device's gate (DeviceGate) is held.  The card   *)
(* and the modem are external.  An EF is its outcome: a text, padding only *)
(* or something else; TLVs, status words of the repeated GET RESPONSE and  *)
(* hexadecimal are left out.                                               *)
(***************************************************************************)
EXTENDS Naturals, FiniteSets, Sequences

CONSTANTS
  Aids,          \* ISIM application ids
  Usim,          \* usimApplicationAID
  ChannelLimit,  \* external: channels a card has at most
  MaxSimCalls,   \* bound: calls and the applications they ask, together
  MaxSimFaults   \* bound: lost answers and failing commands

SimAssumption == /\ ChannelLimit \in Nat /\ MaxSimCalls \in Nat /\ MaxSimFaults \in Nat
                 /\ IsFiniteSet(Aids)
ASSUME SimAssumption

VARIABLES
  card,      \* external: the directory EFDIR, applications, files, channels
  channels,  \* external: open logical channels
  access,    \* the call in progress
  given,     \* answers given: source, what they were made of
  lost,      \* channels the adapter could not know or could not close
  simCalls, simFaults

simVars == <<card, channels, access, given, lost, simCalls, simFaults>>

NoAccess == [at |-> "idle"]
Contents == {"text", "padding", "other"}
Files == {"private", "domain", "public"}
NextFile == [private |-> "domain", domain |-> "public"]
SimFault == simFaults < MaxSimFaults /\ simFaults' = simFaults + 1

Cards == [directory : {"listed", "unsupported"}, applications : SUBSET Aids,
          files : [Aids -> [Files -> Contents]], channels : 1 .. ChannelLimit]
SimChannels == 1 .. card.channels

SimCalls == [at : {"open", "answer"}, kind : {"identity", "aka"},
             aids : Seq(Aids \cup {Usim}), failed : BOOLEAN,
             refused : SUBSET (Aids \cup {Usim}), unprovisioned : SUBSET Aids]
Readings == [at : {"read", "close"}, channel : SimChannels, file : Files,
             got : Seq(Aids \X Files), call : SimCalls]
Leavings == [at : {"abandon"}, channel : SimChannels, call : SimCalls,
             answered : BOOLEAN]

SimTypeOK ==
  /\ card \in Cards
  /\ channels \subseteq SimChannels /\ lost \subseteq SimChannels
  /\ access = NoAccess \/ access \in SimCalls \/ access \in Readings
       \/ access \in Leavings
  /\ simCalls \in 0 .. MaxSimCalls /\ simFaults \in 0 .. MaxSimFaults

SimInit ==
  /\ card \in Cards
  /\ channels = {} /\ access = NoAccess /\ given = {} /\ lost = {}
  /\ simCalls = 0 /\ simFaults = 0

-----------------------------------------------------------------------------

(* validateML307ASIMAKATarget and discovery: the directory's ISIM          *)
(* applications in order, or the generic one if the modem has no command   *)
(* for it.  Any order of the applications is taken; the generic name may   *)
(* mean any of them or none.                                               *)
Candidates ==
  IF card.directory = "listed"
    THEN {s \in [1 .. Cardinality(card.applications) -> card.applications] :
            \A i, j \in DOMAIN s : i # j => s[i] # s[j]}
    ELSE {<<a>> : a \in Aids}

Asks(n) == simCalls + n <= MaxSimCalls /\ simCalls' = simCalls + n

(* A directory without an ISIM application is an answer, too.              *)
BeginAccess(kind, aids) ==
  /\ access = NoAccess /\ Asks(1 + Len(aids))
  /\ access' = [at |-> IF aids = << >> THEN "answer" ELSE "open", kind |-> kind,
                aids |-> aids, failed |-> FALSE, refused |-> {},
                unprovisioned |-> {}]
  /\ UNCHANGED <<card, channels, given, lost, simFaults>>

(* The target check or the discovery fails: so does the call, nothing was  *)
(* opened.                                                                 *)
CheckFails ==
  /\ access = NoAccess /\ Asks(1)
  /\ SimFault
  /\ UNCHANGED <<card, channels, access, given, lost>>

Application == Head(access.aids)

(* A candidate that failed or is not there does not end the call: the next *)
(* one is tried, and both are remembered.  The AKA exchange has one        *)
(* application.                                                            *)
NextCandidate(c, failed, refused) ==
  [c EXCEPT !.at = IF Len(c.aids) > 1 THEN "open" ELSE "answer",
            !.aids = Tail(c.aids), !.failed = c.failed \/ failed,
            !.refused = c.refused \cup refused]

Open(c) ==
  /\ access.at = "open" /\ c \in SimChannels \ channels
  /\ Application \in card.applications \cup {Usim}
  /\ channels' = channels \cup {c}
  /\ access' = [at |-> "read", channel |-> c, file |-> "private", got |-> << >>,
                call |-> access]
  /\ UNCHANGED <<card, given, lost, simCalls, simFaults>>

(* No channel is free or no such application there: the modem answers with *)
(* an error, which the adapter takes for an application that is not there. *)
OpenRefused ==
  /\ access.at = "open"
  /\ channels = SimChannels \/ Application \notin card.applications \cup {Usim}
  /\ access' = NextCandidate(access, access.kind = "aka", {Application})
  /\ UNCHANGED <<card, channels, given, lost, simCalls, simFaults>>

(* CCHO fails, or its answer is lost after the channel is open.            *)
OpenFails(c) ==
  /\ access.at = "open" /\ SimFault
  /\ \/ /\ c \in SimChannels \ channels
        /\ Application \in card.applications \cup {Usim}
        /\ channels' = channels \cup {c} /\ lost' = lost \cup {c}
     \/ UNCHANGED <<channels, lost>>
  /\ access' = NextCandidate(access, TRUE, {})
  /\ UNCHANGED <<card, given, simCalls>>

-----------------------------------------------------------------------------
(* Reading: EFIMPI, EFDOMAIN and EFIMPU in this order.                     *)

Call == access.call
App == Head(Call.aids)
Abandon(failed, unprovisioned) ==
  access' = [at |-> "abandon", channel |-> access.channel, answered |-> FALSE,
             call |-> [Call EXCEPT !.failed = @ \/ failed,
                                   !.unprovisioned = @ \cup unprovisioned]]

Reading == access.at = "read" /\ Call.kind = "identity"

(* Only an EFIMPI of padding makes the private identity unknown; anything  *)
(* else that is not a text is a failure.                                   *)
MutantUnknownIdentity(file, content) == content = "padding"
UnknownIdentity(file, content) == file = "private" /\ content = "padding"

ReadFile ==
  /\ Reading
  /\ LET content == card.files[App][access.file]
     IN IF content # "text"
          THEN LET unknown == UnknownIdentity(access.file, content)
               IN Abandon(~unknown, IF unknown THEN {App} ELSE {})
          ELSE access' = [access EXCEPT
                 !.got = Append(@, <<App, access.file>>),
                 !.at = IF access.file = "public" THEN "close" ELSE "read",
                 !.file = IF @ = "public" THEN @ ELSE NextFile[@]]
  /\ UNCHANGED <<card, channels, given, lost, simCalls, simFaults>>

(* exchangeML307AUSIMAKA: one APDU; the outcome is passed on.              *)
Authenticate ==
  /\ access.at = "read" /\ Call.kind = "aka"
  /\ access' = [at |-> "abandon", channel |-> access.channel, call |-> Call,
                answered |-> TRUE]
  /\ UNCHANGED <<card, channels, given, lost, simCalls, simFaults>>

CommandFails ==
  /\ access.at = "read" /\ SimFault
  /\ Abandon(TRUE, {})
  /\ UNCHANGED <<card, channels, given, lost, simCalls>>

-----------------------------------------------------------------------------

(* The close after a complete reading must be answered, or the reading     *)
(* fails and the deferred close tries once more.                           *)
Close ==
  /\ access.at = "close"
  /\ channels' = channels \ {access.channel}
  /\ given' = given \cup {[source |-> "isim", of |-> access.got]}
  /\ access' = NoAccess
  /\ UNCHANGED <<card, lost, simCalls, simFaults>>

CloseFails(done) ==
  /\ access.at = "close" /\ SimFault
  /\ channels' = IF done THEN channels \ {access.channel} ELSE channels
  /\ Abandon(TRUE, {})
  /\ UNCHANGED <<card, given, lost, simCalls>>

(* The deferred close; its result is ignored.                              *)
MutantClosed == IF access.answered THEN {access.channel} ELSE {}
Closed == {access.channel}

Resumed == IF Call.kind = "aka" THEN NoAccess ELSE NextCandidate(Call, FALSE, {})
AkaAnswer == IF access.answered
               THEN {[source |-> "usim", of |-> << >>]} ELSE {}

DeferredClose ==
  /\ access.at = "abandon"
  /\ channels' = channels \ Closed
  /\ given' = given \cup AkaAnswer
  /\ access' = Resumed
  /\ UNCHANGED <<card, lost, simCalls, simFaults>>

DeferredCloseFails ==
  /\ access.at = "abandon" /\ SimFault
  /\ lost' = lost \cup ({access.channel} \cap channels)
  /\ given' = given \cup AkaAnswer
  /\ access' = Resumed
  /\ UNCHANGED <<card, channels, simCalls>>

(* All candidates tried: a failure among them is the answer, otherwise the *)
(* identity is derived from the IMSI.                                      *)
AnswerDerived ==
  /\ access.at = "answer"
  /\ given' = IF access.failed \/ access.kind = "aka" THEN given
                ELSE given \cup {[source |-> "derived",
                                  of |-> <<access.unprovisioned, access.refused>>]}
  /\ access' = NoAccess
  /\ UNCHANGED <<card, channels, lost, simCalls, simFaults>>

SimNext ==
  \/ \E aids \in Candidates : BeginAccess("identity", aids)
  \/ BeginAccess("aka", <<Usim>>)
  \/ CheckFails
  \/ \E c \in 1 .. ChannelLimit : Open(c) \/ OpenFails(c)
  \/ OpenRefused
  \/ ReadFile \/ Authenticate \/ CommandFails
  \/ Close \/ \E done \in BOOLEAN : CloseFails(done)
  \/ DeferredClose \/ DeferredCloseFails
  \/ AnswerDerived

SimSpec == SimInit /\ [][SimNext]_simVars

-----------------------------------------------------------------------------

(* Between calls no channel is open but those the adapter could not close, *)
(* on whatever path the call ended (ml307a_isim.go:36-111,                 *)
(* ml307a_simaka.go:203-222).                                              *)
ChannelsAreClosed == access = NoAccess => channels \subseteq lost

(* An ISIM answer is of one application alone, all of whose files are      *)
(* texts; a derived one is given only if the private identity of every     *)
(* listed application is unprovisioned or it could not be opened, so that  *)
(* identities of different sources are never mixed (ml307a_isim.go:39-60,  *)
(* 91-99).                                                                 *)
AnswersAreOfOneSource ==
  \A g \in given :
    /\ g.source = "isim" =>
         \E a \in Aids : /\ g.of = <<<<a, "private">>, <<a, "domain">>, <<a, "public">>>>
                         /\ \A f \in Files : card.files[a][f] = "text"
    /\ g.source = "derived" =>
         /\ \A a \in g.of[1] : card.files[a]["private"] = "padding"
         /\ card.directory = "listed" => card.applications \subseteq g.of[1] \cup g.of[2]

(* Every channel the adapter opened is closed again, and an answer comes   *)
(* from one source (ML307A adapter).                                       *)
SimIsSafe == SimTypeOK /\ ChannelsAreClosed /\ AnswersAreOfOneSource
=============================================================================
