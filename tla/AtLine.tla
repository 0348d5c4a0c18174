------------------------------- MODULE AtLine -------------------------------
(***************************************************************************)
(* Conversations with a modem over one control endpoint: a serial line     *)
(* (attransport, the SMS tty transport) or a remote bridge (atremote), and *)
(* what is concluded from its answers: a probe's readings (standardat) and *)
(* whether a text message went out (standardsms.Driver).                   *)
(*                                                                         *)
(* The modem takes commands in the order they are typed and answers line   *)
(* after line, at its own pace.  Whoever waits may give up before; nothing *)
(* in an answer says which command it is for.                              *)
(***************************************************************************)
EXTENDS Naturals, SequencesExt

CONSTANTS
  MaxTasks,       \* bound: probes and sends
  MaxLineFaults   \* bound: timeouts, failing writes, lost answers, crashes

ASSUME LineAssumption == MaxTasks \in Nat

VARIABLES
  transport,  \* "at", "tty" or "bridge"
  holder,     \* who has the lock or the bridge's session: "nobody", the
              \* "task", or a "ghost" the agent has forgotten
  settings,   \* the terminal's: "system" or "raw"
  restores,   \* what the holder found there
  task,       \* what passed the device's gate and where it is
  modem,      \* the command it works on and what is still to be answered
  typed,      \* commands it has not begun
  input,      \* lines that were received and not read
  givenUp,    \* history: commands nobody waits for any more
  strays,     \* history: commands whose lines were taken by another
  accepted,   \* history: messages the modem took and the network accepted
  sayings,    \* history: what the driver says of each message
  tasks, crashed, lineFaults

lineVars == <<transport, holder, settings, restores, task, modem, typed, input,
              givenUp, strays, accepted, sayings, tasks, crashed, lineFaults>>
terminal    == <<holder, settings, restores>>
serial  == <<modem, typed, input>>
history == <<givenUp, strays, accepted, sayings>>
counts  == <<tasks, crashed, lineFaults>>

Resting == [at |-> "resting"]
Quiet == [of |-> [n |-> 0, what |-> "none"], left |-> <<>>, prompting |-> FALSE, text |-> <<>>]

(* A probe goes on after a query that failed; a send asserts the mode and  *)
(* the storage each time.                                                  *)
Script(kind) == IF kind = "send" THEN <<"mode", "storage", "submit">>
                                 ELSE <<"handshake", "identity", "calls">>

Now == [n |-> task.n, what |-> Script(task.kind)[task.next]]
Doing(at) == task.at = at

(* A probe has a session of its own where text messages have none.         *)
Via == IF transport = "tty" /\ task.kind = "probe" THEN "at" ELSE transport
Steps == {"resting", "closed", "ready", "prompt", "answer", "answered", "rejected"}
Finals == {"OK", "ERROR"}

LineTypeOK ==
  /\ holder \in {"nobody", "task", "ghost"}
  /\ {settings, restores} \subseteq {"system", "raw"}
  /\ task.at \in Steps
  /\ Len(typed) <= 3 * MaxTasks

LineInit ==
  /\ transport \in {"at", "tty", "bridge"}
  /\ holder = "nobody" /\ settings = "system" /\ restores = "system"
  /\ task = Resting
  /\ modem = Quiet /\ typed = <<>> /\ input = <<>>
  /\ givenUp = {} /\ strays = {} /\ accepted = {}
  /\ sayings = [n \in 1 .. MaxTasks |-> "none"]
  /\ tasks = 0 /\ crashed = FALSE /\ lineFaults = 0

Faults == lineFaults < MaxLineFaults /\ lineFaults' = lineFaults + 1

-----------------------------------------------------------------------------
(* The modem, external.                                                    *)

Answers(what) ==
  CASE what \in {"mode", "handshake"} -> {<<"OK">>, <<"ERROR">>}
    [] what = "storage"  -> {<<"+CPMS", "OK">>, <<"ERROR">>}
    [] what = "identity" -> {<<"text", "OK">>}
    [] what = "calls"    -> {<<"+CLCC", "OK">>, <<"OK">>}
    [] OTHER             -> {<<">">>, <<"ERROR">>}

Executes ==
  /\ modem = Quiet /\ typed # <<>>
  /\ \E lines \in Answers(Head(typed).what) :
       modem' = [Quiet EXCEPT !.of = Head(typed), !.left = lines]
  /\ typed' = Tail(typed)
  /\ UNCHANGED <<transport, terminal, task, input, history, counts>>

(* A modem that waits for a message takes everything for its text, what    *)
(* was typed before its prompt too, up to a Ctrl-Z; it refuses a text that *)
(* is not one PDU.                                                         *)
Emit ==
  /\ modem.left # <<>>
  /\ input' = Append(input, [of |-> modem.of, line |-> Head(modem.left)])
  /\ IF Head(modem.left) = ">"
       THEN /\ modem' = [modem EXCEPT !.left = <<>>, !.prompting = TRUE, !.text = typed]
            /\ typed' = <<>>
       ELSE /\ modem' = IF Len(modem.left) = 1 THEN Quiet
                          ELSE [modem EXCEPT !.left = Tail(@)]
            /\ UNCHANGED typed
  /\ UNCHANGED <<transport, terminal, task, history, counts>>

Type(c) == IF modem.prompting
             THEN modem' = [modem EXCEPT !.text = Append(@, c)] /\ UNCHANGED typed
             ELSE typed' = Append(typed, c) /\ UNCHANGED modem

TypeMessage(n) ==
  IF ~ modem.prompting THEN UNCHANGED <<modem, accepted>>
    ELSE \/ /\ modem' = [modem EXCEPT !.prompting = FALSE, !.left = <<"ERROR">>]
            /\ UNCHANGED accepted
         \/ /\ modem.text = <<>>
            /\ modem' = [modem EXCEPT !.prompting = FALSE, !.left = <<"+CMGS", "OK">>]
            /\ accepted' = accepted \cup {n}

-----------------------------------------------------------------------------
(* Tasks and their sessions: the device's gate lets one task in at a time  *)
(* (DeviceGate).  The SMS tty transport opens a session for each command,  *)
(* the other transports one for the task.                                  *)

Start(kind) ==
  /\ Doing("resting") /\ tasks < MaxTasks
  /\ tasks' = tasks + 1
  /\ task' = [at |-> "closed", kind |-> kind, n |-> tasks + 1, next |-> 1, got |-> <<>>]
  /\ UNCHANGED <<transport, terminal, serial, history, crashed, lineFaults>>

ClosePort ==
  IF holder # "task" THEN UNCHANGED terminal
    ELSE /\ settings' = restores
         /\ holder' = "nobody" /\ UNCHANGED restores

(* The end of a task; a send says what became of its message.              *)
Finish(said) ==
  /\ task' = Resting
  /\ sayings' = IF task.kind = "send" THEN [sayings EXCEPT ![task.n] = said]
                  ELSE sayings
  /\ ClosePort

Continue ==
  /\ task' = [task EXCEPT !.next = @ + 1, !.got = <<>>,
                         !.at = IF Via = "tty" THEN "closed" ELSE "ready"]
  /\ IF Via = "tty" THEN ClosePort ELSE UNCHANGED terminal
  /\ UNCHANGED sayings

(* A command without an answer: only a probe goes on, and only after its   *)
(* handshake.                                                              *)
Unanswered(said) ==
  IF Now.what = "identity" THEN Continue ELSE Finish(said)

OpenPort ==
  /\ Doing("closed") /\ transport # "bridge" /\ holder = "nobody"
  /\ holder' = "task" /\ restores' = settings /\ settings' = "raw"
  /\ task' = [task EXCEPT !.at = "ready"]
  /\ UNCHANGED <<transport, serial, history, counts>>

(* Open elsewhere, locked, or not to be configured.                        *)
PortFails ==
  /\ Doing("closed")
  /\ Finish("not dispatched")
  /\ UNCHANGED <<transport, serial, givenUp, strays, accepted, counts>>

(* The input is flushed and the command written.                           *)
Write ==
  /\ Doing("ready") /\ transport # "bridge"
  /\ input' = <<>>
  /\ Type(Now)
  /\ task' = [task EXCEPT !.at = IF Now.what = "submit" THEN "prompt" ELSE "answer"]
  /\ UNCHANGED <<transport, terminal, history, counts>>

Has(lines, wanted) == \E i \in DOMAIN lines : lines[i].line \in wanted

(* One read takes what there is.  A terminal line before the prompt is the *)
(* answer: no message was invited.                                         *)
Receive(k) ==
  /\ Doing("answer") \/ Doing("prompt")
  /\ k \in 1 .. Len(input)
  /\ input' = SubSeq(input, k + 1, Len(input))
  /\ LET got == task.got \o SubSeq(input, 1, k)
     IN IF Has(got, Finals)
          THEN /\ task' = [task EXCEPT !.got = got,
                             !.at = IF @ = "prompt" THEN "rejected" ELSE "answered"]
               /\ UNCHANGED <<modem, accepted>>
        ELSE IF Doing("prompt") /\ Has(got, {">"})
          THEN /\ task' = [task EXCEPT !.got = <<>>, !.at = "answer"]
               /\ TypeMessage(task.n)
          ELSE task' = [task EXCEPT !.got = got] /\ UNCHANGED <<modem, accepted>>
  /\ UNCHANGED <<transport, terminal, typed, givenUp, strays, sayings, counts>>

(* Nothing came in time, the caller went away or the line failed: before   *)
(* the message was written it is known that it was not.                    *)
MutantGivingUp == "not dispatched"
GivingUp == IF Doing("prompt") THEN "not dispatched" ELSE "uncertain"
GiveUp ==
  /\ Doing("answer") \/ Doing("prompt")
  /\ Faults
  /\ givenUp' = givenUp \cup {Now}
  /\ Unanswered(IF Now.what = "submit" THEN GivingUp ELSE "not dispatched")
  /\ UNCHANGED <<transport, serial, strays, accepted, tasks, crashed>>

(* The write of the message fails halfway.                                 *)
MessageBreaks ==
  /\ Doing("prompt") /\ Has(task.got \o input, {">"})
  /\ ~ Has(task.got \o input, Finals)
  /\ Faults
  /\ input' = <<>>
  /\ modem' = IF modem.prompting THEN [modem EXCEPT !.text = Append(@, Now)] ELSE modem
  /\ givenUp' = givenUp \cup {Now}
  /\ Finish("uncertain")
  /\ UNCHANGED <<transport, typed, strays, accepted, tasks, crashed>>

-----------------------------------------------------------------------------
(* What is concluded from an answer.                                       *)

(* The tty transport cuts it after the terminal line.                      *)
Lines ==
  LET got == task.got
      first == Min({i \in DOMAIN got : got[i].line \in Finals})
  IN IF Via = "tty" THEN SubSeq(got, 1, first) ELSE got

Body(lines) == [i \in 1 .. Len(lines) - 1 |-> lines[i].line]

MutantFits(what, body) == TRUE
Fits(what, body) ==
  CASE what = "mode"    -> body = <<>>
    [] what = "storage" -> body = <<"+CPMS">>
    [] OTHER            -> body = <<"+CMGS">>

Said ==
  CASE Last(Lines).line = "OK" /\ Fits(Now.what, Body(Lines)) -> "submitted"
    [] Last(Lines).line = "ERROR" -> "refused"
    [] OTHER -> "uncertain"

(* To attransport a terminal line instead of a prompt means that nothing   *)
(* was dispatched; the tty transport returns it as the answer.             *)
SaidOfMessage == IF Doing("rejected") /\ transport = "at"
                      THEN "not dispatched" ELSE Said

TakeAnswer ==
  /\ Doing("answered") \/ Doing("rejected")
  /\ strays' = strays \cup {[of |-> l.of, by |-> Now] :
                             l \in {l \in Range(Lines) : l.of # Now}}
  /\ CASE Now.what = "submit" -> Finish(SaidOfMessage)
       [] Now.what \in {"mode", "storage"} ->
            IF Said = "submitted" THEN Continue ELSE Finish("not dispatched")
       [] Now.what = "handshake" ->
            IF Has(Lines, {"OK"}) THEN Continue ELSE Finish("none")
       [] Now.what = "identity" -> Continue
       [] OTHER -> Finish("none")
  /\ UNCHANGED <<transport, serial, givenUp, accepted, counts>>

-----------------------------------------------------------------------------
(* The bridge, external, does the framing; the requests to it and its      *)
(* answers may be lost.                                                    *)

BridgeOpens(lost) ==
  /\ Doing("closed") /\ transport = "bridge" /\ holder = "nobody"
  /\ IF lost THEN /\ Faults /\ holder' = "ghost"
                  /\ task' = Resting
                  /\ sayings' = IF task.kind = "send"
                                  THEN [sayings EXCEPT ![task.n] = "not dispatched"]
                                  ELSE sayings
             ELSE /\ holder' = "task" /\ task' = [task EXCEPT !.at = "ready"]
                  /\ UNCHANGED <<sayings, lineFaults>>
  /\ UNCHANGED <<transport, settings, restores, serial, givenUp, strays, accepted,
                 tasks, crashed>>

(* The session's time is over, whoever may still want it.                  *)
BridgeExpires ==
  /\ transport = "bridge" /\ holder # "nobody"
  /\ holder' = "nobody"
  /\ UNCHANGED <<transport, settings, restores, task, serial, history, counts>>

(* A command is refused by a bridge that does not know the session; one    *)
(* that does runs it, and says with a status of its own that no prompt     *)
(* came.                                                                   *)
BridgeRefuses ==
  /\ Doing("ready") /\ transport = "bridge" /\ holder # "task"
  /\ Unanswered(IF Now.what = "submit" THEN "uncertain" ELSE "not dispatched")
  /\ UNCHANGED <<transport, serial, givenUp, strays, accepted, counts>>

BridgeRuns(done, lost) ==
  /\ Doing("ready") /\ transport = "bridge" /\ holder = "task"
  /\ IF lost THEN Faults ELSE UNCHANGED lineFaults
  /\ accepted' = IF done /\ Now.what = "submit" THEN accepted \cup {task.n}
                                                   ELSE accepted
  /\ CASE lost -> Unanswered(IF Now.what = "submit" THEN "uncertain"
                                                          ELSE "not dispatched")
       [] ~ lost /\ done /\ task.next < 3 -> Continue
       [] ~ lost /\ done /\ task.next = 3 -> Finish("submitted")
       [] OTHER -> \E said \in {"refused", "not dispatched"} :
                     Unanswered(IF Now.what = "submit" THEN said
                                                             ELSE "not dispatched")
  /\ UNCHANGED <<transport, settings, restores, serial, givenUp, strays, tasks, crashed>>

-----------------------------------------------------------------------------
(* The agent stops: the locks go, the terminal stays as it is, a bridge's  *)
(* session stays until it expires.  The journal answers for its messages.  *)
AgentCrashes ==
  /\ Faults /\ crashed' = TRUE
  /\ holder' = IF transport = "bridge" /\ holder # "nobody" THEN "ghost" ELSE "nobody"
  /\ task' = Resting
  /\ givenUp' = IF task.at \in {"prompt", "answer", "answered", "rejected"}
                   THEN givenUp \cup {Now} ELSE givenUp
  /\ UNCHANGED <<transport, settings, restores, serial, strays, accepted, sayings, tasks>>

LineNext ==
  \/ Executes \/ Emit \/ BridgeExpires \/ AgentCrashes
  \/ \E kind \in {"probe", "send"} : Start(kind)
  \/ OpenPort \/ PortFails \/ Write
  \/ \E k \in 1 .. Len(input) : Receive(k)
  \/ GiveUp \/ MessageBreaks \/ TakeAnswer
  \/ \E lost \in BOOLEAN : BridgeOpens(lost)
  \/ BridgeRefuses
  \/ \E done, lost \in BOOLEAN : BridgeRuns(done, lost)

LineSpec == LineInit /\ [][LineNext]_lineVars

-----------------------------------------------------------------------------
(* What the driver says of a message is so: `submitted' only of one the    *)
(* modem took itself, `not dispatched' and `refused' only of one it did    *)
(* not, whatever lines of earlier commands are still to come.              *)
SayingIsTrue ==
  \A n \in 1 .. MaxTasks :
    /\ sayings[n] = "submitted" => n \in accepted
    /\ sayings[n] \in {"not dispatched", "refused"} => n \notin accepted

(* An answer holds no line of another command, unless nobody waited for    *)
(* that one any more, or that one was itself answered by lines of another. *)
StraysWereGivenUp ==
  \A stray \in strays :
    stray.of \in givenUp \/ \E other \in strays : other.by = stray.of

(* The terminal is left as it was found, unless the agent stopped.         *)
SettingsAreRestored ==
  holder = "nobody" /\ ~ crashed => settings = "system"

LineIsSafe == /\ LineTypeOK
              /\ SayingIsTrue
              /\ StraysWereGivenUp
              /\ SettingsAreRestored
=============================================================================
