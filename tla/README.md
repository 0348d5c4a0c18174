# Verification of simplus

TLA+ models of the parts of simplus where the order of events, or a boundary,
decides what a user is told or what reaches a network, a modem or a disk; the
TLC configurations that check them; and proofs for TLAPS. Paths below are
relative to the repository; `internal/` stands for `src/internal/` of
`PROJECT.json`.

| module | what it models | checked by |
| --- | --- | --- |
| `SmsStatus` | the guarded UPDATE statements on an outbound row | (used by `OutboundSms`) |
| `SmsOutcome` | abstract: what is promised about outbound messages | refined by `OutboundSms` |
| `OutboundSms` | sending over host VoWiFi: simplusd, simplus-netd, worker, network | `MCOutboundSms`, `MCImsWorker` |
| `OutboundSms_proofs`, `OutboundSmsSafety_proofs` | its theorems | TLAPS |
| `InboundSms` | receiving over host VoWiFi, up to the unread marker | `MCInboundSms`, `MCTextInboxes` |
| `InboundSms_proofs` | its theorems | TLAPS |
| `ImsCorrelation` | RP references, retirement, In-Reply-To | `MCImsWorker` |
| `ImsRegistration` | a worker's attempts, REGISTER exchanges, the loop online, teardown | `MCImsWorker` |
| `ImsWorker_proofs` | theorems of both | TLAPS |
| `ModemInbox` | a modem's message storage and the agent's records | `MCTextInboxes` |
| `ModemSend` | the agent's journal of sends and the prompted exchange | `MCTextInboxes` |
| `Modem_proofs` | theorems of both | TLAPS |
| `VowifiLifecycle` | a Line's worker: intent, reconciliation, Start, Stop, crashes | `MCVowifiLifecycle`, `MCNetd` |
| `MihomoRuntime` | subscriptions, artifacts, selection, the Mihomo process | `MCNetd` |
| `CoreInstall` | installing a Mihomo core | `MCNetd` |
| `Mihomo` | both together | `MCNetd` |
| `Netd_proofs` | theorems of `VowifiLifecycle` and `Mihomo` | TLAPS |
| `DeviceGate` | the agent's device gate, scans, fences | `MCAgent` |
| `HardwareNews` | a hardware change on its way to a browser | `MCAgent` |
| `OutcomeLedger` | radio commands with a durable outcome | `MCAgent` |
| `ResourceLeases` | leases with fencing tokens | `MCAgent` |
| `SimIdentity` | IMS identity and AKA over a card's logical channels | `MCAgent` |
| `AtLine` | conversations with a modem, time limits, late lines | `MCAgent` |
| `Agent` | the six together | `MCAgent` |
| `Agent_proofs` | its theorems | TLAPS |
| `SmsCodec` | segmentation, packing, headers and decoding of texts | `MCAgent` |
| `CallEvents` | missed calls from a bridge's ring | `MCServices` |
| `VoiceCalls` | call records and their transitions | `MCServices` |
| `Installation` | set-up, logins, password changes | `MCServices` |
| `HttpApi` | gates, handlers, timeouts, cookies, the event stream | `MCServices` |
| `HistoryPages` | keyset pages of messages, conversations and calls | `MCServices` |
| `Notifications` | channels, the Feishu binding, deliveries | `MCServices` |
| `Web` | the three together | `MCServices` |
| `LinePlan` | managed modems and Lines over hardware that moves | `MCServices` |
| `Services_proofs` | theorems of `CallEvents`, `VoiceCalls`, `Installation`, `LinePlan`, `Web` | TLAPS |

`MC<name>.tla` instantiate the modules; a `.cfg` belongs to each run. Run for
instance `tlc -config InboundSms.cfg MCInboundSms.tla` (each run needs one to
three minutes with two workers) and `tlapm <module>_proofs.tla`.

## 1. Inventory

simplus is a LAN communication controller in three processes: `simplusd` (HTTP
API, SQLite), `simplus-agent` (modems, SIM), `simplus-netd` (egress, Mihomo and
one VoWiFi worker per Line). They talk over Unix sockets; a worker keeps no
file.

**Messaging** (`application/messaging`, `storage/sqlite/messages.go`).
State: rows, unread markers and the segment spool in `messages.sqlite3`; a
one-slot gate per modem function in memory. Operations: `Send`, `ListPage`,
`MarkConversationRead`, `Delete`, `SyncInbound` (reports, then inbox), the
coordinator's cycle with its announcements. Hard: `Send` runs in one goroutine
per request under the request's context; each write is a transaction of its
own, and calls to the worker lie between them; histories are read page by page
while they change. Correct means: a message shows `sent` or `failed` only if
that is so and for good, nothing acknowledged is lost, an operation goes out
once, arrivals are announced, reading clears only what was shown, and paging
misses and repeats nothing.

**IMS worker** (`vowifihil`, `vowifisupervisor/worker*.go`).
State: strongSwan's tunnel, the session's associations, nonces and binding;
pending submissions by RP reference, completed reports, pending inbound
messages, memories of acknowledgements; one mutex. Operations: an attempt with
its REGISTER exchanges, refresh, keepalive, close; submit, RP report, expiry,
list and acknowledge. Hard: SIP responses, RP reports, timeouts and repetitions
come in any order, references wrap at 256, a submission keeps the mutex that
polls, keepalives and refreshes need, and all state is lost with the process.
Correct means: a report states what the network said of the message it is
counted for, digests are fresh, what is online is registered (but for one way
the code leaves open, section 6), an attempt leaves nothing behind.

**simplus-netd** (`vowifisupervisor`, `mihomosupervisor`), **reconciliation**
(`application/vowifi`) and **Mihomo** (`application/mihomo`). State: an instance
per Line, its namespace and manifest; the desired state in SQLite; selection,
artifacts and running configuration. Operations: Start, Stop, monitor, stale
cleanup, Reconcile; refresh, select, disable, delete, Start, Restart, Stop;
core installation. Hard: process exit, Stop and Start overlap; crashes leave
namespaces; a configuration that does not start must give way to the old one.
Correct means: a desired, ready Line is online again in the end, a Line has one
worker, a namespace is owned or cleaned, the record names what runs.

**simplus-agent** (`agentapi`, `hardwareprobe`, `modemadapter`, `attransport`,
`atremote`). State: a gate per device, the published snapshot and its
generation, a journal of sends and acknowledgements, the outcome ledger, the
SIM's storage and logical channels (external), terminal settings. Hard:
hardware is exchanged at any moment, modems answer late, the agent stops
between acceptance and effect. Correct means: an operation reaches the modem
and SIM it names or nothing, is answered truly, happens once, and leaves
channel and terminal as they were.

**Inventory, modems, Lines** (`application/inventory`, `modem`, `line`). State:
records bound to fingerprints, a probe cache. Hard: a request reads records,
snapshot and probe one after another. Correct means: what is shown or sent
belongs to the Line or modem that was named.

**Calls** (`application/calls`). State: call rows, a cursor per device over the
bridge's ring. Hard: bridge restart, SIM change, ring overflow, crash before
the cursor is saved. Correct means: no call is passed by silently, a Line has
one call at a time.

**Set-up and sessions** (`application/setup`, `auth`), **notifications**
(`application/notification`). Two databases without a common transaction;
logins beside password changes; a binding that polls a provider while users
cancel and edit.

**HTTP API, hub, browser** (`api/httpapi`, `application/realtime`, `web/src`).
Handlers go on after their request was answered with a timeout; each stream has
one pending event. Correct means: a tab that shows something out of date is told
to fetch it again, and answers are true.

**Codec** (`smscodec`): a pure function both ways, with boundaries at 140
octets, 160/153 septets and 70/67 units, and headers a stranger wrote.

**Not modelled**: contacts, eUICC, health, schema and secrets, configuration,
command wiring, browser UI; section 9. `PROJECT.json` lists every component
with its files and why it is or is not modelled, and the hazards line by line.

Interactions: HTTP handlers and coordinators call the services; they call the
worker through simplus-netd and the modem through simplus-agent
(request/response, either may be lost); neither calls back: reports, messages,
events and generations are polled; the hub only tells browsers to query again.

## 2. Plan

1. *(done)* `OutboundSms`, `SmsStatus`, `SmsOutcome` and four theorems.
2. *(done)* `InboundSms`. 3. *(done)* `VowifiLifecycle`.
4. *(done)* the modem's two paths: `ModemSend`, `ModemInbox`, `DeviceGate`,
   `AtLine`, `SimIdentity`, `SmsCodec`.
5. *(done)* the worker below `OutboundSms`: `ImsCorrelation`,
   `ImsRegistration`.
6. *(done)* the services around them: `CallEvents`, `VoiceCalls`,
   `HardwareNews`, `OutcomeLedger`, `ResourceLeases`, `Installation`,
   `Notifications`, `MihomoRuntime`, `CoreInstall`, `LinePlan`, `HttpApi`,
   `HistoryPages`.
7. *(done)* theorems of every component but `SmsCodec`; section 7 says what is
   only model-checked.
8. *(left)* `SendCreates` in two steps; the monitor's 1 MiB limit; contacts and
   eUICC if they grow state.

Runs stay small: two or three actors, one or two faults. Modules to be proved
about use no `RECURSIVE` operator.

**Runs of several components.** `MCImsWorker`, `MCTextInboxes`, `MCNetd`,
`MCAgent` and `MCServices` hold several components that share no state in the
models. They extend the components the theorems are about, so that a run checks
the very formula that is proved; only `SmsCodec` is an instance. A
variable `side`, chosen at the start and never changed, says which component
takes steps; the variables of the others keep one initial value. Such a run
checks each component by itself: its state space is the sum, not the product.
A component whose parts need different bounds appears under two sides (`http`
and `door`, `pages` and `callPages`, `notify` and `edits`), whose bounds are
conjuncts of the run's next-state relation.

## 3. OutboundSms

Correspondence:

| model | code |
| --- | --- |
| `rows` | `sms_messages`, one row per Send call's message id |
| `pc`, `result` | the goroutine of a `Send` call, `transport.Sender.SendSMS`'s result |
| `gate` | `serialGate.token` |
| `stage`, `accepted`, `submitted` | `SubmitSMS`: command on its way, under the mutex, waiting for reports (`submitOperations`), cleaned up |
| `heard` | `submitSegments[].reported` |
| `reports`, `reportAcked` | `completedSMSReports`, `acknowledgedReports` |
| `sync`, `listed`, `current` | `syncInboundLine` and its loop over reports |
| `acked`, `refused` | the network's RP-ACKs and RP-ERRORs (external) |

`SendCreates` ... `Finish` are the steps of `Send`, cut where another process
can come in: after the INSERT, at the gate, at the transport call, before the
final UPDATE. `BeginSubmit` ... `SegmentUnbuildable` are the steps and exits of
`SubmitSMS`; `ReportArrives`, `Expire` those of the session's packet handler;
`SyncStart` ... `SyncEnd` those of a pass. `DaemonRestarts` is `NewService`,
`WorkerRestarts` a new session.

Abstractions. A message is its request; text, addresses and times are left out.
A report is for the segment it is about, which is `ImsCorrelation`. The memory of acknowledged
reports does not forget (the code clears it at 256 entries; an acknowledgement
is repeated only while its report is listed). CreateOutboundSMS is one step.
A Line without an online worker, and a worker without SMS, are `RefuseCommand`.
Only a network that took a segment may acknowledge it.

Runs (two requests, `MaxFaults = 1` of restart, lost answer, failed write or
failed pass):

- `outbound` (in `MCImsWorker`, with section 6's worker): different operations,
  of two segments and of one. `TypeOK`,
  `SentMeansAcknowledged`, `RejectedMeansUndelivered`,
  `AcknowledgedReportIsRecorded`, `VerdictIsFinal`, and `ImplementsOutcome`
  (refinement of `SmsOutcome`). Two segments are the least for which "some" and
  "all" differ, two requests the least for which reports and gate can be
  confused; `MaxPending = 2` is reached.
- `outbound_retry`: both requests carry one operation. `OperationSubmittedOnce`
  and, under `FairSpec`, `QueuedSettles`, `InboxIsReached`, `ReportsDrain`.
  `QueuedSettles` names one exception: the store refused the last write of a
  `Send` (`Unsaved`), after the worker's answer or when the request was
  cancelled at the gate (`service.go:346`), and nothing writes it again before
  a restart, which need not come.
- `outbound_lost_answer` (violation): `FailedMeansUndelivered`. The client's
  error for a lost answer becomes `IMS_SMS_UNAVAILABLE`, stored as `failed`,
  where docs/architecture.md:277 promises `unconfirmed`.

The lost answer has a consequence. The report of a message stored as `failed`
conflicts with its row; the pass ends there, in every pass, before the report
is acknowledged and before the inbox is listed, until the worker restarts.
`InboxIsReached` and `ReportsDrain` hold apart from that (`ConflictingReport`).

Fairness. Go runs every ready goroutine, each SIP exchange has a 15 s budget,
each operation a deadline, the coordinator never stops: weak fairness for
their steps. The gate is a channel that serves waiting senders in order, so
`Dispatch` has strong fairness: passes free the gate again and again. Nothing
is assumed of the network, of users, or of faults.

## 4. InboundSms

| model | code |
| --- | --- |
| `pending`, `acknowledged` | `pendingSMS`, `acknowledgedSMS` |
| `spool` | `sms_inbound_fragments` with `group_id` |
| `stored`, `unread`, `lastUnread` | inbound rows, `sms_message_unread` with AUTOINCREMENT |
| `phase`, `todo`, `item`, `received` | `runCycle`, `syncInboundLine`, `syncInboundMessage` |
| `token` | the read-through token a browser holds |
| `offered`, `settled` | what the network sent and has an RP-ACK for (external) |

Each transaction and each call to the worker is a step, in the code's order:
list, read oldest first, spool, insert with marker, acknowledge, announce. An
error of any of them ends the pass (`EndPass`), which still announces what it
inserted. `created`, `deleted`, `announced` only count.

Abstractions. The acknowledged memory does not forget (cleared at 256 in the
code). Segments are within the assembly window and the spool's retention.
A text is its deliveries: segments of two messages with one reference may be
assembled into one row, as in the code, and the model claims nothing about its
text. A conversation is one sender. An announcement is one attempt.

Runs:

- `inbound`: messages `a` and `b` of two segments with the same reference, of
  `b` only the first, and a single-segment `c`, in any order, one repetition,
  one fault or crash, `MaxInbox` one short of the four deliveries so that one
  is turned away. `TypeOK`, `SettledIsKept`, `ArrivalsAreAnnounced`,
  `AnnouncedOnce`, `OnlyShownIsRead`. Three segments of one reference are
  the least that make a group ambiguous. Duplicates, deletions and page views
  are not bounded otherwise.
- `inbound_drain` (in `MCTextInboxes`, with section 6's modem): `a` and `c` with
  one repetition and an inbox of two, under weak fairness of the pass's next
  step: `InboxDrains`.
- `inbound_blocked` (violation): `SinglesAreAcknowledged`. What `Unsupported`
  stands for is kept by the worker and refused by simplus-netd whenever it is
  read: a concatenation reference above 255, 8-bit data (WAP push, MMS
  notification), a single segment with a user-data header, whose length is lost
  between worker and netd, a sender `validInboundSMSSender` does not know, a
  blank text (`SmsCodec!KeptIsCarried` names all but the last). Every pass ends
  at it, and younger messages wait until the worker restarts.
  `InboxDrains` states what holds: a message drains unless it or an older one is
  stuck.

## 5. VowifiLifecycle

| model | code |
| --- | --- |
| `desired`, `ready`, `egress` | `vowifi_line_desires`; `readyLine`; `supervisorRequest` |
| `app` | the holder of `Service.mu`: Activate, Deactivate or Reconcile, with the environment it read once |
| `current` | `Local.instances`: which instance a Line has |
| `instances[l][s]` | an `instance`, the goroutines of its Start request (`start`) and of its monitor (`monitor`), its process (`worker`) |
| `network`, `manifest` | kernel objects named after the Line; `<root>/<token>/network.json` |

`CallStart` is `Start` up to the release of the mutex; `SetupNetwork`,
`StartFails`, `SpawnWorker`, `StartReturns`, `StartCancelled`, `StartTimesOut`
and `StartStops` are the rest, which runs beside Stop, the monitor and later
calls. `CallStop` marks and signals, `StopReturns` and `StopTimesOut` are its
exits. `ReadEvent`, `MonitorCleans`, `MonitorCannotClean`, `MonitorReports` are
`monitor`, cut at its unlocked calls. An event may be read after the Stop or
the death it was written before. `Crash` is the end of netd at any point;
workers die with it (`Pdeathsig`), objects and directories stay; `Restart` is
`cleanupStale`.

Abstractions. A network is one object, set up and removed as a whole; what
fails half-way counts as still there. Recovering Mihomo is part of readiness: a
pass that ends in it changes nothing here. The states between starting and
online are `working`. Failing file operations are left out, except that a
crash may find a directory half made or half removed (`Torn`), which
`cleanupStale` refuses. Every start makes a new instance; an old one matters
only while its goroutines run, so two slots per Line are enough: `CallStart`
needs a free one, and `ServiceableIsServed` shows that it does not wait for ever.
A clean-up that fails in `cleanupStale` ends netd, and the next start repeats it.

Runs:

- `vowifi`: one Line, two egresses, two changes by users or of readiness, two
  faults (failed command, dead worker, lost call, crash). `OneWorker`,
  `WorkerKeepsItsNetwork`, `AvailableNeedsWorker`; under `FairSpec`
  `UnwantedIsStopped` and `ServiceableIsServed`. Two faults let a clean-up fail
  after a failed start or a crash follow a failed clean-up.
- `vowifi_two_lines` (in `MCNetd`, with section 6's Mihomo): two Lines, one change, one fault. A pass ends at the
  first Line that fails; the other is still served in the end.
- `vowifi_stuck` (violation): `IntentIsMet`. A worker dies while its Line is
  not ready; Reconcile calls Stop for the failed instance, which becomes
  `stopping` with nobody to move it on. When the Line is ready again it counts
  as running and is not served.
- `vowifi_leak` (violation): `RestartCleansUp`. A start fails and its network
  cannot be removed; the next Start replaces the manifest, fails at the network
  that is there and removes the record. After a crash nothing removes it. The
  record is also lost when a failed Start removes its directory, which it does
  without the mutex, after the next one has written its own.

`ServiceableIsServed` states what holds: an active, ready Line is served in the
end, or one of four defects was met: its instance is stuck, its network leaked,
netd cannot start because of a torn directory, or another Line is stuck after a
failed clean-up, so that each pass ends at its Stop.

Fairness. Goroutines and processes run on, a pass starts every ten seconds, the
first event of a worker comes before anything else it does, and netd is
started again by its container: weak fairness. A pass may end before a Line's
turn, but it ranges over Go maps, in random order, so the turn comes again and
again: strong fairness for `CallStop` and `CallStart` of each Line. Nothing is
assumed of users, readiness, later events or faults; both are bounded by
`MaxChanges` and `MaxFaults`, so a behaviour is quiet in the end, which is when
convergence can be asked for.

`CHECK_DEADLOCK FALSE` everywhere: a system whose calls are over, whose network
is silent and whose Lines are as wanted really is at rest.

## 6. The other components

Each module's head says what it leaves out. For each: what its state is in the
code, what is checked, and where the code departs from what one might expect.
Such departures are named exceptions in the properties, so that the rest of
the property is checked; those with a run of their own are the findings of
`PROJECT.json`.

### Over the modem (run `inbound_drain`, sides `storage` and `outgoing`)

`ModemInbox`. `slots` is the SIM's storage, `records` and `ackJournal` the
adapter's SQLite state, `kept` the application's database, `pass` the call in
progress: list, put records, read, acknowledge, delete segment after segment,
mark. Deletions may be lost, indexes reused, the agent stopped anywhere.
`OnlyKeptIsDeleted`: nothing leaves the storage before the application has it.
`WholeIsKept` (liveness): an entry of a whole message is kept in the end, unless
a deleted segment's index was taken again before the deletion was recorded, or
an entry that does not decode is listed again (`UnreadableIsListedAgain`): its
record gets the time of the listing (`degraded.go:118`), so if the pass that
recorded it did not delete it, every later listing conflicts and fails. Three
entries in three indexes, one of them undecodable, two of one message. Weak
fairness of the coordinator's passes and of the steps of a call.

`ModemSend`. `journal` is the operation journal, `sendCall` the one call the
gate admits, `onAir` what the network took (external), `told` the answers.
`SendIsTrue`: an operation is on the air at most once, an entry is deleted for
another attempt only while nothing of it is, `sent` is answered only for a
message that is. Two operations of two segments, two contents, three faults.

### In the worker (run `outbound`, sides `correlation` and `registration`)

`ImsCorrelation` has the references that `OutboundSms` takes for unique:
`reference`, `segments`, `retired`, `operations`, the mode of In-Reply-To, with a
clock, so that retirement and the network's longest delay meet. Two references
are the least that wrap. `ReportsAreCorrelated`: a report counts for the segment
it is about. A gateway without In-Reply-To may have a late report of an earlier
session counted for a segment of a new one, as the comment at
`sms_session.go:706` admits; that is the property's exception.

`ImsRegistration` goes from a stopped worker to a registered session and back:
strongSwan, the unprotected and the protected REGISTER, resynchronisation, the
associations, the SMS server, keepalive, refresh, teardown; the registrar
records what it was sent. `RegistrationIsSafe`: no digest twice, what is
protected goes under the session's own keys, what is reported online has an
open session with a registration of its own, nothing of an attempt is left for
the next. `session.mu` does not heed a context, and a submission may hold it up
to 120 s. A keepalive (4 s) or refresh (25 s) that waited longer ends the
attempt (`WaitTooLong`); `PollSMS`, called four times a second, returns nil and
the loop goes on (`Polled`). So a refresh that came due while the loop waited
may come too late: `OnlineIsRegistered` says that an online registration lapses
only if, since its refresh was due, the loop waited behind SMS requests for at
least `Lead - ExchangeLimit` ticks. `binding.life` counts the ticks the
registrar's session has left, `waited` and `took` those the loop waited and its
exchange has taken; `Lead` stands for the 30 s, less an answer's way, that
`refreshDeadline` leaves at least, `ExchangeLimit` for the 15 s of an exchange
(2 and 1 in the run: with less there is no tick to wait in). Time passes when
nothing is to be done at once (`Urgent`): the loop takes no time for a poll, a
keepalive or a look at the associations that need not wait. Online stays
reported during the teardown.

docs/decisions/0012-web-managed-vowifi-runtime.md:21 promises more: the worker
refreshes within the registration's validity and withdraws `online` as soon as a
stage lapses. One submission that outlasts the lead is enough to refute that,
with no fault and nothing late: the refresh is due, the loop is in `PollSMS`
behind the submission, the registration ends, the submission ends, `PollSMS`
returns nil, and only then does the loop refresh. `OnlineIsRegistered` is what
holds.

### In simplus-netd (run `vowifi_two_lines`, sides `mihomo` and `core`)

`MihomoRuntime`. `RuntimeManager` holds its lock over Start, Stop, Restart, in
steps; refresh, select, disable and delete run beside it. `RecordNamesTheProcess`
and `RestartKeepsService`: the record never names another subscription than the
one that runs (it may name none while one runs), and a restart whose new
configuration does not start has put back the exact old configuration.
Exceptions: the restart is cut short itself, because its request ends or a call
of it is lost, which leaves Mihomo down; the files of the old configuration are
deleted meanwhile, which is possible while no record names it; what was put back
dies (`disturbed`). `files` are
the artifacts on the disk, by subscription and version. Start and
Restart write back the selection they read; the check of Delete and Disable can
be outrun; a cancelled request leaves Mihomo down; refreshing a deleted
subscription leaves artifacts. Whether a configuration also suits a core that
was upgraded meanwhile (docs/compatibility.md:99) is not modelled.

`CoreInstall`. `CurrentIsThere` and `FailedCanBeRepeated`: `current.json` names a
binary that is there, and a failed installation can be repeated. Exceptions: a
crash between the rename and `current.json` leaves a version that is never
installed again (`stranded`); of two overlapping installations, the second's
failing write removes the binary the first one recorded (`doubled`).

### In the agent (run `agent`)

`DeviceGate` (`gate`). The entries of `OperationGate` with their references and
tokens, goroutines that wait, are admitted, re-check and leave; a scan that is
read and published in two steps; modem and SIM exchanged at any moment.
`GateIsSafe`: one operation in a port, a message goes to the modem and SIM it
names and an authentication to its SIM unless they were exchanged after the
last check, and none goes when a refresh had shown the exchange before.

`OutcomeLedger` (`ledger`) and `ResourceLeases` (`leases`) are tested code that
the production commands do not call yet. `CommandsAreSafe`: requests of one
operation, and those that carry one token, reach the radio once between them,
one is pending at a time, outcomes are true; leases held together fit their
group, and tokens fence earlier holders.

`HardwareNews` (`news`) composes the agent's monitor, the coordinator's long
polls, the hub and the event streams of two browsers. `StaleIsAnnounced`: a
browser that shows an old inventory has an announcement to come. Exceptions
(`unannounced`): the coordinator's first snapshot is never announced, and a poll
that times out at the moment of a change answers with the new generation as if
nothing had changed (`monitor.go:173`).

`SimIdentity` (`sim`). Reading the IMS identity, deriving it, AKA, over a card
with any applications, files and number of logical channels; every path may
fail. Four calls, so that one meets the channels the earlier ones lost. `SimIsSafe` (part of
`ConversationsAreSafe`): an ISIM answer
is of one application, and no channel stays open but those whose closing failed.
A terminal error of AT+CCHO counts as "application absent"
(`ml307a_isim.go:87`), though only that is meant to allow the derived identity.

`AtLine` (`line`). A serial line with a local lock, a tty or a remote bridge; the
modem answers at its pace; whoever waits may give up. `LineIsSafe`, the other
part of `ConversationsAreSafe`: `submitted` is said only of what the modem took,
`refused` and `not dispatched` only of what it did not; an answer holds lines of
another command only if that one was given up or was itself answered by lines
of another; the terminal is left as found unless the agent crashed. So a late line of a given-up command may be taken for
the next one's answer (in a probe, the `OK` of another). What is typed is one
stream of bytes: a prompt that comes after the driver gave up makes a text of the
commands typed since, those before the prompt too, and nothing sends ESC. A text
with a command in it is no PDU, which is why the modem refuses it and a message
reported as not dispatched was not. Lines are whole here: a read that ends inside
`+CME ERROR: 10` would take the code 1. That one process does not open an
endpoint twice rests on the device gate.

`SmsCodec` (`codec`). Texts of three letters, one of each class (in the default
alphabet, with the code 0; in its extension; a surrogate pair), are encoded,
packed bit by bit and read again; handsets send one segment or two, cut
anywhere, with any elements before and after the concatenation.
`TextIsExact`: what is sent from here fits and is read as it was written, from
all its segments and no fewer. `HandsetIsRead`: so is a handset's segment whose
letters are whole, except that of a concatenated UCS-2 message with a filling
octet: `decodeDeliverUserData` skips the octet (`pdu_deliver.go:230`, "what keeps
such messages decodable"), but `segmentPayload` computes the header's length
again, without it, for a segment of several. `KeptIsCarried`: what the worker
keeps passes simplus-netd, except what section 4 lists for `inbound_blocked`
(blank texts do not occur here). The
limits are small (14 octets, 16/9 septets, 7/4 units), in the relation of the
code's 140, 160/153 and 70/67, for which `MCAgent` evaluates the same
`CodecAssumption`.

### In simplusd (run `services`)

`CallEvents` (`events`). One device's ring, a sweep cut between report, records
and cursor. `NoneIsPassed`: up to the cursor every call is recorded, unusable,
counted as lost, or was passed by with its SIM. Which Line a call belongs to is
decided by the SIM at the sweep, although `agentapi/call_events.go:57` speaks of
the SIM at the event: after an exchange a call may be recorded for the new SIM's
Line. A crash between records and cursor followed by an exchange makes the
repeated record conflict, in every sweep of this boot.

`VoiceCalls` (`voice`). `OneCallOnALine`: a Line has one call in progress, an
operation one call, a call one end.

`Installation` (`install`, with two passwords, two grants, and a fault or an
exchange of the data directory). Two databases, `mutationMu`, logins and
password changes without it. `SetupIsGuarded` (an
action property): set-up state is written only by a session no newer grant has
ended and never after the instance is ready. `InstallIsSafe`: a ready instance
is complete, one set-up session at most, and a session that authenticates was
issued for the present password.

`HttpApi` (`http` with two handlers and three routes that fail; `door` with the
routes by which sessions come and go, one request at a time). `Catalogue` has
every route's gate, what a success changes and what it publishes. A request passes its gate, changes, tells, answers;
`TimeOut` answers for a handler that goes on. `AnswersAreTrue` and
`ChangesAreTold`: a success was done and told, a final refusal changed nothing, a
stale tab has an event or a handler to come. Exceptions: a failure halfway (the
final write of a send, RF, VoWiFi, subscriptions, channel test, Mihomo, calls)
answers an error and publishes nothing (`untold`); writing a subscription and
starting Mihomo may refuse finally after a part was done (`RefusesPartway`); a
Feishu channel withdrawn after a cancellation is not announced. A late 401 clears
the cookies of a newer login; a stream outlives its session until the next
heartbeat. Routes for administrators (Mihomo, egress, notifications) do not ask
for the set-up's state. A tab's fetch is one step with hearing the event.

`HistoryPages` (`pages` for messages and conversations, `callPages` for calls
with a clock that is set back). A page is a set of entries, the newest of those
older than the cursor (`Pages`); the oldest of them is the next cursor. `PagesAreTrue`: a reader who pages to the end has
seen everything that was there throughout once, and a cursor stays good in its
scope. A conversation whose last message changes meanwhile may be missed or seen
twice (the web client fetches again on the event). Cursors of the old form need
the row they were taken from. Limit 1, four messages or three calls.

`Notifications` (`notify`, and `edits`). `BindingIsSafe`: an active binding has
its goroutine, a channel exists only if that attempt was authorised and not
cancelled. `DeliveriesAreKept`: an edit does not undo a delivery's record. An
Update beside a Delete brings the channel back.

`LinePlan` (`plan`). Two ports, three modems of which two have one
IMEI, two cards, one exchange, requests that read records, snapshot and probe
one after another. `PlanIsSafe`: messages go out over the Line's own SIM and
bound modem, a shown IMEI is its record's, nothing is claimed twice. Exceptions:
the RF command names no identity, so a modem plugged into the port between the
topology's scan and the command is switched instead (`replugged`); a record
of the old form, bound to a port, resolves to whatever is in it. The agent's
snapshot (`published`) lags behind the ports until the next `Scan`, and a probe
is compared with the snapshot only (`monitor.go:199`), not with the hardware.
Lists run beside no other request here (`ListsAlone`, a bound of the run). A SIM that is
seen in two slots invalidates the whole snapshot. What the agent checks on
delivery is taken from `DeviceGate`; that a promotion in List finds no second
record rests on the unique index.

These sides have one or two faults each: enough for a failure in each step and a
crash after it, or beside another actor's step. Each module's mutants show that
the cases happen.


## 7. Proofs

Every theorem is for any values of the constants (sets of requests, Lines,
messages; numbers of segments, faults, restarts) that satisfy the assumption
its component states, and includes the component's type invariant. Each
inductive invariant was first checked by TLC on the component's run.

`OutboundSms_proofs`, from `ConstantsAssumption` alone:

- `TypeCorrect`: `Spec => []TypeOK`;
- `SentNeedsAcknowledgement`: `Spec => []SentMeansAcknowledged`;
- `VerdictsAreFinal`: `Spec => VerdictIsFinal`;
- `Refinement`: `Spec => ImplementsOutcome`.

`SentMeansAcknowledged` is not inductive: a row becomes `sent` from a result or
a report on its way. `SentInv` adds

- `EvidenceIsGenuine`: what the worker heard the network said, about segments
  of that message, and it never said both;
- `SentIsJustified`: a `sent` result, a queued `sent` report and a listed
  `sent` report all belong to messages whose segments are all acknowledged;
- `CallsAreConsistent`: a call whose transport call ended has its result, a
  pass that acknowledges has its report.

Finality and the refinement also need `SubmissionsFollowCalls`: a request that
was not dispatched has no submission and its row, if any, is queued or deleted,
and reports are those of submissions that are over. `RowStep` says what one
step may do to one row; `RowStepMaps` turns it into a step of `SmsOutcome`, and
`OutcomeNext` goes through the actions.

`OutboundSmsSafety_proofs` has the other invariants of that run:

- `RejectedReachedNobody`: `Spec => []RejectedMeansUndelivered`. A rejection, as
  a row, a result or a report on its way, is of a request that was never
  submitted (`NeverSubmitted`) or of one whose submission is over with its one
  segment refused and none acknowledged (`RefusedAlone`).
- `AcknowledgementComesLast`: `Spec => []AcknowledgedReportIsRecorded`. A
  report is written once and listed as it is, the one being acknowledged was
  stored, and all RP-ACKs make it `sent` (`ReportsAreKept`).
- `OperationGoesOutOnce`: `Spec => []OperationSubmittedOnce`. Of
  the requests of an operation one has a row (`OneRowOfAnOperation`), and only
  one with a row is dispatched. It is said of requests whose message the user
  has not deleted: after a deletion a retry goes out again.

`InboundSms_proofs`: `InboundTypes`, `ArrivalsAnnounced`, `NothingAnnouncedTwice`,
`NothingSettledIsLost` and the action property `ReadWhatWasShown`
(`Spec => OnlyShownIsRead`). The invariants: `PassIsCoherent` ties the
coordinator's step to the message in its hands; `GroupsAgree` says a spool group
contains its founder and one reference; `KeptInv` that what a pass
is about to acknowledge is in the database, and what the network has an RP-ACK
for still is; `CountsAgree` that insertions, deletions and rows
agree, and announcements are behind insertions by what the pass still holds
(counted by `Times`, with lemmas on `Append` and `Tail`); `TokenCovers` that
every marker up to a token's boundary was on the page, which rests on AUTOINCREMENT
never reusing a number.

`Netd_proofs`, on a Line's worker: `LifecycleTypes`, `OneWorkerOnly`,
`NetworkIsKept`, `AvailableHasWorker`. `LifecycleInv` says of each instance how the goroutines of
its Start and its monitor and its process fit together (`Coherent`), that
only a Line's current instance is not `done`, that an instance that may have a
worker (`HasNetwork`) finds its network as it set it up, and that a stopped
netd has no instance. `AvailableHasWorker` is no promise that the worker still
runs: it says that a Line messages are given to has a worker that was started
and whose end its monitor has not reported, in its own network until it is
collected, and no other. On Mihomo: `MihomoHolds`
(`MihomoSpec /\ CoreSpec => []MihomoIsSafe`), with the exceptions of section 6.
`RuntimeInv` says that between its
stop and its record a call of the manager has no process but the one it is
about to record (`ManagerFits`), that what runs is a version that works, and
that the files of what runs, of the artifacts and of what a call still needs
are there unless a deletion disturbed the call (`ConfigurationsFit`). `CoreInv`
(`CoreFits`): a version that one request moved into place stays there, and was
recorded or is about to be by that request.

`ImsWorker_proofs`: `ReportsBelong`, from `CorrelationAssumption`: the report
wait is longer than the network may take to report. (The network's limit is an
assumption about the environment; nothing in the code enforces it.) The
invariant `CorrelationInv` says of every segment sent in this session that its
reference still is the segment's, or is retired until the report wait after it
was sent is over, or that no report about it can come any more
(`ReferencesAreReserved`); hence a report that finds an entry finds its own.
`RegistrationHolds` (`ImsSpec => []RegistrationIsSafe`) rests on
`RegistrationInv`: what there is of tunnel, session and SMS server at each
place of `RunWorker` (`PlacesFit`), that an online worker has an open session
whose registration is its own, and that the ticks gone since its refresh was due
are those the loop waited and those the exchange took, so that a lapsed one
waited (`RegisteredFits`), and that a session's nonce, keys and count are
ahead of every digest the registrar has seen (`DigestsFit`). The next Call-ID is
new because the earlier ones have a greatest (`CallsAreBounded`).

`Modem_proofs`: `SendingIsTrue` (`ModemSend`) rests on `CallIsJournalled` (the
call in progress has an accepted entry and, unless its outcome is uncertain,
knows what is on the air) and `AirIsJournalled` (what is on the air is in the
journal, under its operation, wholly if the entry or an answer says so).
`NothingDeletedUnkept` (`ModemInbox`) rests on `PassIsCoherent`: a pass that
acknowledges does so for a message the application has. The oldest message of a
pass exists because ages are naturals (`LeastAge`, from the library's
well-foundedness of `<`).

`Agent_proofs`: `GateHolds` (`GateSpec => []GateIsSafe`) and `StaleIsTold`
(`NewsSpec => []StaleIsAnnounced`). `GateInv` says that an operation that joined
is at its device's entry and two devices share none (`EntriesAreKnown`), that an
entry counts its operations and is in the map only with one
(`ReferencesAreCounted`), that the token is in the channel or with one operation
(`TokenIsHeld`), and that what an operation was checked on still holds or was
noted as moved, a report that differs never showing its fence again
(`ChecksAreKept`). `GateAssumption` says there are at least as many entries as
operations: in the code an entry is a new heap object, here a name that is free
again when no operation refers to it; `EntryIsFree` shows there is one when an
operation needs it. `NewsInv` says that the version the coordinator knows is
never ahead of the agent's and a poll waits for the one it knows
(`VersionsArePast`), and that an open browser whose view is old, with nothing
queued for it and nothing to come from the agent, is one an announcement is
about to reach (`NoneIsUntold`).

Of the same module, `CommandsHold` (`LedgerSpec /\ LeaseSpec =>
[]CommandsAreSafe`): an operation has one entry and the pending one is the last,
which is the command in progress if there is one (`PendingIsLast`); the fences
have seen every token in the ledger or at the radio (`TokensAreUsed`), so that a
command not yet dispatched finds nothing of its token there (`CommandIsTrue`).
For the leases, every token granted is at most its group's fence
(`TokensAreBelow`). `SimHolds` (`SimSpec => []SimIsSafe`): at every step of a call
the applications the card lists were tried, are still to be, or are known
unprovisioned, unless something failed, and what was read so far is of one
application (`AccessFits`); the channels open are the present call's and those
whose closing failed (`ChannelsAreKnown`).

`LineHolds` (`LineSpec => []LineIsSafe`) and, with `SimHolds`,
`ConversationsHold` (`SimSpec /\ LineSpec => []ConversationsAreSafe`): for any
number of tasks and faults over any transport. That a line does not name its
command is what the invariant has to make up for. `LineInv` says that a prompt
that can still be read is the modem's own, the last it said, and that the modem
waits for a text as long as it is there (`PromptIsLast`); that the reference of a
message, once it is on its way, comes before all else, and can be read as the
answer to "submit" only by the send whose message it is (`ReferenceIsFirst`); that
after a message was accepted nothing is to come but `+CMGS` and `OK`
(`AcceptedIsAnswered`). So a `+CMGS` with an `OK` says "submitted" of the right
message, and an error or an end before the message was typed is of a message not
sent (`SayingsFit`). For strays: a command's terminal line is the last of it
(`TerminalIsLast`), a command is typed once (`TypedOnce`), and everything still to
come of a command but the one waited for belongs to one that was given up or that
was answered by lines of another (`ForgottenAreExcused`). The proof found that an
earlier `AtLine`, which let commands typed before a prompt wait behind the text,
did not hold with four tasks, more than the run has.

`Services_proofs`, on calls: `LineHasOneCall` and `NoCallIsPassed`. `CallsInv` says that the record of a `Dial`
that holds the service's lock is still dialing (so its second write makes no
second call busy), that a Line has one busy record and an operation one record,
and that a call that is over has exactly one end. The events' cursor moves only over calls that are
accounted for (`CursorAccounts`); a sweep's report is a prefix of what rang in
this boot (`ReportIsPrefix`), and behind its position every call is in the
report unless the ring has lost it (`SweepAccounts`).

On set-up, `InstallHolds` (`InstallSpec => []InstallIsSafe`) and the action
property `SetupHolds` (`InstallSpec => SetupIsGuarded`), both from `InstallInv`: a
ready instance has its administrator and its storage (`ReadyIsComplete`); a
grant that can be consumed has ended the session before it (`OneSession`); the
mutation that holds `mutationMu` writes on a token that is still a session's, on
an instance that is not ready (`MutationIsAuthorised`); a login on its way
belongs to an earlier password or to the present one
(`SessionsAreOfTheirPassword`).

On managed modems and Lines, `PlanHolds` (`PlanSpec => []PlanIsSafe`). `PlanInv`:
records differ in their ids and in the IMEIs they have (`RecordsAreDistinct`);
the agent's snapshot has no number that is still to come (`ScansArePast`);
what is in the probe cache is still so wherever the number it was read under is
the port's number (`CacheIsOfItsNumbers`); each request has read records that
are there, an observation of its numbers, and, if it is about to command, a
device where its Line or modem was seen (`RequestsGo`). `LinesAreApart` shows
that two Lines of one list never resolve to one device.

On `Web`, `WebHolds` (`HttpSpec /\ PageSpec /\ NotifySpec => []WebIsSafe`), from
three invariants.

- `HttpInv`: what a request has done follows from how far its handler is, and
  what it answered is true of that, a timeout being the only answer before the
  end (`HandlersAreHonest`). That a commit's topics reach every tag it changes is
  a fact about each route of the catalogue (`GoodRoute`, shown group by group).
- `NotifyInv`: what is tested, stored, kept or edited is of a generation that was
  authorised, was not cancelled and will not be, as it does not wait any more
  (`ChannelsAreOwned`); cancellations are of earlier generations
  (`CancelledArePast`); the goroutine of an active binding is where its state says
  (`AttemptAgrees`).
- `PageInv`: the cursor lies between what was shown and what is to come
  (`CursorDivides`); what a reader began with or saw is of the past, so that
  nothing of it can come into being again behind the cursor (`StartIsPast`, which
  for messages rests on AUTOINCREMENT); the cursor's row, as long as it is there,
  is the one it was taken from (`CursorNamesItsRow`). `TurnsGoes` proves it for a
  page more, `WalkStays` for what others write meanwhile. The proof needs nothing
  of the clock: a call recorded with an earlier time was not there at the start.

Only model-checked:

- liveness, which needs fairness and so is outside what TLAPS proves
  (`QueuedSettles`, `InboxIsReached`, `ReportsDrain`, `InboxDrains`,
  `WholeIsKept`, `ServiceableIsServed`, `UnwantedIsStopped`);
- `TextsAreRead`. What `SmsCodec` computes is checked for every text within its
  bounds: a proof for every text would be an induction over data, which TLAPS
  cannot do here, and the module is recursive.

## 8. Runs at a glance

| run | module | states | question |
| --- | --- | --- | --- |
| `outbound` | `MCImsWorker` | 1.2 M | is what a message shows true and final; references; registration |
| `outbound_retry` | `MCOutboundSms` | 136 k | is a retried operation sent once; does everything settle |
| `outbound_lost_answer` | `MCOutboundSms` | violation | is `failed` always undelivered |
| `inbound` | `MCInboundSms` | 1.6 M | is what is acknowledged kept and announced once; what becomes read |
| `inbound_drain` | `MCTextInboxes` | 219 k | are both inboxes drained; are the modem's answers true |
| `inbound_blocked` | `MCInboundSms` | violation | is every single segment acknowledged |
| `vowifi` | `MCVowifiLifecycle` | 452 k | one worker with its network; does it follow the intent |
| `vowifi_two_lines` | `MCNetd` | 133 k | does one Line keep another down; Mihomo and its core |
| `agent` | `MCAgent` | 529 k | the agent's components and the codec |
| `services` | `MCServices` | 1.1 M | simplusd's components |
| `vowifi_stuck` | `MCVowifiLifecycle` | violation | is the intent met once faults are over |
| `vowifi_leak` | `MCVowifiLifecycle` | violation | does a restart remove what was left |

Symmetry is used for operations, browsers and applications (`agent`) and for
the clients of `LinePlan`, which are the handlers of `HttpApi` (`services`), in
runs without liveness only.

## 9. Not modelled

- Contacts, eUICC and health: request handlers over one transaction or one
  exchange each.
- Schema, encryption at rest, certificates, flags, wiring of the commands, the
  browser's pages: no order of events of their own. `openapi/generated.go` is
  generated.
- Parsers of device text and SIP, XFRM, VICI and IKE formats, addresses and
  timestamps of PDUs, the description of 8-bit data: outcomes in the models.
- Cryptography and the kernel: a key is the nonce it came from, a network
  object is there or not.
- The totals beside a page, which are separate statements and may not agree with
  it; parsing, host and CSRF checks of the HTTP API; DTMF; how an egress is
  resolved and tested; providers' payloads.
- `CreateOutboundSMS` in two statements: between insertion and read a user's
  deletion and a retry could make the first Send take the second's row for its
  own. `SendCreates` is one step here.
