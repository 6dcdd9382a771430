# TLA+ models of the harness: one agent, a daemon, many screens

The program under `src/` runs a coding agent (Claude Code) on one machine and
lets phones and browsers on the local network watch and steer it. A Go daemon
(`cmd/harness`, `internal/*`) keeps an append-only event log in SQLite, serves it
over WebSockets, and arbitrates commands; a TypeScript client
(`clients/packages/harness-protocol`) follows the log and shows it.

This directory holds the models of its core: what happens between a user typing
a command and the agent being told, between the agent printing a line and a screen
showing it, how a device is paired, and how the daemon starts and stops; what TLC
checks of that, and what is proved.

| file | what it is |
|------|------------|
| `SessionLog.tla` | vocabulary: events, and the snapshot the store derives from a log |
| `SequenceLemmas.tla` | lemmas about numbers and sequences that the proofs share |
| `SessionLogProofs.tla` | theorem about the snapshot |
| `HubCommands.tla` | the command side of the hub |
| `HubCommandsProofs.tla` | theorems about it |
| `MCHubCommands.tla`, `commands*.cfg` | its instances |
| `ReplicatedLog.tla` | abstract specification: what event synchronisation promises a screen |
| `HubStream.tla` | the event side of the hub |
| `HarnessClient.tla` | the client's state machine, as operators |
| `SyncSystem.tla` | both joined by WebSocket connections; implements `ReplicatedLog` |
| `SyncSystemProofs.tla` | its types, that its connections deliver in order, that it implements `ReplicatedLog`, and what a live client shows |
| `MCSyncSystem.tla`, `stream*.cfg`, `restart_stuck.cfg` | its instances |
| `Pairing.tla` | pairing: app, hub, tokens, terminal |
| `PairingProofs.tla` | theorems about it |
| `MCPairing.tla`, `pairing*.cfg` | its instances |
| `Delivery.tla` | commands from the client's outbox to the hub and their replies back, over connections, restarts and revocation |
| `DeliveryProofs.tla` | theorems about it |
| `MCDelivery.tla`, `delivery.cfg` | its instance |
| `Transcript.tla` | from claude's output to the items and cards on a phone |
| `TranscriptProofs.tla` | theorems about it |
| `MCTranscript.tla`, `agent.cfg`, `newest_text.cfg` | its instances |
| `Daemon.tla`, `daemon.cfg` | start and stop of the daemon, key and certificate files, the agent's process tree |
| `DaemonProofs.tla` | theorems about it |
| `PROJECT.json` | components, runs, mutants, the map to the source, findings, hazards, theorems |

Run a configuration with `tlc -config <name>.cfg <module>`, check the proofs with
`tlapm <module>.tla` for `SequenceLemmas` and each of the modules whose name ends in
`Proofs`.

## 1. The system and its parts

| part | state | operations | talks to |
|------|-------|------------|----------|
| session log (`internal/store`) | per session: events with consecutive seqs, last seq, status | AppendEvent (one transaction), GetEventsSince, GetSnapshot | called by the hub |
| hub, commands (`internal/hub`) | `idempotency`, `pending`, `pendingQuestions` under `h.mu`; one handler per connection | handleCommand per command kind; ingestAdapterEvents | log, adapter, connections' queues |
| hub, events (`internal/hub`) | `h.clients`; per connection a queue of 4096 and an overflow flag | broadcast, serveAuthenticated (snapshot, catch-up, registration), writeLoop | log, WebSockets |
| protocol client (`client.ts`) | session state, phase, gap count, full-resync flag, reconnection timer, socket(s), outbox of commands | connect, close, pair, onopen, onmessage, onclose, timer, send*, ack, error | WebSockets, reducer |
| reducer (`reducer.ts`) | session id, lastSeq, tip, pending requests, status, mode, stream items | applySnapshot, applyEvent | called by the client |
| Claude adapter (`internal/agent/claude`) | the process, its pipes, an event channel of 256 | Start, Stop, Command, stream-json to events | hub, process |
| pairing and authentication (`internal/auth`, hub, `cmd/harness`) | tokens and devices in SQLite; the terminal's approval queue | create, approve and consume a token, issue, validate and revoke a credential | hub, terminal, client |
| mobile app, web app | persisted identity and lastSeq | when to connect, pair, forget | client |
| daemon start and stop (`cmd/harness`) | a new session per start | serve, pair, status | all of the above |
| certificates (`internal/certutil`) | key and certificate files | LoadOrGenerate | serve, pair --qr |
| supervisor (`internal/supervisor`) | the process, its job or process group | start, cancel, killTree, reap | adapter, operating system |
| discovery, configuration, logging, web UI | none that matters to the above | announce, read files, serve files | |

What makes it hard:

* Every connection's handler is a goroutine; so is the ingest loop. `h.mu` and a
  transaction protect single steps only: a claim, an append, an ack, a broadcast
  and the call into the agent are five separate moments, and any other goroutine
  gets in between.
* A client resends what it has no answer for, on a new connection, while the
  first attempt may still be running.
* Appending an event and broadcasting it are separate; so are reading the
  snapshot, reading the catch-up and registering the connection. Events reach a
  queue out of order, twice, or never.
* A queue that is full drops a frame and closes the connection.
* Connections break at any moment, each end learns of it at its own time, the
  client may have several sockets, and the daemon may restart, which starts a new
  log.
* The store and the agent may fail after part of the work is done.
* A restarted daemon has forgotten which commands it has executed; a client has
  commands it does not know the fate of, and may be told meanwhile that it is
  revoked.
* Two commands write the same two files with no lock, and either can die between
  them; the agent's tools outlive it, and keep its output open.
* A phone is killed at any time and comes back with what it saved some time before.

What makes each part correct:

* commands: the log resolves a request once, whoever answers; a command takes
  effect at most once; the maps, the acks and the agent agree with the log;
  nothing that was accepted is forgotten; what a client is told of its command is
  true, and its outbox empties;
* events: a screen shows a prefix of one session's log; when it says live, what
  it shows as pending, status and mode is that of the log; it gets live again
  after whatever happened; it lacks nothing for good;
* pairing: a credential is issued only for a token the host approved, once; a
  revoked device gets nothing;
* stream items: text, tools and cards on a screen are those of the log, however
  the list is trimmed, and no event is skipped;
* start and stop: a phone's pin stays valid across restarts, addresses and crashes;
  stopping ends, and takes the agent's tools with it.

`PROJECT.json` lists the hazards at their lines, with the properties that cover
each.

## 2. The command side: `HubCommands`

`log` is the session's events; the seq of an event is its position. `pending`
stands for the two maps of the hub (an id stands for itself and its map),
`idempotency` for the map of seen keys. Per connection, `pc`, `cmd` and `seq` say
where `handleCommand` is: `claim` (about to look the request up), `append`, `ack`,
`broadcast`, `agent`. The handler is cut exactly where the code releases the lock,
ends the transaction, or calls out:

| action | code |
|--------|------|
| `RejectNoId`, `AckReplay`, `Accept` | the top of `handleCommand`: the id check, the idempotency map, the `switch` |
| `Claim` | look up and delete the pending request under `h.mu` |
| `AppendEvent`, `AppendFails` | the transaction, and the error return |
| `ClientAck`, `Broadcast` | the reply, then the broadcast |
| `TellAgent`, `AgentRefuses` | `adapter.Command`, and its error reply |
| `AgentAsks`, `AgentOutput` | the adapter's `emit`, which drops when its channel is full |
| `IngestAppend`, `IngestFails`, `IngestRegister`, `IngestBroadcast` | `ingestAdapterEvents` |

A connection is a slot of a device: a device may have two, the one it lost and the
one it came back on. Which commands a client sends is `Outbox`, and any of them
may arrive again, on any connection of its device, at any time. `replies`,
`inbox`, `published` and `asked` are histories; `waiting` is what the agent waits
for. Queues to the connections are not here (they are in `HubStream`): a reply
counts as given when it is put on the queue.

Assumptions on the environment: a client draws a fresh id for each command
(`sendCommand` uses a uuid) and uses it as idempotency key; the agent never reuses
a request id, as claude's control protocol draws a new one for each. The mock
adapter, a test double, does reuse its two constants (`mock/adapter.go:99`, `:102`),
and is outside this assumption: `pending` is then keyed by an ambiguous id, and a
late answer to the first request resolves the second. (`Transcript`, where an id may
be asked again, has what a screen makes of that.)

The agent may take or refuse any command. The Claude adapter always refuses
`answer_question` (`adapter.go:156-160`) and never asks a question, so that what is
said of questions is about the hub with an agent that takes answers, as the mock does.

### What the runs show

* `commands` (576,000 states, all interleavings). Three connections of two devices;
  both devices answer the same permission, one of them on either of two connections;
  one sends a prompt, the other a malformed command and one without id; the store
  and the agent may fail; clients may answer ids they never saw; the event channel
  holds one event. Checked: `ExactlyOnce`, `FirstAnswerWins`,
  `AnswersFollowRequests`, `PendingMatchesLog`, `AckNamesItsEvent`,
  `RefusedMeansNoEffect`, `AgentReleasedByLog`, `TypeOK`. Two devices and two
  connections of one of them are the smallest instance with every race of the
  code: the same command twice, two answers to one request, and an answer during
  the registration. (`PendingMatchesLog` has a second conjunct for a store that does
  not fail: this run says nothing of it, the theorem does.)
* `commands_live`. With a permission and a question, a store that does not fail and
  an agent that refuses nothing (`AgentMayFail = FALSE`), every event appended is
  broadcast (`EveryEventBroadcast`) and every answer in the log
  reaches the agent (`ResolvedReachesAgent`). That without store failures no open
  request falls out of the maps is the second conjunct of `PendingMatchesLog`;
  the theorem `PendingAgreesWithLog` has it for every instance.

`MaxLog` bounds only the agent's free output; requests and commands are finite by
the constants. `EventBuffer = 1` stands for 256: with one slot the channel
overflows. Deadlock is not checked: the system rests when nobody has anything to
send.

Fairness (`Fairness`): weak fairness of a handler that has accepted a command and
of the ingest loop. The Go runtime schedules runnable goroutines, and a handler
waits for nothing but a mutex that is held for a few statements, SQLite and the
agent's stdin. Clients and the agent are under no obligation.

## 3. The event side: `HubStream`, `HarnessClient`, `SyncSystem`

`HubStream` has writers: any goroutine that appends and then broadcasts.
A broadcast copies the set of registered connections under the read lock
(`CopyClients`), then enqueues to one after the other (`EnqueueTo`). A connection
goes through `hello`, `snapped`, `fetched`, `enqueueing` (`h.mu` held) and
`serving`: `ReadHello`, `GetSnapshot`, `GetEventsSince`, `Register`,
`EnqueueRest`. The writer of a connection (`WriteFrame`, `CloseOverflown`)
empties the queue or notices the overflow, as Go's `select` picks.
`Unregister` is the end of the read loop, `Restart` the daemon dying and starting
with a new session. Frames carry a session and a seq; what they hold is looked up
in `logs`, which never changes behind them.

`HarnessClient` gives each callback of `client.ts` as a function on the client's
record; a callback runs to its end, since the client is single-threaded.
`SyncSystem` joins the two: `sock` is the client's side of a connection, `link`
what still gets through, `wire` what is under way. `Open` may give the client a
second socket while the first still has its handlers, as `connect()` does when
the mobile app comes to the foreground; `OnGap` closes the current socket,
whichever the gap was seen on; `OnClose` of a socket replaced long ago schedules a
reconnection. The transcript is the sequence of events applied: stream items are
a function of it.

One client is enough: clients share nothing but the log and `h.mu`; what others
cause is what the writers append. Two writers are needed to get broadcasts out of
order: the ingest loop and a handler, or two handlers.

Left out here: authentication errors (they are in `Delivery`), `createSocket` throwing (it
schedules a reconnection, as a connection that breaks while dialing does), and a
store error while serving, which closes the connection, as a break does. Back-off
delays are not modelled: a timer is on or off.

### What the runs show

* `stream` (1,000,000 states): one connection at a time, two writers (one of them the
  ingest loop that asks, the other a handler that resolves), a queue of one frame,
  two events per session, two sessions, and one disturbance of the connection: it
  breaks, or the user closes the client and connects it again. Checked:
  `Implements`: the client implements `ReplicatedLog`, that is, what is shown is at
  every moment a prefix of the log of one session, and changes only by the next
  event or by starting again. `LiveViewIsLog`: the snapshot is of a later or an
  earlier moment than the catch-up replayed over it, yet when the client says live
  the pending requests, status and mode are exactly those of the prefix it has.
  `OnlyTheWindowLosesEvents`: a settled client, live with nothing under way to it,
  lacks events only for one of two reasons, both findings. With a queue of one
  every catch-up overflows, gaps repeat, and the full resync happens. (That gaps
  which repeat get the client any further is not among the properties; see Bounds.)
* `stream_sockets` (573,000 states), within one session, two connections: the app calls
  `connect` while a socket is in use, as `connect()` allows and the mobile app does, or
  a connection breaks (one of these, at a moment of its own), while events reach the
  queue out of order and make gaps. `Implements` again: with two sockets alive, events
  come twice and in any order, and still the transcript only grows by the next event.
  `GetsLive`: a client that wants to be connected becomes live again and again. (Two
  sockets and a restart together break the first, see section 9.)
* `stream_missed`, `restart_stuck`: findings, section 9.

Bounds: two events suffice for an event out of order, a gap, a duplicate, and a
request with its resolution; `QueueCap = 1` for overflow, `QueueCap = 3` (snapshot
and both events) for a queue that never does. With a catch-up longer than the
queue a connection may overflow every time; whether it does depends on how the
writer goroutine keeps up and on the random choice of `select`, so `GetsLive` is
claimed only for queues that hold the catch-up. The code's queue is 4096 frames
(`hub.go:25`), and a session's log can be longer; no fairness of the code justifies
more, and neither `Implements` nor `TypeOK` would notice a client that overflows for
ever.

Fairness: weak fairness of each writer that has appended, of each connection's
serving and writing goroutine, of the client's callbacks on each socket, and of
the reconnection timer. Appending, restarting, and the app's `connect` and `close`
are never obliged.

## 4. Pairing: `Pairing`

A code is what the host shows: a token and the addresses it can be reached at
(`AdvertisedAddrs`), as JSON, as a URL or as text. `Parses` is
`parsePairingPayload`; `CandidateUrls` is `candidateUrls`, which sorts addresses by
kind, keeps the order within a kind and removes duplicates (a host bound to one of
its own addresses names it twice). A phone takes all of them, a browser the first,
or the address of its page (`Candidates`). An app that is given a code tries them
one after the other (`StartPairing`, `CandidateTimesOut`, `Opens`, `Unreachable`,
`OnPaired`, `OnError`): a candidate given up keeps its socket and its handlers, and
after a failure the app may be given a code again. A connection is an app and the
number of its attempt, which is the place in `tried`. The hub's `handlePairing` is cut at each
call of the store or of the approver: `PeekPairingToken`,
`ConsumePairingToken`, `Prompt`, `TakeLine` or `PromptTimesOut`,
`ApprovePairingToken`, `Reconsume`, `IssueCredential` or `IssueFails`,
`ReplyPaired`. `row` is the token's row, with whether it has expired. The terminal
has one prompt at a time and a queue of lines; a line goes to whichever prompt
reads next. `pair --approve` is `CliApproves`. Whether there is a terminal is
decided at the start. The prompt does not end when the app goes away: the
request's context outlives a hijacked connection, and nobody reads it.

* `pairing` (104,000 states): one token, one broken connection, two connections in
  all: a phone that tries the two addresses of a code (given as three) or is given
  a code twice, or a phone and a browser with the same token.
  `EveryAddressTried`: a phone that gives up has tried each address of the code,
  none twice, none before a better one, whatever late answers arrive meanwhile.
  `EveryDeviceWasApproved`: of the devices of a token at most one was not asked
  about itself, and then somebody approved that token. `OneTimeUnlessOverlapping`:
  a token pairs one device, under the name given for it, unless connections with it
  were served at the same time, or the store failed to delete it when the device was
  issued. (`hub.go:219` ignores every failure of the second consume. When connections
  overlap, each that is approved gets a device; one app alone does that by trying two
  addresses. When the store fails there, `unspent` remembers the token: its row is
  still approved, and the next connection is paired unasked. The store may fail at
  each other call too: then the connection is refused, or the human is asked.) `SavedIsUsable`: what an app saved names a
  device the host issued and the address it was issued at. `PairingEnds`: every
  pairing ends, every connection is served to its end. Two connections are the
  fewest that overlap; with a third, a browser beside the phone (1.9 million
  states), the safety properties hold as well, but the liveness takes too long.
* `pairing_unsaved`: a finding.

Fairness: handlers run (a free mutex is taken, a prompt times out), dialing ends,
and frames on a connection that holds arrive. The human is not obliged, nor is
the app's time-out needed.

## 5. Commands end to end: `Delivery`

`HubCommands` has a handler in full detail and lets any command arrive at any time.
`Delivery` is about where those arrivals come from: the client's `outbox` and
`promise`s, its credential, and the hub's idempotency keys, joined by connections
that hold frames in both directions. `handleCommand` is cut where it releases `h.mu`
after recording the key: until the command is `Execute`d or `Refuse`d its connection is
`busy`, other handlers go on, and a resend of the same command is acked as a replay
(`AckReplay`). What is one step here, the append, the ack and the call into the agent,
is three in `HubCommands`.

| action | code |
|--------|------|
| `SendCommand` | `sendCommand`: refused when the outbox is full, else queued and the outbox flushed |
| `ConnectCalled`, `ReconnectTimer`, `OpenSocket`, `OnOpen`, `OnClose` | `connect`, `scheduleReconnect`, `openNormalSocket` and its handlers |
| `OnSnapshot`, `OnTip`, `OnGap`, `OnAck`, `OnError`, `OnTerminal` | the cases of `handleEnvelope` |
| `PairStarts`, `PairFails`, `PairSucceeds`, `Forget` | `pair`, and the pair screens' `forgetDevice` |
| `HandleConnection`, `RecordKey`, `AckReplay`, `Execute`, `Refuse`, `Unregister` | `handleConnection`, `serveAuthenticated`, `handleCommand` |
| `RevokeDevice`, `Restart`, `ConnectionLost` | `pair --revoke`, the daemon dying, the network |

The two apps differ: the phone's credential is in the header of the upgrade
request, fixed when the socket is opened, and the phone calls `connect` whenever
it comes to the foreground; the browser's is in the hello. `app` picks one at the
start. Of a connection's events only the snapshot and the event that reaches the
tip are kept (`SyncSystem` has the rest); a gap is a fault that may strike at any
time, and may be the third in a row, which asks for a full resync. A snapshot that is
ahead of the client is followed by that event, except in a later session: there the
client may ask from a `lastSeq` of an earlier one, gets nothing after the snapshot
(`hub.go:268`), and is `Stalled` in `syncing`. The client starts without a `lastSeq`
that was saved (`setLastSeq`): with one, the first session is as a later one here.

`delivery` (377,000 states): two commands, two device ids, two connections, an
outbox of two for the browser and of one for the phone, and one fault of the four
(restart, broken connection, revocation, gap).

* `PromisesAreTrue`: an ack with a seq names the command's own event; an ack without
  one means that an earlier attempt was executed, was refused with the refusal lost, is
  under way (`UnderWay`), or was under way when the daemon died (`cut`). The second half
  is as strong as it can be: the key is recorded before anything is done, and a resend
  is acked from then on (section 9).
* `OncePerDevice`: the keys of the hub, the resends and the outbox dropped on a new
  session together execute a command once per device also across restarts. The
  excuses are the two ways in which the client does not notice that the session is
  new: a full resync clears its session id, and a second socket may have told it.
* `InOrder`: prompts are executed in the order typed, although the whole outbox is
  sent again with every new command and at every transition to live. There are two
  excuses. Sockets have overlapped while the keys changed, after a restart or under a
  new device: what the older socket still carries was sent for other keys. Or the
  earlier prompt was overtaken (`early`): its handler on a lost connection had recorded
  its key and not yet appended, its resend was acked on the new connection, and the
  next prompt there was appended first.
* `OutboxMatchesPromises`: a command in the outbox has a promise to settle, and
  within one session a promise that is open has its command in the outbox. After a
  restart it need not: a snapshot of another session empties the outbox and leaves
  the promises open.
* `UnauthorizedIsTrue`, `RevokedIsToldOnOneSocket`: a client with one socket at a
  time shows the re-pair prompt only if the host does not admit it, a browser also
  with several until the host has revoked a second device; and a revoked device that
  the host serves no more gets to show it, unless two sockets have overlapped.
* `OutboxDrains`: a queued command is settled or dropped, unless the user closed the
  client or has to pair, or the client is `Stalled` in a later session, which is what
  `restart_stuck` found.

Bounds: two commands for order, two connections for overlap, two devices for a
pairing after a revocation. One fault at a time keeps the state space small; each
of them meets every state of the commands. `MaxEach = 1`, so a command is at most
twice executed. What several faults do together is in the proofs, which hold for any
number of them (section 8). Larger instances, with two faults of a kind, three devices
or three connections, are too slow to be runs; they are what showed which excuses
`InOrder` and `UnauthorizedIsTrue` need, since with one fault and two devices neither a
second revocation nor a third device comes up.

Fairness: the hub's goroutines and the client's callbacks of each connection run;
a reconnection timer fires; the app calls `connect` after it has started. Users,
faults and revocations are not obliged.

## 6. From claude's output to the screen: `Transcript`

`HandleStreamJSON` turns a line of claude into one to three events (`EventsOf`): text
and tool calls as lines or blocks of their own or together, tools with a name or with
none, ends of tools, which never have a name (`adapter.go:258`), requests, results with
and without token usage, and lines that are no JSON or leave no item.
`IngestEvent` appends them one by one, and `SendPrompt` and `AnswerPermission`
append what devices do in between. `ItemsAfter` and `CardsAfter` are `applyEvent`:
an assistant item takes the text of a turn until something else seals it
(`AppendAssistant`, `SealOpenAssistant`), is clamped (`ClampText`), a tool result
finishes the last unfinished tool of its name (`FinishTool`), notices are bounded
(`DropNotices`), and the phone trims its list from the head (`TrimItems`). The text
of a delta is the seq of its event, so that what is shown can be compared with the
log. The phone saves its `lastSeq` two seconds after a change (`SaveLater`,
`TimerFires`), may be killed (`AppRestart`, which starts from what was saved) or
lose its connection, and the daemon may restart. A connection delivers in order
here; what sockets do to the order is in `SyncSystem`.

`agent` (4,665,000 states) runs three kinds of behaviour: five events in one session with
nothing going wrong, three events with one break, and two events in each of two sessions
with one break.

* `TextIsKept`: what claude said is on the screen once and in order. A piece is missing
  only above the first item of a trimmed list, or in an assistant item that has reached
  its limit, after the part that no later cut takes away (`Kept`). A cut leaves room,
  and text that comes after it is appended again: what is missing may be in the middle
  of an item. That the newest text is kept, as a comment and a test say, is not so: see
  `newest_text` in section 9. With an item of two
  deltas a cut leaves the same as a hole at the end; the general form was found in the
  proof, and TLC has the hole in the middle with an item of ten.
* `TurnsDoNotMix`: no item has text from both sides of a prompt or of the end of a turn.
* `ToolsFinishLifo`: a call on the screen is shown as done just when, since it started,
  the ends of its name have at some moment outnumbered the starts. This is "last in,
  first out" stated on the log alone: ends first go to the calls that started later, and
  none to a call that is done. Calls without a name nest, are finished in turn, and are
  trimmed away while open; a call with a name is never finished, because no end has one
  (section 9).
* `CardsAreOpenRequests`: a live phone's cards are the open requests of the log it has
  seen, and the stream shows the same of them.
* `NothingIsSkipped`: a live phone that everything has been delivered to has shown
  every event, now or before it was killed. The excuse, `screen.of # session`, is a
  `lastSeq` restored without the session it was of, whose loss is real (section 9): the
  property shows that this is the only one.

Bounds: two deltas fill an item, so that five events have two items of text with
something between them; three items on the phone are exceeded by four. One request
is enough: requests are told apart by id and do not meet otherwise, and it may be
asked twice. No fairness: there is no liveness here.

## 7. Start and stop: `Daemon`

`serve` and `pair --qr` each go through `LoadOrGenerate`, cut at each file access:
`CheckFiles`, `LoadPair`, `LoadOrGenerateKey`, `WriteKey`, `WriteCert`. There is no
lock, and either may die at any step (`Die`, which is also `os.Exit(1)`). A key is a
number in order of minting; a certificate is the key it was made with and whether
it is still `good`, which changes when the host moves or time passes
(`CertificateAges`, in both directions). `printed` is what QR codes have named,
that is, what phones pin. `KeyFileLost` deletes or damages the key file.

After that `StartAgent`, `Serve`, and on a signal `CancelContext`, `KillTree`,
`StopReturns`, against `ContextKills` and `Reap`, which run as goroutines of their
own, and an agent that may exit by itself and whose tools start and end when they
like. On Unix a tool is in the process group from its start; on Windows the
process is put into its job only after it has started, and a tool it starts before
that stays outside. `ReadersEnd` is what `Stop` waits for.

`daemon` (306,000 states: three starts, two keys, both platforms, key file damaged or not):

* `PinsStayGood`: whatever the address, age and deaths, a serving daemon has the
  key of every QR code, unless the key file was lost or the two commands each minted
  a first key at the same time (`crossed`).
* `FilesAreRepaired`: whoever is up with the key of the key file has a certificate of
  that key beside it, also after a death between the two files.
* `StraysExplained`: `supervisor.go:30` and `PLAN.md:52` promise, without exception, that
  trees are reaped. It is so with two: a tool survives `killTree` only if claude had been reaped before
  (its process group cannot be looked up any more), or on Windows if it was outside
  the job.
* `StopEnds`: a stopping daemon ends, also with a tool holding the agent's output
  open: `Wait` closes the pipe.

Three starts are the fewest with a start that dies, one beside it and one that
finds what they left; two keys the fewest that can differ. Fairness: the stopping
goroutine, the killing of a cancelled context, `reap` and the readers go on; no
tool has to end, and no command has to get anywhere.

## 8. What is proved

The proof modules prove theorems of the form `Spec => []P` for every value of the
constants, from the modules' named assumptions alone; two hypotheses beyond those
are stated where they are used.

`HubCommandsProofs`, for any connections, devices, commands, ids and bounds, with
and without failures: `TypeCorrect` (`TypeOK`), `CommandsAreExactlyOnce`
(`ExactlyOnce`), `FirstWriteWins` (`FirstAnswerWins`), `NoAnswerOutOfThinAir`
(`AnswersFollowRequests`), `PendingAgreesWithLog` (`PendingMatchesLog`),
`AcksNameTheirEvents` (`AckNamesItsEvent`), `RefusalsHaveNoEffect`
(`RefusedMeansNoEffect`), `AgentGetsTheLoggedDecision` (`AgentReleasedByLog`). The assumptions: permission and question ids differ, a key
determines its command, an answer names an id of its kind, bounds are numbers.

None of these is inductive by itself. The invariant is built in three layers, each
proved from the one below:

1. `BaseInv`: types; a busy handler has a command the hub executes, and after the
   append it holds the seq of its own event (`HandlerInv`); the channel holds only
   what the adapter emits (`ChannelInv`). From here `AckNamesItsEvent`.
2. `KeyInv`: where a key may be. A key in a handler, in the log or in the inbox is
   recorded; a key has one handler; a handler before its append has no event, one
   before the agent has not told it. From here `ExactlyOnce`. `RefusedInv` stands on
   it: the key of a refused command is recorded and no handler works for it, so
   that nothing more can be done for it. From there `RefusedMeansNoEffect`.
3. `RequestInv`: where a request may be. Asked about but not yet logged, it is in
   the channel, once; logged, it is registering, pending, claimed by one handler,
   or resolved, and in one place only (`OnePlace`); what the log holds of it
   follows (`LogOK`, `ActiveOK`). From here first-write-wins, the pending maps, and
   the agent's release.

`DaemonProofs`, for any number of starts and keys and on any platform:
`TypeCorrect` (`TypeOK`), `PinnedPhonesGetIn` (`PinsStayGood`),
`HalfWrittenFilesAreRepaired` (`FilesAreRepaired`), `SurvivorsHaveAReason`
(`StraysExplained`). Again in layers:

1. `TypeOK` needs `KeysInv` beside it: whoever is past minting has a key that was
   minted, and the key file has none that was not.
2. `FilesInv`, until keys have been crossed: two commands that are writing write the
   same key; it is the key file's, unless that has none; whoever is up has the
   certificate's key, or one the key file no longer has and nobody will write. That
   last disjunct is what makes it inductive: it is the case of a daemon running on
   while its key file is lost and another start mints a new one. Gives
   `FilesAreRepaired`.
3. `PinsInv`, until the key file has been damaged too: the key file has the key that
   any command wrote or loaded and that any QR code named. Gives `PinsStayGood`.
4. `StrayInv`, on its own: outside Windows no tool is outside, and after `killTree` a
   tool that is inside means the process had been reaped. Gives `StraysExplained`.

`SessionLogProofs` has a theorem about the data: `PendingIsUnresolved`, that for
every log the fold of `GetSnapshot`, with its map of pending ids, reports exactly
the requests whose last word in the log is not a resolution. The fold is a
recursive function. The library's induction theorems take a predicate as a parameter
and cannot be instantiated here; `SequenceLemmas` proves induction for sets of numbers
(`LeastElement`, `SetInduction`), and the induction along the log is done with the set
of the lengths up to which the two agree. The hypothesis is that the log has events as the daemon appends
them (`ProperEvent`), which the assumption on the writers of `HubStream` says too.

`SyncSystemProofs`, for any number of connections, writers, sessions, events and
queue lengths, and any number of sockets at once: `TypeCorrect` (`TypeOK`). On the
way it shows that a broadcast goes to connections that were registered (`ToInv`),
that a connection is used again only when nothing of its last use is left
(`LinkInv`), and that what the hub has still to send on a connection is of its
current session, a snapshot first and then events (`OrderInv`).

The second half of `SyncSystemProofs` is for a client with one socket at a time
(`OneAtATime`: there is one connection, or the app neither calls `connect` again nor
closes):

* `ClientShowsTheLog` (`Implements`): every step of the system is a step of
  `ReplicatedLog` or changes nothing there, and so the transcript is a prefix of its
  session's log (`TranscriptIsPrefix`);
* `LiveViewCorrect` (`LiveViewIsLog`);
* `OnlyTheWindow` (`OnlyTheWindowLosesEvents`).

The invariants, each on top of the one before:

1. `SocketInv`: at most one socket is in use, it is the client's current one unless
   the client has closed it, and, where the app does not interfere, the timer runs
   only when there is none.
2. `CopyInv`: the transcript is the first `lastSeq` events of the log of the client's
   session. An event is applied only if its seq is the next one; that it is the next
   event of that log needs
3. `StreamInv`: on an open socket a snapshot comes first, not older than what the
   client shows of its session, and what follows is events of the snapshot's
   session. Events carry no session (`client.ts:417`); this is what stands for it.
   `CopyInv` and `StreamInv` are inductive only together (`SyncInv`).
4. `ViewInv`: pending requests, status and mode that the client shows are `Between`
   those of the log at `lastSeq` and those at the tip: the snapshot is of the tip,
   and the catch-up replays over it events that it has seen. Replaying one more
   keeps it so (`BetweenStep`), and when `lastSeq` reaches the tip the two ends are
   the same.
5. `CoverInv`: on a connection that has read the events and has not overflowed, each
   event of the log was not asked for, or fell into the window between
   `GetEventsSince` and the registration, or is on its way (in the rest of the
   catch-up, the queue, the wire, or a broadcast that has not come to this
   connection), or is shown. A settled client has such a connection, with nothing on
   its way.

With two sockets and a restart the first theorem is false: an event that the older
socket still delivers is taken for one of the new session (section 9). Without a
restart it holds on the instance of `stream_sockets`; in general a gap on the one
socket and a snapshot on the other may leave events shown with no session, so that
no invariant without the hypothesis is offered. `stream`, `stream_missed` and
`restart_stuck` satisfy `OneAtATime`.

`PairingProofs`, for any apps, codes, addresses, tokens, number of connections and
answers of the human: `SavedCorrect` (`SavedIsUsable`), `DevicesAreApproved`
(`EveryDeviceWasApproved`), `TokensAreOneTime` (`OneTimeUnlessOverlapping`),
`EveryAddressIsTried` (`EveryAddressTried`).

1. `AppStep`: an app only ever appends to what it has tried, so the token and the
   address of a connection are fixed (`ConnKept`), and it saves an identity only in
   `OnPaired` of the candidate it waits for.
2. `ServedInv`: what is known of a connection by where its handler is; a device is
   issued before anything says "paired"; a row that is approved has a name. With it,
   whatever is saved was issued on a connection of the app (`SavedInv`).
3. `ConsentInv`: of the connections nobody was asked about, at most one has got past
   the token or has a device, and then the token's row is gone and somebody had
   approved it. The row being gone is the strengthening: it is why there is no second
   one. `ApprovePairingToken` cannot bring a row back, because it needs one.
4. `OneTimeInv`, for tokens that were not presented twice at the same time and that the
   store never failed to delete (`Excused` has the others, and only grows): two
   handlers never serve the same token (`Alone`); a handler between its approval and
   its second `ConsumePairingToken` finds the row still approved; an approved row has
   the name given with `--approve` or that of such a handler; who has a device, or
   will have, is one, and the row is gone.
5. `MobileInv`, about phones alone. The candidates of any code whatever are its
   addresses, each once, sorted by kind (`CandidateFacts`): `FlattenSeq`, by which they
   are filtered and freed of duplicates, is shown to keep the order and the members
   (`FlattenSeqFacts`), by the least index at which it would not. Of what a phone has
   tried, the attempts with its current code are then the first candidates in their
   order, and what it has left is the rest; who has given up has nothing left.

`DeliveryProofs`, for either app, any number of commands, devices, connections and
faults of each kind, and any size of the outbox: `TypeCorrect` (`TypeOK`),
`PromisesCorrect` (`PromisesAreTrue`), `OutboxCorrect` (`OutboxMatchesPromises`),
`PromptsCorrect` (`UnauthorizedIsTrue`), `KeysCorrect` (`OncePerDevice`),
`OrderCorrect` (`InOrder`).

1. `Types`: with the types, what shape a connection has. Under way to the hub are a
   hello and then commands, and the hello is gone once the connection is served
   (`HubEnd`); nothing is under way to a socket the client has let go of
   (`ClientEnd`).
2. `Truth`: the keys of the hub, and the acks under way, are of commands that were
   executed or refused, are under way, or died with the daemon (`Done`), and an ack's
   seq is that of its command. A promise is resolved by such an ack.
3. `Box`: the outbox has no command twice, so that settling a promise takes the
   command out of it for good.
4. `Prompts`. As long as sockets have not overlapped, the client has but one, the
   credential it carries is the client's, and a refusal is on its way only to a
   device that is revoked (`Alone`). A browser with several sockets is told apart by
   revocations: before the first it has its one device; from then until it is paired
   again it has one socket, and none once it was refused (`FirstPairing`); after that
   it is admitted on every socket it has, until a second revocation
   (`SecondPairing`).
5. `Keys`. In one session the keys suffice (`Known`): a handler between key and event has
   its key recorded and its event is not in the log, and no two handlers are at the same
   command (`Handlers`). Across a restart, for a client
   with one socket that no gap has made forget its session: a live client, or one with a
   snapshot under way, has met the session of the hub its socket reaches (`Met`); once
   it has met it, its outbox has nothing of its device's earlier sessions (`LogMet`),
   and neither has any connection that still carries commands of that device
   (`Carried`). A command not yet sent is nowhere (`Fresh`).
6. `Orderly`. A command is *settled* for a device (`Settled`) if the hub has its key and
   no handler is at it still, unless it is known to have been overtaken (`early`). It is
   *over* (`Over`) if it is settled, or if it was issued, is neither under way nor, for the device whose outbox it is, in the
   outbox. Everything earlier than a command that is in the log (`LogTurns`) or under
   way (`Turns`) is over, or goes before it on its connection; what is over stays so
   within the session. That the outbox is sent as a whole and in order (`Sorted`) puts
   the earlier ones before a new one. That a command under way which the hub has not
   seen is still in the outbox (`Kept`) is where the replies come in: one the client may
   still read is of a command whose key the hub has (`Keyed`, `Replied`), and as long as
   something is under way (`InFlight`), no snapshot of another session can empty the
   outbox. `Kept`, `Turns` and `LogTurns` are for `Calm` states: no overlap so far, or a
   first session with the first device, where overlapping sockets do no harm.

Each layer has a lemma for `Init`, one for a step with a case per action, and the
theorems combine them with PTL.

`TranscriptProofs`, for any requests, any limit of a text, of notices and of the phone's
list that is at least one, and any number of events, sessions and breaks: `TypeCorrect`
(`TypeOK`), `TextIsInOrder` (`TextIsKept`), `TurnsStayApart` (`TurnsDoNotMix`),
`ToolsFinishInOrder` (`ToolsFinishLifo`), `CardsAreAsLogged`
(`CardsAreOpenRequests`), `PhoneSkipsNothing` (`NothingIsSkipped`). One invariant, of
four parts:

1. `TypeInv`: types, with the limits of texts and of the list.
2. `SeqInv`: what the phone has saved, what it is about to save and what it shows are not
   beyond what it was shown of the daemon's session; a connection's next event is one
   the screen has, the one it waits for, or one before the snapshot's tip. Gives
   `NothingIsSkipped`.
3. `CardsInv`: from the snapshot to its tip, a request has a card because the events seen
   so far leave it open, or because the snapshot said so, which was about the tip; when
   the tip is reached the two are the same. This is what makes a catch-up that replays
   requests over a later snapshot come out right.
4. `Stream`, of the items and the events applied: items in the order of their events
   (`Ordered`); text only of deltas and between its item and the next (`Written`); no
   text after the end of a turn (`Unmixed`, which needs that an item that is not the last
   or was sealed takes no more); requests marked as the log resolves them (`Answered`);
   every delta shown, trimmed or cut (`Covered`); the calls of tools (`Nested`). The last
   is what makes `ToolsFinishLifo` inductive: of a call that is not done, the ends since
   it started and the later calls of its name that still wait are together as many as the
   starts since then, so that an end which finds a later call waiting cannot be the one
   that outnumbers, and the end that finds none is. Each part is shown to be kept by each operator of the
   reducer (`AppendAssistant`, `SealOpenAssistant`, `FinishTool`, `DropNotices`,
   `Resolve`, `ClampText`, `TrimItems`), so that `ItemsAfter` is a composition of steps
   that keep `Stream`. A screen whose `lastSeq` was restored from an older session has
   nothing on it (`Blank`) or is on its way through the new one.

Only model-checked: the refinement with several sockets, on one instance, and everything
about liveness (`EveryEventBroadcast`, `ResolvedReachesAgent`, `GetsLive`, `PairingEnds`,
`RevokedIsToldOnOneSocket`, `OutboxDrains`, `StopEnds`), which is out of the prover's
reach.

## 9. Findings and observations

Findings are runs that TLC refutes; the quotations are in `PROJECT.json`.

* `stream_missed` (`CaughtUp`). An event broadcast between a connection's reading
  of the events and its registration is not sent to it; the client says live and
  lacks it until the next event shows the gap.
* `restart_stuck` (`GetsLive`). After a daemon restart a client asks the new session
  for what follows a seq of the old one. It gets the snapshot and no events, resets
  its lastSeq to 0, and stays `syncing`, where it sends no commands, until an event
  beyond the tip makes a gap. (Sessions are not resumed, by design so far, but the
  clients are meant to resync.)
* `pairing_unsaved` (`IdentityIsSaved`). The phone waits 3 s for an address, the host
  60 s for its human. A pairing approved in between gives the client an identity,
  and it connects, but nothing saves it: the phone is unpaired at its next start.
* `newest_text` (`NewestIsKept`). An assistant text above `MAX_TEXT_BYTES` is cut with
  `slice(0, ...)` (`reducer.ts:355`), which drops its end: the text that has just come
  in. The comment above the loop says that the most recent output is preserved, and a
  test is named "keeping the tail", but looks only at the length. When the tenth that
  was cut is filled again, the same happens to what comes then.

Observations met while modelling, which the properties allow for by name and no run
is spent on:

* The idempotency key is recorded before the command is executed (`hub.go:337`). A
  resend is acked from then on: of an answer that was refused and whose error was lost
  with its connection, or of a prompt that its first attempt has not appended yet, and
  will not if the daemon dies or the store fails. `PromisesAreTrue` has the cases. And a
  prompt whose resend was acked like that may be overtaken by the next: `InOrder` has it.
* A store error at `hub.go:219` leaves an approved token behind, which pairs a second
  device, unasked; `auth.go:94` says that consuming a token deletes it
  "so it cannot be reused". `OneTimeUnlessOverlapping` has the case (`unspent`).
* Two handlers may append in one order and reach the adapter in the other
  (`hub.go:398`): the agent may get two commands in the other order than every
  screen has them.
* A request is in the log, and in snapshots, before it is in the pending map
  (`hub.go:485`): the first answer to it can be refused as already resolved.
  `PendingMatchesLog` bounds the moment.
* Events carry no session (`client.ts:417`). With two sockets and a restart, one that
  the older still delivers is taken for an event of the new session; `stream` has
  the restart and `stream_sockets` the two sockets, not both.
* With two sockets, a snapshot on the older one makes a client live again that the
  newer one has just been told is revoked (`client.ts:409`); with its `closedByUser`
  set it then never reconnects.
* The outbox survives `forgetDevice` and a new pairing: commands typed on a device
  that was revoked are executed under the next. A snapshot of a new session drops
  the outbox and leaves its promises open for ever (`client.ts:403`).
* A phone's socket carries the credential of the moment it was opened
  (`client.ts:329`); its refusal after a new pairing makes the client unauthorized
  again.
* A pairing that fails leaves the phase at `pairing` (`client.ts:207`).
* `docs/ARCHITECTURE.md:68` says there is no offline command queue; the outbox is one.
* A request the agent asks again with an id already used comes back as a card and
  stays resolved in the stream (`reducer.ts:243`).
* A tool result without a name, as the adapter sends it (`adapter.go:258`), finishes no
  tool that has one (`reducer.ts:384`): the tool shows "…" (`ItemViews.tsx:42`,
  `StreamView.tsx:49`) as long as it is on the screen, and a second item appears.
* Text after a cut is appended to what the cut left (`reducer.ts:350`): a long item ends
  with recent output and lacks some in its middle, without a mark. `TextIsKept` has the
  case.
* `turn_complete` ends whichever turn runs: with a second prompt queued the screen
  says idle while the agent works (`reducer.ts:181`).
* A persisted `lastSeq` is restored without its session (`mobileClient.ts:52`): events
  of a newer session up to it are dropped as duplicates.
* A line of claude longer than 1 MiB ends the scanner (`adapter.go:194`), and `Wait`
  may close the pipe before the last lines were read (`supervisor.go:100`).
* `os.Exit(1)` after `adapter.Start` leaves the agent running (`main.go:163`).
* `pair --qr` and a first `serve` at the same time may each mint a key, and one of
  the two QR codes is then useless; so is every QR code after the key file was
  damaged.

## 10. Mutants

For every property of every passing run `PROJECT.json` names a change of the model
that a plausible bug would make and that TLC then catches: a request not deleted
when claimed, a key not recorded, a missing return, an ack with the tip instead of
the event's seq, a skipped broadcast, a frame dropped without closing the
connection, a client that is live too early, accepts a gap or a duplicate, or does
not reconnect, an outbox sent newest first or kept across sessions, a revoked flag
not looked at, text taken into another turn's item, a list trimmed at the wrong
end, a call of a tool finished in the wrong order, a token not deleted when used, a key
reused only while its certificate is good, a tree of which only the leader is killed. Their definitions stand beside the originals.

## 11. Not modelled, and the plan

Done, in order: `SessionLog`, `HubCommands` and its proofs, `ReplicatedLog`,
`HubStream`, `HarnessClient`, `SyncSystem`, `Pairing`, `Delivery`, `Transcript`,
`Daemon` and its proofs, the proofs about `SessionLog`, `SyncSystem`, `Pairing`,
`Delivery` and `Transcript`.
What would follow, in order:

1. `Delivery` and `HubCommands` as one: the key of a command is recorded in a step of
   its own in both, but append, ack and the call into the agent are one step in the
   first and three in the second.
2. The daemon restarting in the middle of a pairing.
3. In `Transcript`: questions as items, token usage, `turnActive`, devices' names.

Not to be modelled: discovery, configuration, address helpers, logging, the web
server of generated files, the text of pairing URLs, rendering, X.509 and SQL: they
keep no state the rest relies on, or are pure I/O. The mock adapter is a test double
that emits a script. `last_seen` and the listing of devices feed nothing back.
