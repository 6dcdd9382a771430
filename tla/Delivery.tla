------------------------------ MODULE Delivery ------------------------------
(***************************************************************************)
(* Commands on their way from HarnessClient                                *)
(* (clients/packages/harness-protocol/src/client.ts) to the hub and their  *)
(* replies on the way back: the outbox and the promises of the client, its *)
(* credential, and the hub's idempotency keys, over connections that       *)
(* break, with a daemon that restarts, devices that are revoked and paired *)
(* again, and a client that asks for a full resync.                        *)
(*                                                                         *)
(* HubCommands has the handler of a command in full and SyncSystem the     *)
(* events; here a handler records the key of its command in one step and   *)
(* executes or refuses it in another, and of a connection's events there   *)
(* is the snapshot and the one that brings the client to the tip.          *)
(***************************************************************************)
EXTENDS Naturals, Sequences, SequencesExt

CONSTANTS
  MaxCmd,        \* bound: commands the user issues, numbered as he issues them
  Dev,           \* device ids the host can issue
  Conn,          \* connections that can exist at the same time
  None,
  App,           \* the apps that may run the client: "web", "mobile"
  MaxOutbox,     \* MAX_OUTBOX, for each app
  MaxEach,       \* bounds: of each Fault,
  MaxFaults      \* and of all of them

ASSUME DeliveryAssumption ==
  /\ None \notin Dev \cup Conn /\ Dev # {}
  /\ App \subseteq {"web", "mobile"}
  /\ MaxOutbox \in [App -> Nat \ {0}]
  /\ {MaxCmd, MaxEach, MaxFaults} \subseteq Nat

VARIABLES
  session,   \* the daemon's session, one per start
  log,       \* executed commands, of all sessions
  applied,   \* Hub.idempotency: <<device, command>>
  refused,   \* history: <<device, command>> answered with an error
  early,     \* history: the events an attempt under way will append (or not) of
             \* those acked as a replay meanwhile
  cut,       \* history: those whose attempt died with the daemon
  issued,    \* devices paired so far
  valid,     \* those not revoked
  server,    \* per connection: the device serveAuthenticated serves, or None
  link,      \* per connection: "up", "shut" (by the hub), "down"
  toHub,     \* per connection: frames under way to the hub
  busy,      \* per connection: whether the key of its first frame is recorded,
             \* and the command not yet executed or refused
  toClient,  \* per connection: frames under way to the client
  client,    \* phase, identity, session, socket and flags of HarnessClient; history:
             \* whether it ever had two sockets, or asked for a full resync
  outbox,    \* HarnessClient.outbox, in insertion order
  promise,   \* per command: the promise of sendCommand
  sock,      \* per connection, the client's socket: "free", "dialing", "open"
  header,    \* per connection: the credential in its Authorization header
  app,       \* the app that runs the client
  spent      \* how often each fault has happened

hubVars == <<session, log, applied, refused, issued, valid, server, busy, early, cut>>
netVars == <<link, toHub, toClient>>
clientVars == <<client, outbox, promise, sock, header, app>>
vars == <<hubVars, netVars, clientVars, spent>>

Cmd == 1 .. MaxCmd

\* Device ids are drawn at random: it does not matter which one is first.
FirstDev == CHOOSE d \in Dev : TRUE

NoSession == 0

\* authMode: the phone's credential is in the header of the upgrade request,
\* the browser's in the hello.
HeaderAuth == app = "mobile"

Fault == {"restart", "drop", "revoke", "gap"}
Happens(fault) ==
  /\ spent[fault] < MaxEach
  /\ SumFunction(spent) < MaxFaults
  /\ spent' = [spent EXCEPT ![fault] = @ + 1]

\* The session stands for the lastSeq, which counts its events.
Hello(credential, device, s) ==
  [type |-> "hello", credential |-> credential, device |-> device, session |-> s]
CommandFrame(x) == [type |-> "command", cmd |-> x]
Snapshot(s, behind) == [type |-> "snapshot", session |-> s, behind |-> behind]
Tip == [type |-> "tip"]
Ack(x, seq) == [type |-> "ack", cmd |-> x, seq |-> seq]
Error(x) == [type |-> "error", cmd |-> x]
Terminal == [type |-> "terminal"]

Unsent == [state |-> "unsent", seq |-> 0]
Pending == [state |-> "pending", seq |-> 0]
Resolved(seq) == [state |-> "resolved", seq |-> seq]
Rejected == [state |-> "rejected", seq |-> 0]

-----------------------------------------------------------------------------
(* sendCommand and flushOutbox *)

\* Mutant of OutboxFull.
OutboxOverFull == Len(outbox) > MaxOutbox[app]
OutboxFull == Len(outbox) >= MaxOutbox[app]

\* Mutant of Flushed: the outbox is sent newest command first.
FlushedBackwards(cl, box) ==
  IF cl.phase = "live" /\ cl.socket # None /\ sock[cl.socket] = "open" /\ link[cl.socket] = "up"
  THEN [toHub EXCEPT ![cl.socket] = @ \o [i \in DOMAIN box |-> CommandFrame(Reverse(box)[i])]]
  ELSE toHub

\* What is on the way to the hub once the whole outbox has been sent, which
\* only a live client with an open socket does.
Flushed(cl, box) ==
  IF cl.phase = "live" /\ cl.socket # None /\ sock[cl.socket] = "open" /\ link[cl.socket] = "up"
  THEN [toHub EXCEPT ![cl.socket] = @ \o [i \in DOMAIN box |-> CommandFrame(box[i])]]
  ELSE toHub

\* The screens with a prompt: the device is paired and not told otherwise.
NeedsPairing == client.identity = None \/ client.phase = "unauthorized"

SendCommand(x) ==
  /\ ~NeedsPairing
  /\ promise[x] = Unsent
  /\ \A y \in 1 .. x - 1 : promise[y] # Unsent
  /\ IF OutboxFull
     THEN /\ promise' = [promise EXCEPT ![x] = Rejected]
          /\ UNCHANGED <<outbox, toHub>>
     ELSE /\ promise' = [promise EXCEPT ![x] = Pending]
          /\ outbox' = Append(outbox, x)
          /\ toHub' = Flushed(client, outbox')
  /\ UNCHANGED <<hubVars, link, toClient, client, sock, header, app, spent>>

-----------------------------------------------------------------------------
(* Sockets *)

\* openNormalSocket, with the credential of this moment in its header.
OpenSocket(cl, c) ==
  /\ sock[c] = "free" /\ server[c] = None /\ toHub[c] = <<>>
  /\ sock' = [sock EXCEPT ![c] = "dialing"]
  /\ header' = [header EXCEPT ![c] = IF HeaderAuth THEN cl.identity ELSE None]
  /\ link' = [link EXCEPT ![c] = "up"]
  /\ client' = [cl EXCEPT
       !.phase = IF cl.session = NoSession THEN "connecting" ELSE "reconnecting",
       !.session = IF cl.fullResync THEN NoSession ELSE cl.session,
       !.fullResync = FALSE, !.timer = FALSE, !.socket = c,
       !.overlap = cl.overlap \/ \E d \in Conn : sock[d] # "free"]

Connected(cl) == [cl EXCEPT !.closedByUser = FALSE, !.timer = FALSE]

\* On start, on the phone whenever it comes to the foreground, in the browser
\* once more after a pairing.
ConnectCalled(c) ==
  /\ \/ client.phase = "idle" /\ client.identity # None
     \/ client.again
     \/ app = "mobile" /\ client.phase # "live"
  /\ OpenSocket(Connected([client EXCEPT !.again = FALSE]), c)
  /\ UNCHANGED <<hubVars, toHub, toClient, outbox, promise, app, spent>>

ReconnectTimer(c) ==
  /\ client.timer
  /\ IF client.closedByUser
     THEN /\ client' = [client EXCEPT !.timer = FALSE]
          /\ UNCHANGED <<sock, header, link>>
     ELSE OpenSocket(client, c)
  /\ UNCHANGED <<hubVars, toHub, toClient, outbox, promise, app, spent>>

OnOpen(c) ==
  /\ sock[c] = "dialing" /\ link[c] = "up"
  /\ sock' = [sock EXCEPT ![c] = "open"]
  /\ toHub' = [toHub EXCEPT ![c] =
       <<Hello(IF HeaderAuth THEN header[c] ELSE client.identity, client.identity,
               client.session)>>]
  /\ UNCHANGED <<hubVars, link, toClient, client, outbox, promise, header, app, spent>>

\* scheduleReconnect
Reconnecting(cl) ==
  IF cl.closedByUser THEN cl ELSE [cl EXCEPT !.phase = "reconnecting", !.timer = TRUE]

\* onclose, once everything sent before the close has been received.
OnClose(c) ==
  /\ sock[c] # "free" /\ link[c] # "up" /\ toClient[c] = <<>>
  /\ sock' = [sock EXCEPT ![c] = "free"]
  /\ client' = IF client.phase = "unauthorized" THEN client ELSE Reconnecting(client)
  /\ UNCHANGED <<hubVars, netVars, outbox, promise, header, app, spent>>

\* detachAndClose: the current socket loses its handlers; what it has sent may
\* still reach the hub.
Detach(c) ==
  /\ sock' = [d \in Conn |-> IF d = client.socket THEN "free" ELSE sock[d]]
  /\ link' = [d \in Conn |-> IF d = client.socket THEN "down" ELSE link[d]]
  /\ toClient' = [d \in Conn |-> IF d = client.socket THEN <<>>
                                 ELSE IF d = c THEN Tail(toClient[d]) ELSE toClient[d]]

-----------------------------------------------------------------------------
(* handleEnvelope *)

Receives(c, type) ==
  /\ sock[c] = "open" /\ toClient[c] # <<>> /\ Head(toClient[c]).type = type

Taken(c) == toClient' = [toClient EXCEPT ![c] = Tail(@)]

\* Mutant of ForgetsOutbox: a new session is not looked at.
KeepsOutbox(cl, s) == FALSE

\* handleSnapshot: the commands of another session are dropped.
ForgetsOutbox(cl, s) == cl.session # NoSession /\ cl.session # s

OnSnapshot(c) ==
  /\ Receives(c, "snapshot")
  /\ LET snap == Head(toClient[c])
     IN  /\ outbox' = IF ForgetsOutbox(client, snap.session) THEN <<>> ELSE outbox
         /\ client' = [client EXCEPT !.session = snap.session,
                                     !.phase = IF snap.behind THEN "syncing" ELSE "live"]
  /\ toHub' = Flushed(client', outbox')
  /\ Taken(c)
  /\ UNCHANGED <<hubVars, link, promise, sock, header, app, spent>>

\* Mutant of OnTip: live without a flush.
OnTipUnflushed(c) ==
  /\ Receives(c, "tip")
  /\ client' = [client EXCEPT !.phase = "live"]
  /\ Taken(c)
  /\ UNCHANGED <<hubVars, link, toHub, outbox, promise, sock, header, app, spent>>

\* handleEvent, for the event that reaches the tip.
OnTip(c) ==
  /\ Receives(c, "tip")
  /\ client' = [client EXCEPT !.phase = "live"]
  /\ toHub' = IF client.phase = "live" THEN toHub ELSE Flushed(client', outbox)
  /\ Taken(c)
  /\ UNCHANGED <<hubVars, link, outbox, promise, sock, header, app, spent>>

\* The client is served and waits for events nobody has promised; the next
\* event there is will be ahead of it.
Stalled ==
  /\ client.phase = "syncing" /\ client.socket # None
  /\ link[client.socket] = "up" /\ server[client.socket] # None
  /\ \A c \in Conn : \A i \in DOMAIN toClient[c] : toClient[c][i].type \notin {"snapshot", "tip"}

\* An event with a gap, perhaps the third in a row.
OnGap(c) ==
  /\ sock[c] = "open" /\ server[c] # None
  /\ Happens("gap") \/ (Stalled /\ UNCHANGED spent)
  /\ \E third \in BOOLEAN :
       client' = Reconnecting([client EXCEPT !.fullResync = client.fullResync \/ third,
                                             !.resynced = client.resynced \/ third,
                                             !.socket = None])
  /\ sock' = [d \in Conn |-> IF d = client.socket THEN "free" ELSE sock[d]]
  /\ link' = [d \in Conn |-> IF d = client.socket THEN "down" ELSE link[d]]
  /\ toClient' = [d \in Conn |-> IF d = client.socket THEN <<>> ELSE toClient[d]]
  /\ UNCHANGED <<hubVars, toHub, outbox, promise, header, app>>

\* Mutant of Settle: an answered command stays in the outbox.
SettleInPlace(x, outcome) ==
  IF promise[x] # Pending THEN UNCHANGED <<promise, outbox>>
  ELSE promise' = [promise EXCEPT ![x] = outcome] /\ UNCHANGED outbox

\* outbox.delete
Without(box, x) ==
  IF Contains(box, x) THEN RemoveAt(box, CHOOSE i \in DOMAIN box : box[i] = x) ELSE box

\* handleAck and handleError: the first reply settles the promise.
Settle(x, outcome) ==
  IF promise[x] # Pending THEN UNCHANGED <<promise, outbox>>
  ELSE /\ promise' = [promise EXCEPT ![x] = outcome]
       /\ outbox' = Without(outbox, x)

OnAck(c) ==
  /\ Receives(c, "ack")
  /\ Settle(Head(toClient[c]).cmd, Resolved(Head(toClient[c]).seq))
  /\ Taken(c)
  /\ UNCHANGED <<hubVars, link, toHub, client, sock, header, app, spent>>

\* Mutant of OnError: the error of a command is taken for a terminal one.
OnErrorTerminal(c) ==
  /\ Receives(c, "error")
  /\ client' = [client EXCEPT !.closedByUser = TRUE, !.phase = "unauthorized"]
  /\ Taken(c)
  /\ UNCHANGED <<hubVars, link, toHub, outbox, promise, sock, header, app, spent>>

OnError(c) ==
  /\ Receives(c, "error")
  /\ Settle(Head(toClient[c]).cmd, Rejected)
  /\ Taken(c)
  /\ UNCHANGED <<hubVars, link, toHub, client, sock, header, app, spent>>

\* A terminal code (auth_required, device_mismatch) on any socket: the client
\* gives up its current one and waits for its user.
OnTerminal(c) ==
  /\ Receives(c, "terminal")
  /\ client' = [client EXCEPT !.closedByUser = TRUE, !.socket = None,
                              !.phase = "unauthorized"]
  /\ Detach(c)
  /\ UNCHANGED <<hubVars, toHub, outbox, promise, header, app, spent>>

-----------------------------------------------------------------------------
(* The pair screen *)

\* pair: the outbox and the session stay as they are.  The last device id is
\* a bound of the model.
PairStarts ==
  /\ NeedsPairing /\ ~client.pairing /\ issued # Dev
  /\ client' = [client EXCEPT !.phase = "pairing", !.pairing = TRUE]
  /\ UNCHANGED <<hubVars, netVars, outbox, promise, sock, header, app, spent>>

\* A pairing that fails leaves the phase as it is.
PairFails ==
  /\ client.pairing
  /\ client' = [client EXCEPT !.pairing = FALSE]
  /\ UNCHANGED <<hubVars, netVars, outbox, promise, sock, header, app, spent>>

\* The host issues a credential; connect follows.
PairSucceeds(d, c) ==
  /\ client.pairing
  /\ d \notin issued
  /\ issued' = issued \cup {d}
  /\ valid' = valid \cup {d}
  /\ OpenSocket(Connected([client EXCEPT !.identity = d, !.pairing = FALSE,
                                         !.again = app = "web"]), c)
  /\ UNCHANGED <<session, log, applied, refused, server, busy, early, cut, toHub, toClient,
                 outbox, promise, app, spent>>

\* forgetDevice: close, reset, setIdentity(null).
Forget ==
  /\ NeedsPairing /\ client.identity # None
  /\ client' = [client EXCEPT !.phase = "idle", !.identity = None, !.session = NoSession,
                              !.socket = None, !.closedByUser = FALSE,
                              !.fullResync = FALSE, !.timer = FALSE]
  /\ UNCHANGED <<hubVars, netVars, outbox, promise, sock, header, app, spent>>

-----------------------------------------------------------------------------
(* The hub *)

Send(c, frames) ==
  toClient' = [toClient EXCEPT ![c] = IF link[c] = "up" THEN @ \o frames ELSE @]

Read(c) == toHub' = [toHub EXCEPT ![c] = Tail(@)]

\* Mutant of Admits: the credential is looked up without its revoked flag.
AdmitsRevoked(hello) ==
  /\ hello.credential \in issued
  /\ hello.device \in {hello.credential, None}

Admits(hello) ==
  /\ hello.credential \in valid
  /\ hello.device \in {hello.credential, None}

\* handleConnection and the start of serveAuthenticated: the snapshot and the
\* events after the client's lastSeq, of which there may be none if that counts
\* another session's.
HandleConnection(c) ==
  /\ server[c] = None /\ toHub[c] # <<>>
  /\ LET hello == Head(toHub[c])
     IN  IF Admits(hello)
         THEN /\ server' = [server EXCEPT ![c] = hello.credential]
              /\ \/ Send(c, <<Snapshot(session, FALSE)>>)
                 \/ Send(c, <<Snapshot(session, TRUE), Tip>>)
                 \/ /\ hello.session \notin {NoSession, session}
                    /\ Send(c, <<Snapshot(session, TRUE)>>)
              /\ Read(c)
              /\ UNCHANGED link
         ELSE /\ Send(c, <<Terminal>>)
              /\ link' = [link EXCEPT ![c] = IF @ = "up" THEN "shut" ELSE @]
              /\ toHub' = [toHub EXCEPT ![c] = <<>>]
              /\ UNCHANGED server
  /\ UNCHANGED <<session, log, applied, refused, issued, valid, busy, early, cut, clientVars, spent>>

NextCommand(c) == server[c] # None /\ toHub[c] # <<>> /\ ~busy[c]

\* The command a connection's handler is at, with its device.
At(c) == <<server[c], Head(toHub[c]).cmd>>
Seen(c) == At(c) \in applied

\* handleCommand: first-write-wins; after that h.mu is free for other handlers.
RecordKey(c) ==
  /\ NextCommand(c)
  /\ ~Seen(c)
  /\ applied' = applied \cup {At(c)}
  /\ busy' = [busy EXCEPT ![c] = TRUE]
  /\ UNCHANGED <<session, log, refused, issued, valid, server, early, cut, netVars, clientVars, spent>>

UnderWay(key) == \E d \in Conn : busy[d] /\ At(d) = key

\* The event its handler appends.
Entry(c) == [session |-> session, dev |-> server[c], cmd |-> Head(toHub[c]).cmd]

\* A key that is there is acked, wherever its handler is.
AckReplay(c) ==
  /\ NextCommand(c)
  /\ Seen(c)
  /\ Send(c, <<Ack(Head(toHub[c]).cmd, 0)>>)
  /\ early' = IF UnderWay(At(c)) THEN early \cup {Entry(c)} ELSE early
  /\ Read(c)
  /\ UNCHANGED <<session, log, applied, refused, issued, valid, server, busy, cut, link, clientVars, spent>>

\* The event is appended and acked; the agent may refuse it after that.
Execute(c) ==
  /\ busy[c]
  /\ log' = Append(log, Entry(c))
  /\ LET x == Head(toHub[c]).cmd
     IN  \E late \in {<<>>, <<Error(x)>>} : Send(c, <<Ack(x, Len(log) + 1)>> \o late)
  /\ Read(c)
  /\ busy' = [busy EXCEPT ![c] = FALSE]
  /\ UNCHANGED <<session, applied, refused, issued, valid, server, early, cut, link, clientVars, spent>>

\* Mutant of RefusalReply: a refusal is acked.
RefusalAcked(x) == Ack(x, Len(log))
RefusalReply(x) == Error(x)

\* A claim that is lost, or a store that fails.
Refuse(c) ==
  /\ busy[c]
  /\ refused' = refused \cup {At(c)}
  /\ Send(c, <<RefusalReply(Head(toHub[c]).cmd)>>)
  /\ Read(c)
  /\ busy' = [busy EXCEPT ![c] = FALSE]
  /\ UNCHANGED <<session, log, applied, issued, valid, server, early, cut, link, clientVars, spent>>

\* conn.Read fails.
Unregister(c) ==
  /\ server[c] # None /\ link[c] # "up" /\ toHub[c] = <<>>
  /\ server' = [server EXCEPT ![c] = None]
  /\ UNCHANGED <<session, log, applied, refused, issued, valid, busy, early, cut, netVars,
                 clientVars, spent>>

\* harness pair --revoke: the connections of the device go on.
RevokeDevice(d) ==
  /\ d \in valid
  /\ Happens("revoke")
  /\ valid' = valid \ {d}
  /\ UNCHANGED <<session, log, applied, refused, issued, server, busy, early, cut, netVars,
                 clientVars>>

\* The daemon dies and starts again: a new session, and no key is known.  Its
\* handlers die with it, and what it had sent may be lost.
Restart ==
  /\ Happens("restart")
  /\ session' = session + 1
  /\ applied' = {}
  /\ cut' = cut \cup {At(c) : c \in {d \in Conn : busy[d]}}
  /\ busy' = [c \in Conn |-> FALSE]
  /\ server' = [c \in Conn |-> None]
  /\ link' = [c \in Conn |-> IF link[c] = "up" THEN "shut" ELSE link[c]]
  /\ toHub' = [c \in Conn |-> <<>>]
  /\ toClient' \in {toClient, [c \in Conn |-> <<>>]}
  /\ UNCHANGED <<log, refused, issued, valid, early, clientVars>>

\* A connection breaks; of what is under way to the hub a part may arrive, and
\* what its handler is at has arrived.
ConnectionLost(c) ==
  /\ sock[c] # "free" /\ link[c] # "down"
  /\ Happens("drop")
  /\ link' = [link EXCEPT ![c] = "down"]
  /\ toClient' = [toClient EXCEPT ![c] = <<>>]
  /\ \E n \in (IF busy[c] THEN 1 ELSE 0) .. Len(toHub[c]) :
       toHub' = [toHub EXCEPT ![c] = SubSeq(@, 1, n)]
  /\ UNCHANGED <<hubVars, clientVars>>

-----------------------------------------------------------------------------
Init ==
  /\ session = 1 /\ log = <<>> /\ applied = {} /\ refused = {} /\ early = {} /\ cut = {}
  /\ issued = {FirstDev} /\ valid = {FirstDev}
  /\ client = [phase |-> "idle", identity |-> FirstDev, session |-> NoSession,
               fullResync |-> FALSE, closedByUser |-> FALSE, timer |-> FALSE,
               pairing |-> FALSE, again |-> FALSE, socket |-> None,
               overlap |-> FALSE, resynced |-> FALSE]
  /\ server = [c \in Conn |-> None] /\ link = [c \in Conn |-> "down"]
  /\ busy = [c \in Conn |-> FALSE]
  /\ toHub = [c \in Conn |-> <<>>] /\ toClient = [c \in Conn |-> <<>>]
  /\ outbox = <<>> /\ promise = [x \in Cmd |-> Unsent]
  /\ sock = [c \in Conn |-> "free"] /\ header = [c \in Conn |-> None]
  /\ app \in App
  /\ spent = [fault \in Fault |-> 0]

HubStep(c) ==
  \/ HandleConnection(c) \/ RecordKey(c) \/ AckReplay(c) \/ Execute(c) \/ Refuse(c)
  \/ Unregister(c)
ClientStep(c) ==
  \/ OnOpen(c) \/ OnClose(c) \/ OnSnapshot(c) \/ OnTip(c)
  \/ OnAck(c) \/ OnError(c) \/ OnTerminal(c)

Next ==
  \/ \E x \in Cmd : SendCommand(x)
  \/ \E c \in Conn :
       \/ HubStep(c) \/ ClientStep(c) \/ ReconnectTimer(c)
       \/ ConnectCalled(c) \/ OnGap(c) \/ ConnectionLost(c)
       \/ \E d \in Dev : PairSucceeds(d, c)
  \/ PairStarts \/ PairFails \/ Forget \/ Restart
  \/ \E d \in Dev : RevokeDevice(d)

Spec == Init /\ [][Next]_vars

\* Goroutines and callbacks run, timers fire, and what is on a connection that
\* holds arrives; nobody has to send, pair, connect or restart.
Fairness ==
  /\ \A c \in Conn : WF_vars(HubStep(c)) /\ WF_vars(ClientStep(c))
  /\ WF_vars(\E c \in Conn : ReconnectTimer(c))
  /\ WF_vars(\E c \in Conn : ConnectCalled(c) /\ client.phase = "idle")

FairSpec == Spec /\ Fairness

-----------------------------------------------------------------------------
(* Properties *)

Frame ==
  [type : {"hello"}, credential : Dev \cup {None}, device : Dev \cup {None},
   session : 0 .. MaxEach + 1]
    \cup [type : {"command"}, cmd : Cmd]
Reply ==
  [type : {"snapshot"}, session : 1 .. MaxEach + 1, behind : BOOLEAN]
    \cup [type : {"ack"}, cmd : Cmd, seq : 0 .. Len(log)]
    \cup [type : {"error"}, cmd : Cmd] \cup [type : {"tip", "terminal"}]

\* The type of every variable; in particular the outbox keeps within its bound
\* and an ack names a seq that exists.
TypeOK ==
  /\ session \in 1 .. MaxEach + 1 /\ app \in App
  /\ log \in Seq([session : 1 .. session, dev : issued, cmd : Cmd])
  /\ early \subseteq [session : 1 .. session, dev : issued, cmd : Cmd]
  /\ {applied, refused, cut} \subseteq SUBSET (issued \X Cmd)
  /\ issued \in SUBSET Dev /\ valid \in SUBSET issued
  /\ server \in [Conn -> issued \cup {None}] /\ busy \in [Conn -> BOOLEAN]
  /\ link \in [Conn -> {"up", "shut", "down"}]
  /\ toHub \in [Conn -> Seq(Frame)] /\ toClient \in [Conn -> Seq(Reply)]
  /\ client \in
       [phase : {"idle", "connecting", "reconnecting", "syncing", "live", "pairing",
                 "unauthorized"},
        identity : issued \cup {None}, session : 0 .. session, fullResync : BOOLEAN,
        closedByUser : BOOLEAN, timer : BOOLEAN, pairing : BOOLEAN, again : BOOLEAN,
        socket : Conn \cup {None}, overlap : BOOLEAN, resynced : BOOLEAN]
  /\ outbox \in Seq(Cmd) /\ Len(outbox) <= MaxOutbox[app]
  /\ \A x \in Cmd : promise[x].seq \in 0 .. Len(log)
  /\ sock \in [Conn -> {"free", "dialing", "open"}]
  /\ header \in [Conn -> issued \cup {None}]

\* What a resolved promise tells its caller is so: a seq is that of the
\* command's event.  Without a seq an earlier attempt was executed, was refused
\* and that reply was lost, is under way, or died with the daemon.
PromisesAreTrue ==
  \A x \in Cmd : promise[x].state = "resolved" =>
    IF promise[x].seq > 0 THEN log[promise[x].seq].cmd = x
    ELSE \/ \E i \in DOMAIN log : log[i].cmd = x
         \/ \E d \in issued : <<d, x>> \in refused \cup cut \/ UnderWay(<<d, x>>)

\* Between them the outbox, its resends, the keys of the hub and the outbox
\* being dropped on a new session execute a command at most once for one
\* device, also across a daemon restart that forgets the keys, as long as no
\* full resync has made the client forget which session it was in, and it never
\* had two sockets, in two sessions perhaps, at the same time.
OncePerDevice ==
  \A i, j \in DOMAIN log :
    i # j /\ log[i].cmd = log[j].cmd /\ log[i].dev = log[j].dev
      => /\ log[i].session # log[j].session
         /\ client.resynced \/ client.overlap

\* Prompts are executed in the order they were typed in, however often they
\* are resent and over however many sockets, unless sockets overlap while the
\* keys change (the daemon restarts, or the device is paired again), or the
\* earlier one was overtaken: its resend was acked while its first attempt was
\* under way, so that the next one on the new connection went ahead of it.
InOrder ==
  \A i, j \in DOMAIN log :
    i < j /\ log[i].dev = log[j].dev /\ log[i].session = log[j].session
      => \/ log[i].cmd < log[j].cmd
         \/ client.overlap /\ (log[i].session > 1 \/ issued # {log[i].dev})
         \/ log[j] \in early

\* A promise that nothing will settle is that of a command dropped on a new
\* session; what is in the outbox has a promise to settle.
OutboxMatchesPromises ==
  /\ \A i \in DOMAIN outbox : promise[outbox[i]] = Pending
  /\ session = 1 => \A x \in Cmd : promise[x] = Pending => Contains(outbox, x)

\* The re-pair prompt is shown only to a device the host no longer admits,
\* unless the refusal is that of a second socket, opened before the pairing: on
\* the phone any, whose header has the credential of that time; in the browser
\* one that was refused together with the first, of a device paired anew.
UnauthorizedIsTrue ==
  client.phase = "unauthorized" /\ client.identity \in valid
    => client.overlap /\ (app = "web" => spent["revoke"] > 1)

\* A command kept in the outbox is settled, or dropped on a new session, unless
\* the client has been told to close, waits for its user, or is stalled in a
\* later session with a lastSeq of an earlier one (the run restart_stuck).
OutboxDrains ==
  \A x \in Cmd : Contains(outbox, x) ~> \/ ~Contains(outbox, x) \/ client.closedByUser
                                         \/ client.identity = None
                                         \/ (session > 1 /\ Stalled)

\* PHASE2.md: "harness pair --revoke <deviceId> -> phone's next connect ->
\* unauthorized, re-pair prompt".  Once the daemon serves a revoked device no
\* more and nothing is on the way to it, its user is told, unless the client
\* has ever had two sockets at the same time: then the snapshot of the older
\* may still undo what the refusal of the newer has set.
Refused == client.identity \notin valid /\ \A c \in Conn : server[c] = None /\ toClient[c] = <<>>
Told == client.phase \in {"unauthorized", "pairing"} \/ client.identity \in valid \cup {None}
RevokedIsToldOnOneSocket == Refused /\ ~client.overlap ~> Told \/ client.overlap
=============================================================================
