---------------------------- MODULE SyncSystem -----------------------------
(***************************************************************************)
(* One client kept up to date by the hub: HubStream and HarnessClient,     *)
(* joined by WebSocket connections that may break at any moment.           *)
(*                                                                         *)
(* The client may have several sockets: those it replaced and has not seen *)
(* close keep their handlers.  The daemon learns that a connection is gone *)
(* later than the client, and the other way round.  Other clients share    *)
(* nothing with this one but the log and h.mu, so one client is enough;    *)
(* what they cause is in the log.                                          *)
(***************************************************************************)
EXTENDS HubStream, HarnessClient

CONSTANTS
  ConnectAgain,  \* whether the app calls connect while a socket is in use
  UserCloses,    \* whether the app calls close
  MaxDrops       \* bound: connections lost, or closed or replaced by the app

ASSUME SyncBounds ==
  /\ ConnectAgain \in BOOLEAN
  /\ UserCloses \in BOOLEAN
  /\ MaxDrops \in Nat

VARIABLES
  client,  \* the state of HarnessClient
  sock,    \* per connection, the client's socket: "free", "dialing", "open" or
           \* "closing" (closed by the client, onclose still to come)
  drops    \* connections lost, closed or replaced so far

vars == <<hubVars, link, wire, client, sock, drops>>

\* Nothing more gets through on these connections.
Cut(conns) ==
  /\ link' = [c \in Conn |-> IF c \in conns THEN "down" ELSE link[c]]
  /\ queue' = [c \in Conn |-> IF c \in conns THEN <<>> ELSE queue[c]]
  /\ overflow' = [c \in Conn |-> overflow[c] /\ c \notin conns]

-----------------------------------------------------------------------------
(* Opening a socket *)

Open(c) ==
  /\ sock[c] = "free"
  /\ hub[c] = "none"
  /\ sock' = [sock EXCEPT ![c] = "dialing"]
  /\ link' = [link EXCEPT ![c] = "up"]
  /\ UNCHANGED <<hubVars, wire>>

\* An app connects when the client is idle; the mobile app also whenever it
\* comes to the foreground and the client is not live, the web app also right
\* after a pairing, which has connected already.
ConnectCalled(c) ==
  /\ \/ client.phase = "idle" /\ UNCHANGED drops
     \/ /\ ConnectAgain /\ client.phase \notin {"idle", "live"}
        /\ drops < MaxDrops /\ drops' = drops + 1
  /\ client' = Connect(client, c)
  /\ Open(c)

ReconnectTimer(c) ==
  /\ client.timer
  /\ client' = OpenNormalSocket([client EXCEPT !.timer = FALSE], c)
  /\ Open(c)
  /\ UNCHANGED drops

\* onopen: the hello carries the lastSeq of this moment.
OnOpen(c) ==
  /\ sock[c] = "dialing"
  /\ link[c] = "up"
  /\ sock' = [sock EXCEPT ![c] = "open"]
  /\ ReadHello(c, client.session.lastSeq)
  /\ UNCHANGED <<client, drops>>

-----------------------------------------------------------------------------
(* onmessage, on any socket that still has its handlers *)

NextFrame(c, type) ==
  /\ sock[c] = "open"
  /\ wire[c] # <<>>
  /\ Head(wire[c]).type = type

OnSnapshot(c) ==
  /\ NextFrame(c, "snapshot")
  /\ LET f == Head(wire[c])
     IN  client' = HandleSnapshot(client, f.session, f.seq,
                                  Snapshot(SubSeq(logs[f.session], 1, f.seq)))
  /\ wire' = [wire EXCEPT ![c] = Tail(@)]
  /\ UNCHANGED <<hubVars, link, sock, drops>>

OnEvent(c) ==
  /\ NextFrame(c, "event")
  /\ LET f == Head(wire[c])
     IN  /\ ~IsGap(client, f.seq)
         /\ client' = IF IsDuplicate(client, f.seq) THEN client
                      ELSE HandleNext(client, f.seq, logs[f.session][f.seq])
  /\ wire' = [wire EXCEPT ![c] = Tail(@)]
  /\ UNCHANGED <<hubVars, link, sock, drops>>

\* A gap closes the client's current socket, which may be another one than
\* the gap was seen on, and removes its handlers.
OnGap(c) ==
  /\ NextFrame(c, "event")
  /\ IsGap(client, Head(wire[c]).seq)
  /\ client' = NoteGap(client, Head(wire[c]).seq)
  /\ sock' = [d \in Conn |-> IF d = client.socket THEN "free" ELSE sock[d]]
  /\ wire' = [d \in Conn |-> IF d = client.socket THEN <<>>
                             ELSE IF d = c THEN Tail(wire[d]) ELSE wire[d]]
  /\ Cut({client.socket})
  /\ UNCHANGED <<logs, writer, hub, since, rest, missed, drops>>

-----------------------------------------------------------------------------
(* Closing *)

\* onclose, once everything sent before the close has been received.  Any
\* socket that closes schedules a reconnection, also one replaced long ago.
OnClose(c) ==
  /\ sock[c] # "free"
  /\ link[c] # "up"
  /\ wire[c] = <<>>
  /\ sock' = [sock EXCEPT ![c] = "free"]
  /\ client' = ScheduleReconnect(client)
  /\ UNCHANGED <<hubVars, link, wire, drops>>

CloseCalled ==
  /\ UserCloses
  /\ client.phase # "idle"
  /\ drops < MaxDrops
  /\ drops' = drops + 1
  /\ client' = UserClose(client)
  /\ sock' = [c \in Conn |-> IF c = client.socket /\ sock[c] # "free"
                             THEN "closing" ELSE sock[c]]
  /\ wire' = [c \in Conn |-> IF c = client.socket THEN <<>> ELSE wire[c]]
  /\ Cut({client.socket})
  /\ UNCHANGED <<logs, writer, hub, since, rest, missed>>

\* A connection breaks, with everything on it.
ConnectionLost(c) ==
  /\ drops < MaxDrops
  /\ sock[c] \in {"dialing", "open"}
  /\ link[c] # "down"
  /\ drops' = drops + 1
  /\ wire' = [wire EXCEPT ![c] = <<>>]
  /\ Cut({c})
  /\ UNCHANGED <<logs, writer, hub, since, rest, missed, client, sock>>

-----------------------------------------------------------------------------
Init ==
  /\ HubInit
  /\ client = NewClient
  /\ sock = [c \in Conn |-> "free"]
  /\ drops = 0

clientVars == <<client, sock, drops>>

Append_(w) == \E ev \in WriterEvents[w] : AppendEvent(w, ev)

Next ==
  \/ /\ \/ \E w \in Writer : Append_(w) \/ WriterStep(w)
        \/ \E c \in Conn : ServeStep(c) \/ WriteStep(c)
        \/ Restart
     /\ UNCHANGED clientVars
  \/ \E c \in Conn :
       \/ ConnectCalled(c) \/ ReconnectTimer(c) \/ OnOpen(c)
       \/ OnSnapshot(c) \/ OnEvent(c) \/ OnGap(c) \/ OnClose(c)
       \/ ConnectionLost(c)
  \/ CloseCalled

Spec == Init /\ [][Next]_vars

(***************************************************************************)
(* The Go runtime schedules every runnable goroutine and the event loop    *)
(* every callback; a timer fires; a frame on a connection that holds       *)
(* arrives.  Nothing obliges anybody to append an event, the daemon to     *)
(* restart, or the app to call connect or close.                           *)
(***************************************************************************)
Fairness ==
  /\ \A w \in Writer : WF_vars(WriterStep(w) /\ UNCHANGED clientVars)
  /\ \A c \in Conn :
       /\ WF_vars(ServeStep(c) /\ UNCHANGED clientVars)
       /\ WF_vars(WriteStep(c) /\ UNCHANGED clientVars)
       /\ WF_vars(OnOpen(c) \/ OnSnapshot(c) \/ OnEvent(c) \/ OnGap(c) \/ OnClose(c))
  /\ WF_vars(\E c \in Conn : ReconnectTimer(c))

FairSpec == Spec /\ Fairness

-----------------------------------------------------------------------------
(* Properties *)

Frame == [type : {"snapshot", "event"}, session : 1 .. MaxSession, seq : 0 .. MaxLog]

\* The type of every variable.
TypeOK ==
  /\ logs \in Seq(Seq(Event)) /\ Len(logs) \in 1 .. MaxSession
  /\ writer \in [Writer -> [pc : {"idle", "copy", "send"}, seq : 0 .. MaxLog,
                            to : SUBSET Conn]]
  /\ hub \in [Conn -> {"none", "hello", "snapped", "fetched", "enqueueing", "serving"}]
  /\ since \in [Conn -> 0 .. MaxLog]
  /\ rest \in [Conn -> Seq(Frame)]
  /\ queue \in [Conn -> Seq(Frame)]
  /\ overflow \in [Conn -> BOOLEAN]
  /\ link \in [Conn -> {"up", "shut", "down"}]
  /\ wire \in [Conn -> Seq(Frame)]
  /\ missed \in [Conn -> SUBSET (1 .. MaxLog)]
  /\ client \in
       [session : [id : 0 .. MaxSession, lastSeq : 0 .. MaxLog, tipSeq : 0 .. MaxLog,
                   view : View, transcript : Seq(Event)],
        phase : {"idle", "connecting", "reconnecting", "syncing", "live"},
        gapSeq : 0 .. MaxLog, gapCount : 0 .. 2, fullResync : BOOLEAN,
        closedByUser : BOOLEAN, timer : BOOLEAN, socket : Conn \cup {None}]
  /\ sock \in [Conn -> {"free", "dialing", "open", "closing"}]
  /\ drops \in 0 .. MaxDrops

\* What the screen shows is at all times a prefix of the log of one session,
\* whatever the writers do to the order of events, and however often the
\* connection breaks, overflows or is replaced: the client implements
\* ReplicatedLog.
ScreenLog == INSTANCE ReplicatedLog
  WITH copyOf <- client.session.id, copy <- client.session.transcript
Implements == ScreenLog!Spec

\* When the client says it is live, the pending requests, the status and the
\* mode it shows are those of the log up to the last event it has: the
\* snapshot of a later moment and the catch-up replayed over it agree.
LiveViewIsLog ==
  LET s == client.session
  IN  client.phase = "live" => s.view = Snapshot(SubSeq(logs[s.id], 1, s.lastSeq))

\* The client is live on its connection and nothing is on the way to it.
Settled ==
  /\ \A w \in Writer : writer[w].pc = "idle"
  /\ \A c \in Conn : wire[c] = <<>> /\ queue[c] = <<>> /\ ~overflow[c]
  /\ client.phase = "live"
  /\ client.socket # None
  /\ hub[client.socket] = "serving"
  /\ link[client.socket] = "up"

\* A settled client lacks events only if the next one was broadcast between
\* GetEventsSince and the registration of its connection, or if its hello
\* asked for the events after a seq of an earlier session: queues that
\* overflow, broadcasts out of order and broken connections lose nothing.
OnlyTheWindowLosesEvents ==
  Settled => \/ client.session.lastSeq = Len(Log)
             \/ client.session.lastSeq + 1 \in missed[client.socket]
             \/ since[client.socket] > client.session.lastSeq

\* PHASE2.md: "snapshot + catch-up, no gaps/duplicates".  A settled client
\* would have every event of the log.
CaughtUp == Settled => client.session.lastSeq = Len(Log)

\* A client that has been told to connect and not to close gets live, again
\* and again, through gaps, broken connections and sockets it has replaced.
WantsLive == client.phase # "idle" /\ ~client.closedByUser
GetsLive == WantsLive ~> client.phase = "live" \/ client.closedByUser
=============================================================================
