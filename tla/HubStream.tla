----------------------------- MODULE HubStream -----------------------------
(***************************************************************************)
(* The event side of the hub (internal/hub/hub.go): the goroutines that    *)
(* append events and broadcast them, and serveAuthenticated with its       *)
(* writeLoop, which brings one connection up to date and keeps it so.      *)
(*                                                                         *)
(* HubCommands gives each handler in full; here a writer is any goroutine  *)
(* that appends an event and then broadcasts it, and what matters is that  *)
(* the two are separate steps, that a broadcast first copies the set of    *)
(* connections and then enqueues to one after the other, and that a        *)
(* connection reads the snapshot, reads the events and registers itself in *)
(* three steps, all interleaved with everything else.                      *)
(***************************************************************************)
EXTENDS SessionLog

CONSTANTS
  Conn,          \* connections that can exist at the same time
  Writer,        \* goroutines that append and broadcast
  WriterEvents,  \* the events each writer may append
  QueueCap,      \* clientQueueHighWater
  MaxLog,        \* bound: events per session
  MaxSession     \* bound: sessions, that is daemon starts

ASSUME WriterAssumption == WriterEvents \in [Writer -> SUBSET ProperEvent]
ASSUME StreamBounds ==
  QueueCap \in Nat \ {0} /\ MaxLog \in Nat /\ MaxSession \in Nat \ {0}

VARIABLES
  logs,      \* the log of each session so far; the last is the current one
  writer,    \* per writer: where it is, the seq it appended, who is left to send to
  hub,       \* per connection: where serveAuthenticated is
  since,     \* per connection: lastSeq of its hello
  rest,      \* per connection: frames it has still to put on its queue
  queue,     \* per connection: client.send
  overflow,  \* per connection: client.overflow
  link,      \* per connection: "up", "shut" (closed by the hub after what it
             \* wrote), "down" (nothing more arrives)
  wire,      \* per connection: frames written and not yet received
  missed     \* history, per connection: seqs broadcast between its reading the
             \* events and its registration

hubVars == <<logs, writer, hub, since, rest, queue, overflow, missed>>

Session == Len(logs)
Log == logs[Session]

SnapshotFrame(s, tip) == [type |-> "snapshot", session |-> s, seq |-> tip]
EventFrame(s, n) == [type |-> "event", session |-> s, seq |-> n]

\* h.mu is held from the registration until the catch-up is on the queue.
MutexFree == \A c \in Conn : hub[c] # "enqueueing"

IdleWriter == [pc |-> "idle", seq |-> 0, to |-> {}]

-----------------------------------------------------------------------------
(* Writers: handleCommand and ingestAdapterEvents *)

\* A request is asked once, and only an open one is resolved (HubCommands).
MayAppend(ev) ==
  \A r \in Ref : /\ IsAsk(ev, r) => ~Requested(Log, r)
                 /\ IsResolution(ev, r) => r \in Unresolved(Log)

AppendEvent(w, ev) ==
  /\ writer[w].pc = "idle"
  /\ Len(Log) < MaxLog
  /\ MayAppend(ev)
  /\ logs' = [logs EXCEPT ![Session] = Append(@, ev)]
  /\ writer' = [writer EXCEPT ![w] = [@ EXCEPT !.pc = "copy", !.seq = Len(Log) + 1]]
  /\ UNCHANGED <<hub, since, rest, queue, overflow, link, wire, missed>>

\* broadcast, under the read lock: the connections registered at this moment.
CopyClients(w) ==
  /\ writer[w].pc = "copy"
  /\ MutexFree
  /\ LET registered == {c \in Conn : hub[c] = "serving"}
     IN  writer' = [writer EXCEPT ![w] =
                      IF registered = {} THEN IdleWriter
                      ELSE [@ EXCEPT !.pc = "send", !.to = registered]]
  /\ missed' = [c \in Conn |-> IF hub[c] = "fetched"
                               THEN missed[c] \cup {writer[w].seq} ELSE missed[c]]
  /\ UNCHANGED <<logs, hub, since, rest, queue, overflow, link, wire>>

\* Mutant of Enqueue: a frame that does not fit is only dropped.
EnqueueOrDrop(c, frame) ==
  IF link[c] = "up" /\ Len(queue[c]) < QueueCap
  THEN /\ queue' = [queue EXCEPT ![c] = Append(@, frame)]
       /\ UNCHANGED overflow
  ELSE UNCHANGED <<queue, overflow>>

\* enqueueRaw: a frame that does not fit is dropped and the connection flagged.
\* A queue that nobody will write out any more is not kept.
Enqueue(c, frame) ==
  IF link[c] # "up" THEN UNCHANGED <<queue, overflow>>
  ELSE IF Len(queue[c]) < QueueCap
       THEN /\ queue' = [queue EXCEPT ![c] = Append(@, frame)]
            /\ UNCHANGED overflow
       ELSE /\ overflow' = [overflow EXCEPT ![c] = TRUE]
            /\ UNCHANGED queue

\* The writer has dealt with connection c.
Sent(wr, c) ==
  IF wr.to \subseteq {c} /\ wr.pc = "send" THEN IdleWriter
  ELSE [wr EXCEPT !.to = @ \ {c}]

EnqueueTo(w, c) ==
  /\ writer[w].pc = "send"
  /\ c \in writer[w].to
  /\ Enqueue(c, EventFrame(Session, writer[w].seq))
  /\ writer' = [writer EXCEPT ![w] = Sent(@, c)]
  /\ UNCHANGED <<logs, hub, since, rest, link, wire, missed>>

-----------------------------------------------------------------------------
(* serveAuthenticated *)

\* The authenticated hello of a connection, with the seq the client asks from.
ReadHello(c, lastSeq) ==
  /\ hub[c] = "none"
  /\ hub' = [hub EXCEPT ![c] = "hello"]
  /\ since' = [since EXCEPT ![c] = lastSeq]
  /\ UNCHANGED <<logs, writer, rest, queue, overflow, link, wire, missed>>

GetSnapshot(c) ==
  /\ hub[c] = "hello"
  /\ hub' = [hub EXCEPT ![c] = "snapped"]
  /\ rest' = [rest EXCEPT ![c] = <<SnapshotFrame(Session, Len(Log))>>]
  /\ UNCHANGED <<logs, writer, since, queue, overflow, link, wire, missed>>

GetEventsSince(c) ==
  /\ hub[c] = "snapped"
  /\ hub' = [hub EXCEPT ![c] = "fetched"]
  /\ rest' = [rest EXCEPT ![c] = @ \o
       [i \in 1 .. Len(SubSeq(Log, since[c] + 1, Len(Log))) |->
          EventFrame(Session, since[c] + i)]]
  /\ UNCHANGED <<logs, writer, since, queue, overflow, link, wire, missed>>

\* Lock h.mu and add the connection to h.clients.
Register(c) ==
  /\ hub[c] = "fetched"
  /\ MutexFree
  /\ hub' = [hub EXCEPT ![c] = "enqueueing"]
  /\ UNCHANGED <<logs, writer, since, rest, queue, overflow, link, wire, missed>>

\* Put the snapshot and the catch-up on the queue, then unlock.
EnqueueRest(c) ==
  /\ hub[c] = "enqueueing"
  /\ Enqueue(c, Head(rest[c]))
  /\ rest' = [rest EXCEPT ![c] = Tail(@)]
  /\ hub' = [hub EXCEPT ![c] = IF Len(rest[c]) = 1 THEN "serving" ELSE @]
  /\ UNCHANGED <<logs, writer, since, link, wire, missed>>

\* writeLoop, taking from the queue or from the overflow flag: with both ready
\* Go's select takes either.
WriteFrame(c) ==
  /\ link[c] = "up"
  /\ queue[c] # <<>>
  /\ wire' = [wire EXCEPT ![c] = Append(@, Head(queue[c]))]
  /\ queue' = [queue EXCEPT ![c] = Tail(@)]
  /\ UNCHANGED <<logs, writer, hub, since, rest, overflow, link, missed>>

CloseOverflown(c) ==
  /\ link[c] = "up"
  /\ overflow[c]
  /\ link' = [link EXCEPT ![c] = "shut"]
  /\ queue' = [queue EXCEPT ![c] = <<>>]
  /\ overflow' = [overflow EXCEPT ![c] = FALSE]
  /\ UNCHANGED <<logs, writer, hub, since, rest, wire, missed>>

\* conn.Read fails on a connection that is gone: the deferred calls remove it
\* from h.clients, and what is still sent to it goes nowhere.
Unregister(c) ==
  /\ hub[c] = "serving"
  /\ link[c] # "up"
  /\ MutexFree
  /\ hub' = [hub EXCEPT ![c] = "none"]
  /\ since' = [since EXCEPT ![c] = 0]
  /\ missed' = [missed EXCEPT ![c] = {}]
  /\ writer' = [w \in Writer |-> IF writer[w].pc = "send" THEN Sent(writer[w], c)
                                                          ELSE writer[w]]
  /\ UNCHANGED <<logs, rest, queue, overflow, link, wire>>

\* The daemon dies and is started again, with a new session; what it had
\* written to the sockets can still arrive.
Restart ==
  /\ Session < MaxSession
  /\ logs' = Append(logs, <<>>)
  /\ writer' = [w \in Writer |-> IdleWriter]
  /\ hub' = [c \in Conn |-> "none"]
  /\ since' = [c \in Conn |-> 0]
  /\ rest' = [c \in Conn |-> <<>>]
  /\ queue' = [c \in Conn |-> <<>>]
  /\ overflow' = [c \in Conn |-> FALSE]
  /\ missed' = [c \in Conn |-> {}]
  /\ link' = [c \in Conn |-> IF hub[c] # "none" /\ link[c] = "up" THEN "shut" ELSE link[c]]
  /\ UNCHANGED wire

HubInit ==
  /\ logs = <<<<>>>>
  /\ writer = [w \in Writer |-> IdleWriter]
  /\ hub = [c \in Conn |-> "none"]
  /\ since = [c \in Conn |-> 0]
  /\ rest = [c \in Conn |-> <<>>]
  /\ queue = [c \in Conn |-> <<>>]
  /\ overflow = [c \in Conn |-> FALSE]
  /\ link = [c \in Conn |-> "down"]
  /\ wire = [c \in Conn |-> <<>>]
  /\ missed = [c \in Conn |-> {}]

\* Steps of the goroutines of the daemon that go on by themselves.
WriterStep(w) == CopyClients(w) \/ \E c \in Conn : EnqueueTo(w, c)
ServeStep(c) ==
  \/ GetSnapshot(c) \/ GetEventsSince(c) \/ Register(c) \/ EnqueueRest(c)
  \/ Unregister(c)
WriteStep(c) == WriteFrame(c) \/ CloseOverflown(c)
=============================================================================
