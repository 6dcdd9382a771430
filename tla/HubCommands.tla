---------------------------- MODULE HubCommands ----------------------------
(***************************************************************************)
(* The command side of the hub (internal/hub/hub.go): what happens between *)
(* a command frame arriving on a connection and the agent being told, and  *)
(* between the agent emitting an event and every connection being sent it. *)
(*                                                                         *)
(* One goroutine per connection runs handleCommand, one goroutine runs     *)
(* ingestAdapterEvents.  They share the log (a transaction per append),    *)
(* and h.idempotency, h.pending and h.pendingQuestions (under h.mu).  A    *)
(* handler is split exactly where another goroutine can get in between: at *)
(* the end of each critical section, of each transaction, of the reply, of *)
(* the broadcast and of the call into the adapter.                         *)
(*                                                                         *)
(* A connection is a slot: a device may have several (its old connection,  *)
(* not yet noticed dead, and the one it reconnected on), and a client      *)
(* resends whatever it has no answer for, so any command may arrive again, *)
(* on any connection, at any time.                                         *)
(***************************************************************************)
EXTENDS SessionLog, FiniteSets

CONSTANTS
  Conn,          \* connections served at the same time
  DeviceOf,      \* the authenticated device of each connection
  Outbox,        \* the commands the client of each device sends
  EventBuffer,   \* capacity of the adapter's event channel
  StoreMayFail,  \* whether AppendEvent may return an error
  AgentMayFail,  \* whether adapter.Command may return an error
  AnswersUnseen, \* whether a client may answer an id the log does not hold
  MaxLog         \* bound: the agent emits output only while fewer events exist

AnswerKind == {"answer_permission", "answer_question"}
DirectKind == {"send_prompt", "set_mode", "interrupt"}

\* Commands the hub answers with an error without touching the log: no id, a
\* body that does not decode (or an empty mode), a kind it does not know.
RejectedKind == {"no_id", "malformed", "unsupported"}

CommandShape ==
  [key : Key, kind : AnswerKind \cup DirectKind \cup RejectedKind,
   ref : Ref \cup {None}, val : Value \cup {None}]

ASSUME ConnAssumption == DeviceOf \in [Conn -> Device]

Command == UNION {Outbox[d] : d \in Device}

\* A client draws a fresh uuid as both id and idempotency key of each command,
\* so a key determines its command (client.ts, sendCommand).
ASSUME CommandAssumption ==
  /\ Outbox \in [Device -> SUBSET CommandShape]
  /\ \A m \in Command :
       /\ m.kind = "answer_permission" => m.ref \in Permission
       /\ m.kind = "answer_question" => m.ref \in Question
       /\ m.kind \notin AnswerKind => m.ref = None
       /\ m.kind = "send_prompt" => m.val = None
  /\ \A m, n \in Command : m.key = n.key => m = n

ASSUME BoundAssumption ==
  /\ EventBuffer \in Nat \ {0}
  /\ MaxLog \in Nat
  /\ StoreMayFail \in BOOLEAN
  /\ AgentMayFail \in BOOLEAN
  /\ AnswersUnseen \in BOOLEAN

VARIABLES
  log,          \* the session's events in the store
  pending,      \* ids in h.pending and h.pendingQuestions
  idempotency,  \* h.idempotency: device:key pairs seen
  pc,           \* per connection: where its handleCommand is
  cmd,          \* per connection: the command being handled
  seq,          \* per connection: seq of the event it appended
  ingest,       \* where ingestAdapterEvents is, and the seq it appended
  events,       \* the adapter's event channel
  asked,        \* history: ids the agent has asked about
  waiting,      \* ids the agent waits for an answer to
  inbox,        \* history: origins of the commands handed to the agent, in order
  replies,      \* history: acks and errors put on connections' queues
  published     \* history: seqs broadcast has sent

vars == <<log, pending, idempotency, pc, cmd, seq, ingest, events, asked,
          waiting, inbox, replies, published>>

OriginOf(c) == <<DeviceOf[c], cmd[c].key>>

\* The kind of event each command appends.
ResultKind ==
  [send_prompt |-> "user_prompt", answer_permission |-> "permission_resolved",
   answer_question |-> "question_resolved", set_mode |-> "mode_changed",
   interrupt |-> "status_change"]

\* The event a command appends; an interrupt reports the agent idle.
EventOf(c) ==
  [kind   |-> ResultKind[cmd[c].kind],
   ref    |-> cmd[c].ref,
   val    |-> IF cmd[c].kind = "interrupt" THEN "idle" ELSE cmd[c].val,
   origin |-> OriginOf(c)]

Reply(c, key, code, n) ==
  replies' = replies \cup
    {[device |-> DeviceOf[c], key |-> key, code |-> code, seq |-> n]}

\* The handler returns to the read loop.
Finish(c) ==
  /\ pc' = [pc EXCEPT ![c] = "idle"]
  /\ cmd' = [cmd EXCEPT ![c] = None]
  /\ seq' = [seq EXCEPT ![c] = 0]

Goto(c, label) ==
  /\ pc' = [pc EXCEPT ![c] = label]
  /\ UNCHANGED <<cmd, seq>>

-----------------------------------------------------------------------------
(* handleCommand *)

\* A command without an id: an error without a command id, nothing recorded.
RejectNoId(c, m) ==
  /\ pc[c] = "idle"
  /\ m.kind = "no_id"
  /\ Reply(c, None, "bad_request", 0)
  /\ UNCHANGED <<log, pending, idempotency, pc, cmd, seq, ingest, events,
                 asked, waiting, inbox, published>>

\* A key seen before from this device: acked without a seq, whatever became
\* of the first attempt.
AckReplay(c, m) ==
  /\ pc[c] = "idle"
  /\ m.kind # "no_id"
  /\ <<DeviceOf[c], m.key>> \in idempotency
  /\ Reply(c, m.key, "ack", 0)
  /\ UNCHANGED <<log, pending, idempotency, pc, cmd, seq, ingest, events,
                 asked, waiting, inbox, published>>

\* Mutant of Accept: the key is looked up but never recorded.
AcceptNotRecorded(c, m) ==
  /\ pc[c] = "idle"
  /\ m.kind \in AnswerKind \cup DirectKind
  /\ pc' = [pc EXCEPT ![c] = IF m.kind \in AnswerKind THEN "claim" ELSE "append"]
  /\ cmd' = [cmd EXCEPT ![c] = m]
  /\ UNCHANGED <<log, pending, idempotency, seq, ingest, events, asked,
                 waiting, inbox, replies, published>>

\* A fresh key is recorded before anything is done for it.
Accept(c, m) ==
  /\ pc[c] = "idle"
  /\ m.kind # "no_id"
  /\ <<DeviceOf[c], m.key>> \notin idempotency
  /\ idempotency' = idempotency \cup {<<DeviceOf[c], m.key>>}
  /\ \/ /\ m.kind \in RejectedKind
        /\ Reply(c, m.key,
                 IF m.kind = "malformed" THEN "bad_request"
                 ELSE "unsupported_command", 0)
        /\ UNCHANGED <<pc, cmd, seq>>
     \/ /\ m.kind \in AnswerKind \cup DirectKind
        /\ pc' = [pc EXCEPT ![c] =
                    IF m.kind \in AnswerKind THEN "claim" ELSE "append"]
        /\ cmd' = [cmd EXCEPT ![c] = m]
        /\ UNCHANGED <<seq, replies>>
  /\ UNCHANGED <<log, pending, ingest, events, asked, waiting, inbox,
                 published>>

\* Mutants of Claim: the request is not deleted; the lookup is not checked;
\* the return after the error is missing.
ClaimKeepsPending(c) ==
  /\ pc[c] = "claim"
  /\ cmd[c].ref \in pending
  /\ Goto(c, "append")
  /\ UNCHANGED <<log, pending, idempotency, ingest, events, asked, waiting,
                 inbox, replies, published>>

ClaimUnchecked(c) ==
  /\ pc[c] = "claim"
  /\ pending' = pending \ {cmd[c].ref}
  /\ Goto(c, "append")
  /\ UNCHANGED <<log, idempotency, ingest, events, asked, waiting, inbox,
                 replies, published>>

ClaimMissingReturn(c) ==
  /\ pc[c] = "claim"
  /\ pending' = pending \ {cmd[c].ref}
  /\ Goto(c, IF cmd[c].ref \in pending THEN "append" ELSE "agent")
  /\ UNCHANGED <<log, idempotency, ingest, events, asked, waiting, inbox,
                 replies, published>>

\* An answer takes its request out of the pending map: whoever does it first
\* goes on to append, everybody else is told it is already resolved.
Claim(c) ==
  /\ pc[c] = "claim"
  /\ \/ /\ cmd[c].ref \in pending
        /\ pending' = pending \ {cmd[c].ref}
        /\ Goto(c, "append")
        /\ UNCHANGED replies
     \/ /\ cmd[c].ref \notin pending
        /\ Reply(c, cmd[c].key, "already_resolved", 0)
        /\ Finish(c)
        /\ UNCHANGED pending
  /\ UNCHANGED <<log, idempotency, ingest, events, asked, waiting, inbox,
                 published>>

\* Mutant of AppendEvent: the seq is read from the session after the insert
\* and counted once more.
AppendEventOffByOne(c) ==
  /\ pc[c] = "append"
  /\ log' = Append(log, EventOf(c))
  /\ pc' = [pc EXCEPT ![c] = "ack"]
  /\ seq' = [seq EXCEPT ![c] = Len(log) + 2]
  /\ UNCHANGED <<pending, idempotency, cmd, ingest, events, asked, waiting,
                 inbox, replies, published>>

AppendEvent(c) ==
  /\ pc[c] = "append"
  /\ log' = Append(log, EventOf(c))
  /\ pc' = [pc EXCEPT ![c] = "ack"]
  /\ seq' = [seq EXCEPT ![c] = Len(log) + 1]
  /\ UNCHANGED <<pending, idempotency, cmd, ingest, events, asked, waiting,
                 inbox, replies, published>>

\* Mutant of AppendFails: the return after the error is missing.
AppendFailsMissingReturn(c) ==
  /\ StoreMayFail
  /\ pc[c] = "append"
  /\ Reply(c, cmd[c].key, "server_error", 0)
  /\ Goto(c, "agent")
  /\ UNCHANGED <<log, pending, idempotency, ingest, events, asked, waiting,
                 inbox, published>>

\* The transaction fails: the error is reported, the key and the claimed
\* request stay consumed.
AppendFails(c) ==
  /\ StoreMayFail
  /\ pc[c] = "append"
  /\ Reply(c, cmd[c].key, "server_error", 0)
  /\ Finish(c)
  /\ UNCHANGED <<log, pending, idempotency, ingest, events, asked, waiting,
                 inbox, published>>

\* Mutant of ClientAck: the ack carries the session's last seq, read again.
ClientAckTip(c) ==
  /\ pc[c] = "ack"
  /\ Reply(c, cmd[c].key, "ack", Len(log))
  /\ Goto(c, "broadcast")
  /\ UNCHANGED <<log, pending, idempotency, ingest, events, asked, waiting,
                 inbox, published>>

ClientAck(c) ==
  /\ pc[c] = "ack"
  /\ Reply(c, cmd[c].key, "ack", seq[c])
  /\ Goto(c, "broadcast")
  /\ UNCHANGED <<log, pending, idempotency, ingest, events, asked, waiting,
                 inbox, published>>

\* Mutant of Broadcast: the handler returns without calling the adapter.
BroadcastAndReturn(c) ==
  /\ pc[c] = "broadcast"
  /\ published' = published \cup {seq[c]}
  /\ Finish(c)
  /\ UNCHANGED <<log, pending, idempotency, ingest, events, asked, waiting,
                 inbox, replies>>

Broadcast(c) ==
  /\ pc[c] = "broadcast"
  /\ published' = published \cup {seq[c]}
  /\ Goto(c, "agent")
  /\ UNCHANGED <<log, pending, idempotency, ingest, events, asked, waiting,
                 inbox, replies>>

\* adapter.Command succeeds: the agent has the command, and an answer ends
\* its wait.
TellAgent(c) ==
  /\ pc[c] = "agent"
  /\ inbox' = Append(inbox, OriginOf(c))
  /\ waiting' = waiting \ {cmd[c].ref}
  /\ Finish(c)
  /\ UNCHANGED <<log, pending, idempotency, ingest, events, asked, replies,
                 published>>

\* adapter.Command fails: a second reply, after the ack; the event stands.
AgentRefuses(c) ==
  /\ AgentMayFail
  /\ pc[c] = "agent"
  /\ Reply(c, cmd[c].key, "agent_error", 0)
  /\ Finish(c)
  /\ UNCHANGED <<log, pending, idempotency, ingest, events, asked, waiting,
                 inbox, published>>

-----------------------------------------------------------------------------
(* the adapter's event channel and ingestAdapterEvents *)

AgentEvent(kind, r) == [kind |-> kind, ref |-> r, val |-> None, origin |-> None]

\* emit: the event is dropped when the channel is full.
Emit(ev) ==
  events' = IF Len(events) < EventBuffer THEN Append(events, ev) ELSE events

\* The agent asks and waits.  It never reuses an id.
AgentAsks(r) ==
  /\ r \notin asked
  /\ asked' = asked \cup {r}
  /\ waiting' = waiting \cup {r}
  /\ Emit(AgentEvent(AskKind(r), r))
  /\ UNCHANGED <<log, pending, idempotency, pc, cmd, seq, ingest, inbox,
                 replies, published>>

AgentOutput ==
  /\ Len(log) + Len(events) < MaxLog
  /\ Emit(AgentEvent("output", None))
  /\ UNCHANGED <<log, pending, idempotency, pc, cmd, seq, ingest, asked,
                 waiting, inbox, replies, published>>

IngestAppend ==
  /\ ingest.pc = "idle"
  /\ events # <<>>
  /\ log' = Append(log, Head(events))
  /\ events' = Tail(events)
  /\ ingest' = [pc |-> IF Head(events).ref = None THEN "broadcast"
                                                  ELSE "register",
                seq |-> Len(log) + 1]
  /\ UNCHANGED <<pending, idempotency, pc, cmd, seq, asked, waiting, inbox,
                 replies, published>>

\* The transaction fails: the event is logged as an error and lost.
IngestFails ==
  /\ StoreMayFail
  /\ ingest.pc = "idle"
  /\ events # <<>>
  /\ events' = Tail(events)
  /\ UNCHANGED <<log, pending, idempotency, pc, cmd, seq, ingest, asked,
                 waiting, inbox, replies, published>>

\* Mutant of IngestRegister: the broadcast is skipped.
IngestRegisterAndContinue ==
  /\ ingest.pc = "register"
  /\ pending' = pending \cup {log[ingest.seq].ref}
  /\ ingest' = [pc |-> "idle", seq |-> 0]
  /\ UNCHANGED <<log, idempotency, pc, cmd, seq, events, asked, waiting,
                 inbox, replies, published>>

\* Only now can the request that is already in the log be answered.
IngestRegister ==
  /\ ingest.pc = "register"
  /\ pending' = pending \cup {log[ingest.seq].ref}
  /\ ingest' = [ingest EXCEPT !.pc = "broadcast"]
  /\ UNCHANGED <<log, idempotency, pc, cmd, seq, events, asked, waiting,
                 inbox, replies, published>>

IngestBroadcast ==
  /\ ingest.pc = "broadcast"
  /\ published' = published \cup {ingest.seq}
  /\ ingest' = [pc |-> "idle", seq |-> 0]
  /\ UNCHANGED <<log, pending, idempotency, pc, cmd, seq, events, asked,
                 waiting, inbox, replies>>

-----------------------------------------------------------------------------
Init ==
  /\ log = <<>>
  /\ pending = {}
  /\ idempotency = {}
  /\ pc = [c \in Conn |-> "idle"]
  /\ cmd = [c \in Conn |-> None]
  /\ seq = [c \in Conn |-> 0]
  /\ ingest = [pc |-> "idle", seq |-> 0]
  /\ events = <<>>
  /\ asked = {}
  /\ waiting = {}
  /\ inbox = <<>>
  /\ replies = {}
  /\ published = {}

\* A well-behaved client learns of an id from the log; the hub does not rely
\* on it.
ClientMaySend(m) == AnswersUnseen \/ m.ref = None \/ Requested(log, m.ref)

Receive(c, m) ==
  /\ ClientMaySend(m)
  /\ RejectNoId(c, m) \/ AckReplay(c, m) \/ Accept(c, m)

\* What a handler that has accepted a command does next.
Handle(c) ==
  \/ Claim(c)
  \/ AppendEvent(c) \/ AppendFails(c)
  \/ ClientAck(c)
  \/ Broadcast(c)
  \/ TellAgent(c) \/ AgentRefuses(c)

Ingest == IngestAppend \/ IngestFails \/ IngestRegister \/ IngestBroadcast

Next ==
  \/ \E c \in Conn : \E m \in Outbox[DeviceOf[c]] : Receive(c, m)
  \/ \E c \in Conn : Handle(c)
  \/ \E r \in Ref : AgentAsks(r)
  \/ AgentOutput
  \/ Ingest

Spec == Init /\ [][Next]_vars

(***************************************************************************)
(* The Go runtime schedules every runnable goroutine, SQLite and the       *)
(* adapter return: a handler that has accepted a command goes on, and the  *)
(* ingest loop empties the channel.  Nothing obliges a client to send or   *)
(* the agent to ask.                                                       *)
(***************************************************************************)
Fairness == (\A c \in Conn : WF_vars(Handle(c))) /\ WF_vars(Ingest)
FairSpec == Spec /\ Fairness

-----------------------------------------------------------------------------
(* Properties *)

HandlerPc == {"idle", "claim", "append", "ack", "broadcast", "agent"}
IngestPc == {"idle", "register", "broadcast"}
ReplyCode == {"ack", "bad_request", "unsupported_command", "already_resolved",
              "server_error", "agent_error"}

\* The type of every variable; a seq a handler holds is one the store gave out.
TypeOK ==
  /\ log \in Seq(Event)
  /\ pending \in SUBSET Ref
  /\ idempotency \in SUBSET Origin
  /\ pc \in [Conn -> HandlerPc]
  /\ cmd \in [Conn -> Command \cup {None}]
  /\ seq \in [Conn -> 0 .. Len(log)]
  /\ ingest \in [pc : IngestPc, seq : 0 .. Len(log)]
  /\ events \in Seq(Event)
  /\ asked \in SUBSET Ref
  /\ waiting \in SUBSET Ref
  /\ inbox \in Seq(Origin)
  /\ replies \in SUBSET [device : Device, key : Key \cup {None},
                         code : ReplyCode, seq : 0 .. Len(log)]
  /\ published \in SUBSET (1 .. Len(log))

Logged(o) == \E i \in DOMAIN log : log[i].origin = o
Told(o) == \E i \in DOMAIN inbox : inbox[i] = o

\* A handler holds request r: it claimed r and has not appended its answer.
Holds(c, r) ==
  pc[c] = "append" /\ cmd[c].kind \in AnswerKind /\ cmd[c].ref = r

\* The ingest loop has logged request r and not yet put it in the map.
Registering(r) == ingest.pc = "register" /\ log[ingest.seq].ref = r

\* First-write-wins (hub.go answer_permission and answer_question): however
\* many devices answer a request at once, the log resolves it at most once.
FirstAnswerWins ==
  \A r \in Ref : \A i, j \in DOMAIN log :
    IsResolution(log[i], r) /\ IsResolution(log[j], r) => i = j

\* A resolution is only logged for a request logged before it, even when a
\* client answers an id the hub has never heard of.
AnswersFollowRequests ==
  \A r \in Ref : \A j \in DOMAIN log :
    IsResolution(log[j], r) => \E i \in 1 .. (j - 1) : IsAsk(log[i], r)

\* A command resent on the same or another connection of its device, while
\* the first attempt runs or after it, has at most one event in the log and
\* reaches the agent at most once, and only after its event is in the log.
ExactlyOnce ==
  /\ \A i, j \in DOMAIN log :
       log[i].origin = log[j].origin /\ log[i].origin # None => i = j
  /\ \A i, j \in DOMAIN inbox : inbox[i] = inbox[j] => i = j
  /\ \A i \in DOMAIN inbox : Logged(inbox[i])

\* The in-memory maps against the log: a request is pending, or claimed by a
\* handler, or about to be registered, in one way and by one handler only, and
\* then the log has it unresolved; without store failures no unresolved
\* request is anywhere else.
PendingMatchesLog ==
  LET claimed == {r \in Ref : \E c \in Conn : Holds(c, r)}
      registering == {r \in Ref : Registering(r)}
      known == pending \cup claimed \cup registering
  IN  /\ known \subseteq Unresolved(log)
      /\ ~StoreMayFail => Unresolved(log) \subseteq known
      /\ pending \cap claimed = {}
      /\ registering \cap (pending \cup claimed) = {}
      /\ \A c, d \in Conn, r \in Ref : Holds(c, r) /\ Holds(d, r) => c = d

\* An ack that carries a seq names the event of the very command it
\* acknowledges, whatever other handlers appended before it was sent.
AckNamesItsEvent ==
  \A a \in replies :
    a.code = "ack" /\ a.seq > 0 => log[a.seq].origin = <<a.device, a.key>>

\* A command that was refused has no effect, then or later, on whatever
\* connection it is resent: no event, nothing told to the agent.  One the agent
\* refused is in the log and was not told to it.  (An error for a command
\* without an id is about no key.)
RefusedMeansNoEffect ==
  \A a \in replies : a.key # None =>
    /\ a.code \notin {"ack", "agent_error"} =>
         ~Logged(<<a.device, a.key>>) /\ ~Told(<<a.device, a.key>>)
    /\ a.code = "agent_error" =>
         Logged(<<a.device, a.key>>) /\ ~Told(<<a.device, a.key>>)

\* The agent is never released by an answer the log does not show: what every
\* screen displays as the decision is the decision the agent got.
AgentReleasedByLog == \A r \in asked \ waiting : Resolved(log, r)

\* Every event that is appended is broadcast in the end.
EveryEventBroadcast ==
  \A n \in 1 .. MaxLog + Cardinality(Ref) + Cardinality(Command) :
    Len(log) >= n ~> n \in published

\* Once a request is resolved in the log the agent gets the answer.
ResolvedReachesAgent ==
  ~AgentMayFail => \A r \in Ref : Resolved(log, r) ~> r \notin waiting
=============================================================================
