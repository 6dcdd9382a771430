------------------------- MODULE HubCommandsProofs -------------------------
(***************************************************************************)
(* Theorems about HubCommands, for any connections, devices, commands,     *)
(* requests and bounds, with or without store and agent failures.          *)
(***************************************************************************)
EXTENDS HubCommands, SequenceLemmas

-----------------------------------------------------------------------------
(* Type correctness *)

\* A connection is busy exactly when it has a command, one the hub executes;
\* after the append it holds the seq of its own event.
HandlerOK(c) ==
  /\ pc[c] = "idle" => cmd[c] = None
  /\ pc[c] # "idle" =>
       cmd[c] \in Command /\ cmd[c].kind \in AnswerKind \cup DirectKind
  /\ pc[c] = "claim" => cmd[c].kind \in AnswerKind
  /\ pc[c] \in {"ack", "broadcast", "agent"} =>
       seq[c] \in 1 .. Len(log) /\ log[seq[c]] = EventOf(c)

HandlerInv == \A c \in Conn : HandlerOK(c)

\* What the adapter emits: questions and output, caused by no command.
AgentEmits(ev) ==
  /\ ev.origin = None
  /\ \/ ev.kind = "output" /\ ev.ref = None
     \/ ev.ref \in Ref /\ ev.kind = AskKind(ev.ref)

ChannelInv ==
  /\ \A i \in DOMAIN events : AgentEmits(events[i])
  /\ ingest.pc # "idle" => ingest.seq \in 1 .. Len(log)
  /\ ingest.pc = "register" =>
       log[ingest.seq].ref \in Ref /\ AgentEmits(log[ingest.seq])

BaseInv == TypeOK /\ HandlerInv /\ ChannelInv

\* What a command answers is fixed by its kind.
LEMMA CommandType ==
  ASSUME NEW m \in Command
  PROVE  /\ m \in CommandShape
         /\ m.kind = "answer_permission" => m.ref \in Permission
         /\ m.kind = "answer_question" => m.ref \in Question
         /\ m.kind \in AnswerKind => m.ref \in Ref
         /\ m.kind \notin AnswerKind => m.ref = None
BY CommandAssumption DEF Command, CommandShape, AnswerKind, Ref

\* The event a busy handler appends is an event; it resolves a request
\* exactly when the command answers it.
LEMMA EventOfType ==
  ASSUME NEW c \in Conn, cmd[c] \in Command,
         cmd[c].kind \in AnswerKind \cup DirectKind
  PROVE  /\ OriginOf(c) \in Origin
         /\ EventOf(c) \in Event
         /\ EventOf(c).origin = OriginOf(c)
         /\ \A r \in Ref : ~IsAsk(EventOf(c), r)
         /\ \A r \in Ref : IsResolution(EventOf(c), r) <=>
                              cmd[c].kind \in AnswerKind /\ cmd[c].ref = r
<1>1. cmd[c] \in CommandShape
  BY CommandType
<1>2. DeviceOf[c] \in Device
  BY ConnAssumption
<1>3. OriginOf(c) \in Origin
  BY <1>1, <1>2 DEF CommandShape, OriginOf, Origin
<1>4. ResultKind[cmd[c].kind] \in EventKind
  BY DEF ResultKind, EventKind, AnswerKind, DirectKind
<1>5. EventOf(c) \in Event
  BY <1>1, <1>3, <1>4, ValueAssumption DEF CommandShape, EventOf, Event
<1>6. \A r \in Ref : ~IsAsk(EventOf(c), r)
  BY DEF IsAsk, AskKind, EventOf, ResultKind, AnswerKind, DirectKind
<1>7. \A r \in Ref : IsResolution(EventOf(c), r) <=>
                      cmd[c].kind \in AnswerKind /\ cmd[c].ref = r
  BY CommandType, IdAssumption
     DEF IsResolution, ResolvedKind, EventOf, ResultKind, AnswerKind, DirectKind, Ref
<1>. QED
  BY <1>3, <1>5, <1>6, <1>7 DEF EventOf

\* The first layer holds at the start.
LEMMA BaseInit == Init => BaseInv
BY DEF Init, BaseInv, TypeOK, HandlerInv, HandlerOK, ChannelInv, HandlerPc, IngestPc

(***************************************************************************)
(* BaseInv is inductive.  An appended event leaves the earlier ones where  *)
(* they were, so what refers to the log by seq stays true.                 *)
(***************************************************************************)
LEMMA AppendKeepsBase ==
  ASSUME BaseInv, NEW e \in Event, log' = Append(log, e)
  PROVE  /\ log' \in Seq(Event)
         /\ Len(log') = Len(log) + 1
         /\ \A i \in 1 .. Len(log) : log'[i] = log[i]
         /\ log'[Len(log) + 1] = e
         /\ 0 .. Len(log) \subseteq 0 .. Len(log')
         /\ 1 .. Len(log) \subseteq 1 .. Len(log')
BY AppendFacts DEF BaseInv, TypeOK

\* A well-formed reply keeps replies well typed.
LEMMA ReplyType ==
  ASSUME BaseInv, NEW c \in Conn, NEW key \in Key \cup {None},
         NEW code \in ReplyCode, NEW n \in 0 .. Len(log), Reply(c, key, code, n)
  PROVE  replies' \in SUBSET [device : Device, key : Key \cup {None},
                              code : ReplyCode, seq : 0 .. Len(log)]
BY ConnAssumption DEF BaseInv, TypeOK, Reply

\* Emitting an event of the agent keeps the channel well formed.
LEMMA EmitFacts ==
  ASSUME BaseInv, NEW ev \in Event, AgentEmits(ev), Emit(ev)
  PROVE  /\ events' \in Seq(Event)
         /\ \A i \in DOMAIN events' : AgentEmits(events'[i])
BY AppendFacts DEF BaseInv, TypeOK, ChannelInv, Emit

\* A handler that does not move is not disturbed by what others append.
LEMMA HandlerFrame ==
  ASSUME NEW d \in Conn, HandlerOK(d),
         pc'[d] = pc[d], cmd'[d] = cmd[d], seq'[d] = seq[d],
         \A i \in 1 .. Len(log) : i \in 1 .. Len(log') /\ log'[i] = log[i]
  PROVE  HandlerOK(d)'
<1>1. EventOf(d)' = EventOf(d)
  BY DEF EventOf, OriginOf
<1>. QED BY <1>1 DEF HandlerOK

\* The first layer: types, handlers and the channel, action by action.
LEMMA BaseStep == BaseInv /\ [Next]_vars => BaseInv'
<1>. SUFFICES ASSUME BaseInv, [Next]_vars PROVE BaseInv'
  OBVIOUS
<1>. USE DEF BaseInv
<1>0. Len(log) \in Nat
  BY DEF TypeOK
<1>1. ASSUME NEW c \in Conn, NEW m \in Outbox[DeviceOf[c]], Receive(c, m)
      PROVE  BaseInv'
  <2>1. m \in Command /\ DeviceOf[c] \in Device
    BY ConnAssumption DEF Command
  <2>2. m \in CommandShape /\ m.key \in Key
    BY <2>1, CommandType DEF CommandShape
  <2>3. CASE RejectNoId(c, m)
    <3>1. TypeOK'
      <4>1. Reply(c, None, "bad_request", 0)
        BY <2>3 DEF RejectNoId
      <4>2. "bad_request" \in ReplyCode /\ None \in Key \cup {None} /\ 0 \in 0 .. Len(log)
        BY <1>0 DEF ReplyCode
      <4>3. replies' \in SUBSET [device : Device, key : Key \cup {None},
                                 code : ReplyCode, seq : 0 .. Len(log)]
        BY <4>1, <4>2, ReplyType
      <4>. QED BY <2>3, <4>3 DEF RejectNoId, TypeOK
    <3>2. HandlerInv'
      BY <2>3, HandlerFrame DEF RejectNoId, HandlerInv
    <3>. QED BY <2>3, <3>1, <3>2 DEF RejectNoId, ChannelInv
  <2>4. CASE AckReplay(c, m)
    <3>1. TypeOK'
      BY <1>0, <2>2, <2>4, ReplyType DEF AckReplay, TypeOK, ReplyCode
    <3>2. HandlerInv'
      BY <2>4, HandlerFrame DEF AckReplay, HandlerInv
    <3>. QED BY <2>4, <3>1, <3>2 DEF AckReplay, ChannelInv
  <2>5. CASE Accept(c, m)
    <3>1. <<DeviceOf[c], m.key>> \in Origin
      BY <2>1, <2>2 DEF Origin
    <3>2. replies' \in SUBSET [device : Device, key : Key \cup {None},
                               code : ReplyCode, seq : 0 .. Len(log)]
      <4>1. CASE UNCHANGED replies
        BY <4>1 DEF TypeOK
      <4>2. CASE Reply(c, m.key, IF m.kind = "malformed" THEN "bad_request"
                                 ELSE "unsupported_command", 0)
        BY <1>0, <2>2, <4>2, ReplyType DEF ReplyCode
      <4>. QED BY <2>5, <4>1, <4>2 DEF Accept
    <3>3. pc' \in [Conn -> HandlerPc] /\ cmd' \in [Conn -> Command \cup {None}]
      <4>1. pc \in [Conn -> HandlerPc] /\ cmd \in [Conn -> Command \cup {None}]
        BY DEF TypeOK
      <4>2. CASE UNCHANGED <<pc, cmd>>
        BY <4>1, <4>2
      <4>3. ASSUME NEW label \in HandlerPc, pc' = [pc EXCEPT ![c] = label],
                   cmd' = [cmd EXCEPT ![c] = m]
            PROVE  pc' \in [Conn -> HandlerPc] /\ cmd' \in [Conn -> Command \cup {None}]
        BY <2>1, <4>1, <4>3
      <4>. QED BY <2>5, <4>1, <4>2, <4>3 DEF Accept, HandlerPc
    <3>4. TypeOK'
      BY <2>5, <3>1, <3>2, <3>3 DEF Accept, TypeOK
    <3>5. ASSUME NEW d \in Conn PROVE HandlerOK(d)'
      <4>1. HandlerOK(d)
        BY DEF HandlerInv
      <4>2. CASE d = c /\ m.kind \in AnswerKind \cup DirectKind
        <5>1. pc'[c] = (IF m.kind \in AnswerKind THEN "claim" ELSE "append") /\ cmd'[c] = m
          BY <2>5, <4>2 DEF Accept, TypeOK, RejectedKind, AnswerKind, DirectKind
        <5>. QED BY <2>1, <4>2, <5>1 DEF HandlerOK
      <4>3. CASE d # c \/ m.kind \notin AnswerKind \cup DirectKind
        <5>1. pc'[d] = pc[d] /\ cmd'[d] = cmd[d] /\ seq'[d] = seq[d] /\ log' = log
          BY <2>5, <4>3 DEF Accept, TypeOK
        <5>. QED BY <4>1, <5>1, HandlerFrame
      <4>. QED BY <4>2, <4>3
    <3>. QED BY <2>5, <3>4, <3>5 DEF Accept, ChannelInv, HandlerInv
  <2>. QED BY <1>1, <2>3, <2>4, <2>5 DEF Receive
<1>2. ASSUME NEW c \in Conn, Handle(c)
      PROVE  BaseInv'
  <2>0. /\ pc[c] # "idle" => cmd[c].key \in Key
        /\ HandlerOK(c)
        /\ seq[c] \in 0 .. Len(log)
    BY CommandType DEF HandlerInv, HandlerOK, CommandShape, TypeOK
  <2>1. ASSUME NEW d \in Conn, d # c PROVE pc'[d] = pc[d] /\ cmd'[d] = cmd[d] /\ seq'[d] = seq[d]
    BY <1>2, <2>1
       DEF Handle, Claim, AppendEvent, AppendFails, ClientAck, Broadcast, TellAgent,
           AgentRefuses, Goto, Finish, TypeOK
  <2>2. ASSUME NEW d \in Conn, d # c, UNCHANGED log PROVE HandlerOK(d)'
    BY <2>1, <2>2, HandlerFrame DEF HandlerInv
  <2>3. CASE Claim(c)
    <3>1. replies' \in SUBSET [device : Device, key : Key \cup {None},
                               code : ReplyCode, seq : 0 .. Len(log)]
      <4>1. CASE UNCHANGED replies
        BY <4>1 DEF TypeOK
      <4>2. CASE Reply(c, cmd[c].key, "already_resolved", 0)
        BY <1>0, <2>0, <2>3, <4>2, ReplyType DEF Claim, ReplyCode
      <4>. QED BY <2>3, <4>1, <4>2 DEF Claim
    <3>2. TypeOK'
      <4>1. /\ pc' \in [Conn -> HandlerPc]
            /\ cmd' \in [Conn -> Command \cup {None}]
            /\ seq' \in [Conn -> 0 .. Len(log)]
        <5>1. CASE Goto(c, "append")
          BY <5>1 DEF Goto, TypeOK, HandlerPc
        <5>2. CASE Finish(c)
          BY <1>0, <5>2 DEF Finish, TypeOK, HandlerPc
        <5>. QED BY <2>3, <5>1, <5>2 DEF Claim
      <4>2. pending' \in SUBSET Ref
        BY <2>3 DEF Claim, TypeOK
      <4>. QED BY <2>3, <3>1, <4>1, <4>2 DEF Claim, TypeOK
    <3>3. HandlerOK(c)'
      BY <2>0, <2>3 DEF Claim, Goto, Finish, TypeOK, HandlerOK
    <3>. QED BY <2>2, <2>3, <3>2, <3>3 DEF Claim, ChannelInv, HandlerInv
  <2>4. CASE AppendEvent(c)
    <3>1. cmd[c] \in Command /\ cmd[c].kind \in AnswerKind \cup DirectKind
      BY <2>0, <2>4 DEF AppendEvent, HandlerOK
    <3>2. EventOf(c) \in Event
      BY <3>1, EventOfType
    <3>3. /\ log' \in Seq(Event)
          /\ Len(log') = Len(log) + 1
          /\ \A i \in 1 .. Len(log) : log'[i] = log[i]
          /\ log'[Len(log) + 1] = EventOf(c)
      BY <2>4, <3>2, AppendKeepsBase DEF AppendEvent
    <3>4. TypeOK'
      BY <1>0, <2>4, <3>3 DEF AppendEvent, TypeOK, HandlerPc
    <3>5. ASSUME NEW d \in Conn PROVE HandlerOK(d)'
      <4>1. CASE d = c
        <5>1. EventOf(c)' = EventOf(c)
          BY <2>4 DEF AppendEvent, EventOf, OriginOf
        <5>2. pc'[c] = "ack" /\ seq'[c] = Len(log) + 1 /\ cmd'[c] = cmd[c]
          BY <2>4 DEF AppendEvent, TypeOK
        <5>. QED BY <1>0, <3>1, <3>3, <4>1, <5>1, <5>2 DEF HandlerOK
      <4>2. CASE d # c
        BY <1>0, <2>1, <3>3, <4>2, HandlerFrame DEF HandlerInv
      <4>. QED BY <4>1, <4>2
    <3>6. ChannelInv'
      BY <1>0, <2>4, <3>3 DEF AppendEvent, ChannelInv, AgentEmits
    <3>. QED BY <3>4, <3>5, <3>6 DEF HandlerInv
  <2>5. CASE AppendFails(c) \/ AgentRefuses(c)
    <3>1. replies' \in SUBSET [device : Device, key : Key \cup {None},
                               code : ReplyCode, seq : 0 .. Len(log)]
      BY <1>0, <2>0, <2>5, ReplyType DEF AppendFails, AgentRefuses, ReplyCode
    <3>2. TypeOK'
      <4>1. Finish(c) => /\ pc' \in [Conn -> HandlerPc]
                         /\ cmd' \in [Conn -> Command \cup {None}]
                         /\ seq' \in [Conn -> 0 .. Len(log)]
        BY <1>0 DEF Finish, TypeOK, HandlerPc
      <4>. QED BY <2>5, <3>1, <4>1 DEF AppendFails, AgentRefuses, TypeOK
    <3>3. HandlerOK(c)'
      BY <2>5 DEF AppendFails, AgentRefuses, Finish, TypeOK, HandlerOK
    <3>. QED BY <2>2, <2>5, <3>2, <3>3 DEF AppendFails, AgentRefuses, ChannelInv, HandlerInv
  <2>6. CASE ClientAck(c)
    <3>1. replies' \in SUBSET [device : Device, key : Key \cup {None},
                               code : ReplyCode, seq : 0 .. Len(log)]
      BY <2>0, <2>6, ReplyType DEF ClientAck, ReplyCode
    <3>2. TypeOK'
      BY <2>6, <3>1 DEF ClientAck, Goto, TypeOK, HandlerPc
    <3>3. EventOf(c)' = EventOf(c)
      BY <2>6 DEF ClientAck, Goto, EventOf, OriginOf
    <3>4. HandlerOK(c)'
      BY <2>0, <2>6, <3>3 DEF ClientAck, Goto, TypeOK, HandlerOK
    <3>. QED BY <2>2, <2>6, <3>2, <3>4 DEF ClientAck, ChannelInv, HandlerInv
  <2>7. CASE Broadcast(c)
    <3>1. seq[c] \in 1 .. Len(log)
      BY <2>0, <2>7 DEF Broadcast, HandlerOK
    <3>2. TypeOK'
      BY <2>7, <3>1 DEF Broadcast, Goto, TypeOK, HandlerPc
    <3>3. EventOf(c)' = EventOf(c)
      BY <2>7 DEF Broadcast, Goto, EventOf, OriginOf
    <3>4. HandlerOK(c)'
      BY <2>0, <2>7, <3>3 DEF Broadcast, Goto, TypeOK, HandlerOK
    <3>. QED BY <2>2, <2>7, <3>2, <3>4 DEF Broadcast, ChannelInv, HandlerInv
  <2>8. CASE TellAgent(c)
    <3>1. OriginOf(c) \in Origin
      BY <2>0, <2>8, EventOfType DEF TellAgent, HandlerOK
    <3>2. inbox' \in Seq(Origin)
      BY <2>8, <3>1 DEF TellAgent, TypeOK
    <3>3. TypeOK'
      BY <1>0, <2>8, <3>2 DEF TellAgent, Finish, TypeOK, HandlerPc
    <3>4. HandlerOK(c)'
      BY <2>8 DEF TellAgent, Finish, TypeOK, HandlerOK
    <3>. QED BY <2>2, <2>8, <3>3, <3>4 DEF TellAgent, ChannelInv, HandlerInv
  <2>. QED BY <1>2, <2>3, <2>4, <2>5, <2>6, <2>7, <2>8 DEF Handle
<1>3. ASSUME NEW r \in Ref, AgentAsks(r)
      PROVE  BaseInv'
  <2>1. /\ AgentEvent(AskKind(r), r) \in Event
        /\ AgentEmits(AgentEvent(AskKind(r), r))
    BY DEF AgentEvent, AgentEmits, Event, EventKind, AskKind
  <2>2. events' \in Seq(Event) /\ \A i \in DOMAIN events' : AgentEmits(events'[i])
    BY <1>3, <2>1, EmitFacts DEF AgentAsks
  <2>3. TypeOK'
    BY <1>3, <2>2 DEF AgentAsks, TypeOK
  <2>4. HandlerInv'
    BY <1>3, HandlerFrame DEF AgentAsks, HandlerInv
  <2>. QED BY <1>3, <2>2, <2>3, <2>4 DEF AgentAsks, ChannelInv
<1>4. CASE AgentOutput
  <2>1. AgentEvent("output", None) \in Event /\ AgentEmits(AgentEvent("output", None))
    BY DEF AgentEvent, AgentEmits, Event, EventKind
  <2>2. events' \in Seq(Event) /\ \A i \in DOMAIN events' : AgentEmits(events'[i])
    BY <1>4, <2>1, EmitFacts DEF AgentOutput
  <2>3. TypeOK'
    BY <1>4, <2>2 DEF AgentOutput, TypeOK
  <2>4. HandlerInv'
    BY <1>4, HandlerFrame DEF AgentOutput, HandlerInv
  <2>. QED BY <1>4, <2>2, <2>3, <2>4 DEF AgentOutput, ChannelInv
<1>5. CASE Ingest
  <2>1. CASE IngestAppend
    <3>1. /\ Head(events) \in Event
          /\ AgentEmits(Head(events))
          /\ events' \in Seq(Event)
          /\ \A i \in DOMAIN events' : AgentEmits(events'[i])
      BY <2>1, TailFacts DEF IngestAppend, TypeOK, ChannelInv
    <3>2. /\ log' \in Seq(Event)
          /\ Len(log') = Len(log) + 1
          /\ \A i \in 1 .. Len(log) : log'[i] = log[i]
          /\ log'[Len(log) + 1] = Head(events)
      BY <2>1, <3>1, AppendKeepsBase DEF IngestAppend
    <3>3. TypeOK'
      BY <1>0, <2>1, <3>1, <3>2 DEF IngestAppend, TypeOK, IngestPc
    <3>4. HandlerInv'
      BY <1>0, <2>1, <3>2, HandlerFrame DEF IngestAppend, HandlerInv
    <3>5. Head(events).ref # None => Head(events).ref \in Ref
      BY <3>1 DEF Event
    <3>6. ChannelInv'
      BY <1>0, <2>1, <3>1, <3>2, <3>5 DEF IngestAppend, ChannelInv, AgentEmits
    <3>. QED BY <3>3, <3>4, <3>6
  <2>2. CASE IngestFails
    <3>1. events' \in Seq(Event) /\ \A i \in DOMAIN events' : AgentEmits(events'[i])
      BY <2>2, TailFacts DEF IngestFails, TypeOK, ChannelInv
    <3>2. HandlerInv'
      BY <2>2, HandlerFrame DEF IngestFails, HandlerInv
    <3>. QED BY <2>2, <3>1, <3>2 DEF IngestFails, TypeOK, ChannelInv
  <2>3. CASE IngestRegister
    <3>1. HandlerInv'
      BY <2>3, HandlerFrame DEF IngestRegister, HandlerInv
    <3>2. TypeOK'
      BY <2>3 DEF IngestRegister, TypeOK, ChannelInv, IngestPc
    <3>. QED BY <2>3, <3>1, <3>2 DEF IngestRegister, TypeOK, ChannelInv
  <2>4. CASE IngestBroadcast
    <3>1. HandlerInv'
      BY <2>4, HandlerFrame DEF IngestBroadcast, HandlerInv
    <3>2. published' \in SUBSET (1 .. Len(log))
      BY <2>4 DEF IngestBroadcast, TypeOK, ChannelInv
    <3>3. ingest' \in [pc : IngestPc, seq : 0 .. Len(log)]
      BY <1>0, <2>4 DEF IngestBroadcast, IngestPc
    <3>4. TypeOK'
      BY <2>4, <3>2, <3>3 DEF IngestBroadcast, TypeOK
    <3>. QED BY <2>4, <3>1, <3>4 DEF IngestBroadcast, ChannelInv
  <2>. QED BY <1>5, <2>1, <2>2, <2>3, <2>4 DEF Ingest
<1>6. CASE UNCHANGED vars
  <2>1. HandlerInv'
    BY <1>6, HandlerFrame DEF vars, HandlerInv
  <2>. QED BY <1>6, <2>1 DEF vars, TypeOK, ChannelInv
<1>. QED BY <1>1, <1>2, <1>3, <1>4, <1>5, <1>6 DEF Next

\* Every reachable state is well typed: a seq a handler, a reply or a
\* broadcast carries is one the store has given out.
THEOREM TypeCorrect == Spec => []TypeOK
<1>1. BaseInv => TypeOK
  BY DEF BaseInv
<1>. QED BY <1>1, BaseInit, BaseStep, PTL DEF Spec
-----------------------------------------------------------------------------
(* Exactly once *)

(***************************************************************************)
(* ExactlyOnce is not inductive: it needs that a busy handler's key is     *)
(* recorded, that no two handlers work for the same key, and that a        *)
(* handler that has not appended yet is the first to do so.                *)
(***************************************************************************)
BusyKeysRecorded ==
  \A c \in Conn : pc[c] # "idle" =>
    OriginOf(c) \in idempotency /\ ~Told(OriginOf(c))
UnappendedNotLogged ==
  \A c \in Conn : pc[c] \in {"claim", "append"} => ~Logged(OriginOf(c))
OneHandlerPerKey ==
  \A c, d \in Conn :
    pc[c] # "idle" /\ pc[d] # "idle" /\ OriginOf(c) = OriginOf(d) => c = d
LoggedKeysRecorded == \A o \in Origin : Logged(o) => o \in idempotency

KeyInv ==
  /\ BusyKeysRecorded
  /\ UnappendedNotLogged
  /\ OneHandlerPerKey
  /\ LoggedKeysRecorded
  /\ ExactlyOnce

\* Handlers that move on with the command they have, or finish, disturb
\* nothing as long as neither the log nor the agent's inbox changes.
LEMMA KeyFrame ==
  ASSUME KeyInv,
         idempotency \subseteq idempotency', log' = log, inbox' = inbox,
         \A d \in Conn :
           \/ pc'[d] = "idle"
           \/ /\ pc[d] # "idle"
              /\ cmd'[d] = cmd[d]
              /\ pc'[d] \in {"claim", "append"} => pc[d] \in {"claim", "append"}
  PROVE  KeyInv'
<1>1. \A o : Logged(o)' = Logged(o) /\ Told(o)' = Told(o)
  BY DEF Logged, Told
<1>2. \A d \in Conn : pc'[d] # "idle" => OriginOf(d)' = OriginOf(d)
  BY DEF OriginOf
<1>3. BusyKeysRecorded'
  BY <1>1, <1>2 DEF KeyInv, BusyKeysRecorded
<1>4. UnappendedNotLogged'
  BY <1>1, <1>2 DEF KeyInv, UnappendedNotLogged
<1>5. OneHandlerPerKey'
  BY <1>2 DEF KeyInv, OneHandlerPerKey
<1>6. LoggedKeysRecorded'
  BY <1>1 DEF KeyInv, LoggedKeysRecorded
<1>7. ExactlyOnce'
  BY <1>1 DEF KeyInv, ExactlyOnce
<1>. QED BY <1>3, <1>4, <1>5, <1>6, <1>7 DEF KeyInv

\* Appending an event logs its origin and nothing else.
LEMMA LoggedAppend ==
  ASSUME BaseInv, NEW e \in Event, log' = Append(log, e), NEW o
  PROVE  Logged(o)' <=> Logged(o) \/ e.origin = o
<1>1. /\ DOMAIN log = 1 .. Len(log)
      /\ DOMAIN log' = 1 .. (Len(log) + 1)
      /\ \A i \in DOMAIN log : log'[i] = log[i]
      /\ log'[Len(log) + 1] = e
      /\ Len(log) \in Nat
  BY AppendFacts DEF BaseInv, TypeOK
<1>2. Logged(o) => Logged(o)'
  BY <1>1 DEF Logged
<1>3. e.origin = o => Logged(o)'
  BY <1>1 DEF Logged
<1>4. Logged(o)' => Logged(o) \/ e.origin = o
  BY <1>1 DEF Logged
<1>. QED BY <1>2, <1>3, <1>4

\* One more entry of the inbox tells the agent of one more thing.
LEMMA ToldAppend ==
  ASSUME BaseInv, NEW e \in Origin, inbox' = Append(inbox, e), NEW o
  PROVE  Told(o)' <=> Told(o) \/ e = o
<1>1. /\ DOMAIN inbox = 1 .. Len(inbox)
      /\ DOMAIN inbox' = 1 .. (Len(inbox) + 1)
      /\ \A i \in DOMAIN inbox : inbox'[i] = inbox[i]
      /\ inbox'[Len(inbox) + 1] = e
      /\ Len(inbox) \in Nat
  BY AppendFacts DEF BaseInv, TypeOK
<1>2. Told(o) => Told(o)'
  BY <1>1 DEF Told
<1>3. e = o => Told(o)'
  BY <1>1 DEF Told
<1>4. Told(o)' => Told(o) \/ e = o
  BY <1>1 DEF Told
<1>. QED BY <1>2, <1>3, <1>4

\* The second layer holds at the start.
LEMMA KeyInit == Init => KeyInv
BY DEF Init, KeyInv, BusyKeysRecorded, UnappendedNotLogged, OneHandlerPerKey,
       LoggedKeysRecorded, ExactlyOnce, Logged, Told

\* The second layer: where a key is, action by action.
LEMMA KeyStep == BaseInv /\ KeyInv /\ [Next]_vars => KeyInv'
<1>. SUFFICES ASSUME BaseInv, KeyInv, [Next]_vars PROVE KeyInv'
  OBVIOUS
<1>0. /\ \A c \in Conn : HandlerOK(c)
      /\ \A c \in Conn : pc[c] # "idle" => OriginOf(c) \in Origin /\ EventOf(c) \in Event
      /\ \A c \in Conn : EventOf(c).origin = OriginOf(c)
  BY EventOfType DEF BaseInv, HandlerInv, HandlerOK, EventOf
<1>1. ASSUME NEW c \in Conn, NEW m \in Outbox[DeviceOf[c]], Receive(c, m)
      PROVE  KeyInv'
  <2>1. CASE RejectNoId(c, m) \/ AckReplay(c, m)
    BY <2>1, KeyFrame DEF RejectNoId, AckReplay
  <2>2. CASE Accept(c, m)
    <3>1. CASE UNCHANGED <<pc, cmd>>
      BY <2>2, <3>1, KeyFrame DEF Accept
    <3>2. CASE m.kind \in AnswerKind \cup DirectKind
      <4>1. /\ pc[c] = "idle" /\ pc'[c] # "idle"
            /\ cmd'[c] = m
            /\ \A d \in Conn : d # c => pc'[d] = pc[d] /\ cmd'[d] = cmd[d]
            /\ log' = log /\ inbox' = inbox
            /\ idempotency' = idempotency \cup {<<DeviceOf[c], m.key>>}
            /\ <<DeviceOf[c], m.key>> \notin idempotency
        BY <2>2, <3>2 DEF Accept, BaseInv, TypeOK, RejectedKind, AnswerKind, DirectKind
      <4>2. <<DeviceOf[c], m.key>> \in Origin
        BY CommandType, ConnAssumption DEF Command, CommandShape, Origin
      <4>3. /\ OriginOf(c)' = <<DeviceOf[c], m.key>>
            /\ \A d \in Conn : d # c => OriginOf(d)' = OriginOf(d)
        BY <4>1 DEF OriginOf
      <4>4. ~Logged(<<DeviceOf[c], m.key>>) /\ ~Told(<<DeviceOf[c], m.key>>)
        BY <4>1, <4>2 DEF KeyInv, LoggedKeysRecorded, ExactlyOnce, Told
      <4>5. \A o : Logged(o)' = Logged(o) /\ Told(o)' = Told(o)
        BY <4>1 DEF Logged, Told
      <4>6. BusyKeysRecorded'
        BY <4>1, <4>3, <4>4, <4>5 DEF KeyInv, BusyKeysRecorded
      <4>7. UnappendedNotLogged'
        BY <4>1, <4>3, <4>4, <4>5 DEF KeyInv, UnappendedNotLogged
      <4>8. OneHandlerPerKey'
        BY <4>1, <4>3 DEF KeyInv, OneHandlerPerKey, BusyKeysRecorded
      <4>9. LoggedKeysRecorded' /\ ExactlyOnce'
        BY <4>1, <4>5 DEF KeyInv, LoggedKeysRecorded, ExactlyOnce
      <4>. QED BY <4>6, <4>7, <4>8, <4>9 DEF KeyInv
    <3>. QED BY <2>2, <3>1, <3>2 DEF Accept
  <2>. QED BY <1>1, <2>1, <2>2 DEF Receive
<1>2. ASSUME NEW c \in Conn, Handle(c)
      PROVE  KeyInv'
  <2>1. CASE Claim(c) \/ AppendFails(c) \/ ClientAck(c) \/ Broadcast(c) \/ AgentRefuses(c)
    BY <2>1, KeyFrame
       DEF Claim, AppendFails, ClientAck, Broadcast, AgentRefuses, Goto, Finish, BaseInv, TypeOK
  <2>2. CASE AppendEvent(c)
    <3>1. /\ pc[c] = "append" /\ pc'[c] = "ack"
          /\ \A d \in Conn : d # c => pc'[d] = pc[d]
          /\ cmd' = cmd /\ inbox' = inbox /\ idempotency' = idempotency
          /\ log' = Append(log, EventOf(c))
      BY <2>2 DEF AppendEvent, BaseInv, TypeOK
    <3>2. OriginOf(c) \in Origin /\ EventOf(c) \in Event /\ EventOf(c).origin = OriginOf(c)
      BY <1>0, <3>1
    <3>3. \A o : Logged(o)' <=> Logged(o) \/ OriginOf(c) = o
      BY <3>1, <3>2, LoggedAppend
    <3>4. \A o : Told(o)' = Told(o)
      BY <3>1 DEF Told
    <3>5. \A d \in Conn : OriginOf(d)' = OriginOf(d)
      BY <3>1 DEF OriginOf
    <3>6. BusyKeysRecorded'
      BY <3>1, <3>4, <3>5 DEF KeyInv, BusyKeysRecorded
    <3>7. UnappendedNotLogged'
      BY <3>1, <3>3, <3>5 DEF KeyInv, UnappendedNotLogged, OneHandlerPerKey
    <3>8. OneHandlerPerKey'
      BY <3>1, <3>5 DEF KeyInv, OneHandlerPerKey
    <3>9. LoggedKeysRecorded'
      BY <3>1, <3>3 DEF KeyInv, LoggedKeysRecorded, BusyKeysRecorded
    <3>10. ExactlyOnce'
      <4>1. ~Logged(OriginOf(c))
        BY <3>1 DEF KeyInv, UnappendedNotLogged
      <4>2. \A i, j \in DOMAIN log' :
              log'[i].origin = log'[j].origin /\ log'[i].origin # None => i = j
        BY <3>1, <3>2, <4>1, AppendFacts DEF KeyInv, ExactlyOnce, Logged, BaseInv, TypeOK
      <4>. QED BY <3>1, <3>3, <4>2 DEF KeyInv, ExactlyOnce
    <3>. QED BY <3>6, <3>7, <3>8, <3>9, <3>10 DEF KeyInv
  <2>3. CASE TellAgent(c)
    <3>1. /\ pc[c] = "agent" /\ pc'[c] = "idle"
          /\ \A d \in Conn : d # c => pc'[d] = pc[d] /\ cmd'[d] = cmd[d]
          /\ log' = log /\ idempotency' = idempotency
          /\ inbox' = Append(inbox, OriginOf(c))
      BY <2>3 DEF TellAgent, Finish, BaseInv, TypeOK
    <3>2. OriginOf(c) \in Origin
      BY <1>0, <3>1
    <3>3. \A o : Told(o)' <=> Told(o) \/ OriginOf(c) = o
      BY <3>1, <3>2, ToldAppend
    <3>4. \A o : Logged(o)' = Logged(o)
      BY <3>1 DEF Logged
    <3>5. \A d \in Conn : d # c => OriginOf(d)' = OriginOf(d)
      BY <3>1 DEF OriginOf
    <3>6. BusyKeysRecorded'
      BY <3>1, <3>3, <3>5 DEF KeyInv, BusyKeysRecorded, OneHandlerPerKey
    <3>7. UnappendedNotLogged'
      BY <3>1, <3>4, <3>5 DEF KeyInv, UnappendedNotLogged
    <3>8. OneHandlerPerKey'
      BY <3>1, <3>5 DEF KeyInv, OneHandlerPerKey
    <3>9. LoggedKeysRecorded'
      BY <3>1, <3>4 DEF KeyInv, LoggedKeysRecorded
    <3>10. ExactlyOnce'
      <4>1. ~Told(OriginOf(c))
        BY <3>1 DEF KeyInv, BusyKeysRecorded
      <4>2. Logged(OriginOf(c))
        <5>1. seq[c] \in DOMAIN log /\ log[seq[c]].origin = OriginOf(c)
          BY <1>0, <3>1 DEF HandlerOK, BaseInv, TypeOK
        <5>. QED BY <5>1 DEF Logged
      <4>3. \A i, j \in DOMAIN inbox' : inbox'[i] = inbox'[j] => i = j
        BY <3>1, <3>2, <4>1, AppendFacts DEF KeyInv, ExactlyOnce, Told, BaseInv, TypeOK
      <4>4. \A i \in DOMAIN inbox' :
              \E k \in DOMAIN log' : log'[k].origin = inbox'[i]
        <5>. SUFFICES ASSUME NEW i \in DOMAIN inbox'
                      PROVE  Logged(inbox'[i])
          BY <3>1 DEF Logged
        <5>1. (i \in DOMAIN inbox /\ inbox'[i] = inbox[i]) \/ inbox'[i] = OriginOf(c)
          BY <3>1, <3>2, AppendFacts DEF BaseInv, TypeOK
        <5>. QED BY <4>2, <5>1 DEF KeyInv, ExactlyOnce
      <4>. QED BY <3>1, <4>3, <4>4 DEF KeyInv, ExactlyOnce, Logged
    <3>. QED BY <3>6, <3>7, <3>8, <3>9, <3>10 DEF KeyInv
  <2>. QED BY <1>2, <2>1, <2>2, <2>3 DEF Handle
<1>3. CASE (\E r \in Ref : AgentAsks(r)) \/ AgentOutput \/ UNCHANGED vars
  BY <1>3, KeyFrame DEF AgentAsks, AgentOutput, vars
<1>4. CASE Ingest
  <2>1. CASE IngestFails \/ IngestRegister \/ IngestBroadcast
    BY <2>1, KeyFrame DEF IngestFails, IngestRegister, IngestBroadcast
  <2>2. CASE IngestAppend
    <3>1. /\ pc' = pc /\ cmd' = cmd /\ inbox' = inbox /\ idempotency' = idempotency
          /\ log' = Append(log, Head(events))
          /\ Head(events) \in Event /\ Head(events).origin = None
      BY <2>2, TailFacts DEF IngestAppend, BaseInv, TypeOK, ChannelInv, AgentEmits
    <3>2. \A o \in Origin : Logged(o)' = Logged(o)
      <4>. SUFFICES ASSUME NEW o \in Origin PROVE Logged(o)' = Logged(o)
        OBVIOUS
      <4>1. Logged(o)' <=> Logged(o) \/ None = o
        BY <3>1, LoggedAppend
      <4>2. None # o
        BY IdAssumption
      <4>. QED BY <4>1, <4>2 DEF Logged
    <3>3. /\ \A d \in Conn : OriginOf(d)' = OriginOf(d)
          /\ \A o : Told(o)' = Told(o)
      BY <3>1 DEF OriginOf, Told
    <3>4. BusyKeysRecorded' /\ OneHandlerPerKey'
      BY <3>1, <3>3 DEF KeyInv, BusyKeysRecorded, OneHandlerPerKey
    <3>5. UnappendedNotLogged'
      BY <1>0, <3>1, <3>2, <3>3 DEF KeyInv, UnappendedNotLogged
    <3>6. LoggedKeysRecorded'
      BY <3>1, <3>2 DEF KeyInv, LoggedKeysRecorded
    <3>7. ExactlyOnce'
      <4>1. \A i, j \in DOMAIN log' :
              log'[i].origin = log'[j].origin /\ log'[i].origin # None => i = j
        BY <3>1, AppendFacts DEF KeyInv, ExactlyOnce, BaseInv, TypeOK
      <4>2. \A i \in DOMAIN inbox' :
              \E k \in DOMAIN log' : log'[k].origin = inbox'[i]
        <5>1. \A k \in DOMAIN log : k \in DOMAIN log' /\ log'[k] = log[k]
          BY <3>1, AppendFacts DEF BaseInv, TypeOK
        <5>2. \A i \in DOMAIN inbox : \E k \in DOMAIN log : log[k].origin = inbox[i]
          BY DEF KeyInv, ExactlyOnce, Logged
        <5>. QED BY <3>1, <5>1, <5>2
      <4>. QED BY <3>1, <4>1, <4>2 DEF KeyInv, ExactlyOnce, Logged
    <3>. QED BY <3>4, <3>5, <3>6, <3>7 DEF KeyInv
  <2>. QED BY <1>4, <2>1, <2>2 DEF Ingest
<1>. QED BY <1>1, <1>2, <1>3, <1>4 DEF Next

\* However often, and on however many connections, a device resends a command,
\* it has one event at most and the agent gets it once at most.
THEOREM CommandsAreExactlyOnce == Spec => []ExactlyOnce
<1>1. Init => BaseInv /\ KeyInv
  BY BaseInit, KeyInit
<1>2. BaseInv /\ KeyInv /\ [Next]_vars => BaseInv' /\ KeyInv'
  BY BaseStep, KeyStep
<1>3. KeyInv => ExactlyOnce
  BY DEF KeyInv
<1>. QED BY <1>1, <1>2, <1>3, PTL DEF Spec

-----------------------------------------------------------------------------
(* First write wins *)

\* Request r can still be resolved, in one of the three places it may be.
Active(r) == r \in pending \/ (\E c \in Conn : Holds(c, r)) \/ Registering(r)

(***************************************************************************)
(* FirstAnswerWins is not inductive either: an active request must be      *)
(* unresolved and be in one place only, and a request still in the         *)
(* adapter's channel must be new to the log.                               *)
(***************************************************************************)

\* What the log says of request r: asked once, answered once, in that order.
LogOK(r) ==
  /\ Requested(log, r) => r \in asked
  /\ \A i, j \in DOMAIN log : IsAsk(log[i], r) /\ IsAsk(log[j], r) => i = j
  /\ \A i, j \in DOMAIN log :
       IsResolution(log[i], r) /\ IsResolution(log[j], r) => i = j
  /\ \A j \in DOMAIN log :
       IsResolution(log[j], r) => \E i \in 1 .. (j - 1) : IsAsk(log[i], r)

\* What being active says of the log, and, without failures, conversely.
ActiveOK(r) ==
  /\ Active(r) => Requested(log, r) /\ ~Resolved(log, r)
  /\ ~StoreMayFail => (Requested(log, r) /\ ~Resolved(log, r) => Active(r))

OnePlace(r) ==
  /\ \A c \in Conn : Holds(c, r) =>
       r \notin pending /\ ~Registering(r) /\ \A d \in Conn : Holds(d, r) => c = d
  /\ Registering(r) => r \notin pending

RequestOK(r) == LogOK(r) /\ ActiveOK(r) /\ OnePlace(r)

\* Requests in the channel are new to the log, and different.
ChannelAsksNew ==
  /\ \A i \in DOMAIN events : events[i].ref # None =>
       events[i].ref \in asked /\ ~Requested(log, events[i].ref)
  /\ \A i, j \in DOMAIN events :
       events[i].ref # None /\ events[i].ref = events[j].ref => i = j

RequestInv == ChannelAsksNew /\ \A r \in Ref : RequestOK(r)

\* The log facts the request invariant depends on, after an append.
LEMMA RequestAppend ==
  ASSUME BaseInv, NEW e \in Event, log' = Append(log, e), NEW r \in Ref
  PROVE  /\ Requested(log', r) <=> Requested(log, r) \/ IsAsk(e, r)
         /\ Resolved(log', r) <=> Resolved(log, r) \/ IsResolution(e, r)
<1>1. /\ DOMAIN log = 1 .. Len(log)
      /\ DOMAIN log' = 1 .. (Len(log) + 1)
      /\ \A i \in DOMAIN log : log'[i] = log[i]
      /\ log'[Len(log) + 1] = e
      /\ Len(log) \in Nat
  BY AppendFacts DEF BaseInv, TypeOK
<1>2. Requested(log', r) <=> Requested(log, r) \/ IsAsk(e, r)
  <2>1. Requested(log, r) => Requested(log', r)
    BY <1>1 DEF Requested
  <2>2. IsAsk(e, r) => Requested(log', r)
    BY <1>1 DEF Requested
  <2>3. Requested(log', r) => Requested(log, r) \/ IsAsk(e, r)
    BY <1>1 DEF Requested
  <2>. QED BY <2>1, <2>2, <2>3
<1>3. Resolved(log', r) <=> Resolved(log, r) \/ IsResolution(e, r)
  <2>1. Resolved(log, r) => Resolved(log', r)
    BY <1>1 DEF Resolved
  <2>2. IsResolution(e, r) => Resolved(log', r)
    BY <1>1 DEF Resolved
  <2>3. Resolved(log', r) => Resolved(log, r) \/ IsResolution(e, r)
    BY <1>1 DEF Resolved
  <2>. QED BY <2>1, <2>2, <2>3
<1>. QED BY <1>2, <1>3

\* An event that the agent emits asks about its id, and nothing else; it
\* resolves nothing.
LEMMA EmittedAsks ==
  ASSUME NEW e \in Event, AgentEmits(e), NEW r \in Ref
  PROVE  /\ IsAsk(e, r) <=> e.ref = r
         /\ ~IsResolution(e, r)
BY IdAssumption DEF AgentEmits, IsAsk, IsResolution, AskKind, ResolvedKind, Ref

\* The third layer holds at the start.
LEMMA RequestInit == Init => RequestInv
BY DEF Init, RequestInv, ChannelAsksNew, RequestOK, LogOK, ActiveOK, OnePlace,
       Active, Holds, Registering, Requested, Resolved

\* A step that appends nothing and moves request r to no new place.
LEMMA RequestFrame ==
  ASSUME NEW r \in Ref, RequestOK(r), log' = log, asked \subseteq asked',
         r \in pending' => r \in pending,
         \A c \in Conn : Holds(c, r)' => Holds(c, r),
         Registering(r)' => Registering(r),
         ~StoreMayFail => (Active(r) => Active(r)')
  PROVE  RequestOK(r)'
<1>1. Requested(log, r)' = Requested(log, r) /\ Resolved(log, r)' = Resolved(log, r)
  BY DEF Requested, Resolved
<1>2. LogOK(r)'
  BY <1>1 DEF RequestOK, LogOK
<1>3. Active(r)' => Active(r)
  BY DEF Active
<1>4. ActiveOK(r)'
  BY <1>1, <1>3 DEF RequestOK, ActiveOK
<1>5. OnePlace(r)'
  BY DEF RequestOK, OnePlace
<1>. QED BY <1>2, <1>4, <1>5 DEF RequestOK

\* What an append does to the order of asks and answers of a request.
LEMMA LogOKAppend ==
  ASSUME BaseInv, NEW r \in Ref, LogOK(r), NEW e \in Event, log' = Append(log, e),
         asked' = asked,
         IsAsk(e, r) => r \in asked /\ ~Requested(log, r) /\ ~IsResolution(e, r),
         IsResolution(e, r) => Requested(log, r) /\ ~Resolved(log, r)
  PROVE  LogOK(r)'
<1>1. /\ DOMAIN log = 1 .. Len(log)
      /\ DOMAIN log' = 1 .. (Len(log) + 1)
      /\ \A i \in DOMAIN log : log'[i] = log[i]
      /\ log'[Len(log) + 1] = e
      /\ Len(log) \in Nat
  BY AppendFacts DEF BaseInv, TypeOK
<1>2. (Requested(log, r) => r \in asked)'
  BY RequestAppend DEF LogOK
<1>3. (\A i, j \in DOMAIN log : IsAsk(log[i], r) /\ IsAsk(log[j], r) => i = j)'
  BY <1>1 DEF LogOK, Requested
<1>4. (\A i, j \in DOMAIN log :
         IsResolution(log[i], r) /\ IsResolution(log[j], r) => i = j)'
  BY <1>1 DEF LogOK, Resolved
<1>5. ASSUME NEW j \in DOMAIN log', IsResolution(log'[j], r)
      PROVE  \E i \in 1 .. (j - 1) : IsAsk(log'[i], r)
  <2>1. CASE j \in DOMAIN log
    <3>1. PICK i \in 1 .. (j - 1) : IsAsk(log[i], r)
      BY <1>1, <1>5, <2>1 DEF LogOK
    <3>2. i \in DOMAIN log
      BY <1>1, <2>1
    <3>. QED BY <1>1, <3>1, <3>2
  <2>2. CASE j = Len(log) + 1
    <3>1. PICK i \in DOMAIN log : IsAsk(log[i], r)
      BY <1>1, <1>5, <2>2 DEF Requested
    <3>2. i \in 1 .. (j - 1)
      BY <1>1, <2>2
    <3>. QED BY <1>1, <3>1, <3>2
  <2>. QED BY <1>1, <2>1, <2>2
<1>. QED BY <1>2, <1>3, <1>4, <1>5 DEF LogOK

\* A step of others leaves the asks in the channel new and different.
LEMMA ChannelFrame ==
  ASSUME BaseInv, ChannelAsksNew, events' = events, asked \subseteq asked',
         \A r \in Ref : Requested(log', r) => Requested(log, r)
  PROVE  ChannelAsksNew'
<1>1. \A i \in DOMAIN events : events[i].ref # None => events[i].ref \in Ref
  BY DEF BaseInv, ChannelInv, AgentEmits
<1>. QED BY <1>1 DEF ChannelAsksNew

\* So does emitting an output event.
LEMMA ChannelEmit ==
  ASSUME BaseInv, ChannelAsksNew, log' = log, NEW ev \in Event, Emit(ev),
         asked \subseteq asked',
         ev.ref # None => ev.ref \in asked' /\ ev.ref \notin asked
                          /\ ~Requested(log, ev.ref)
  PROVE  ChannelAsksNew'
<1>1. CASE events' = events
  BY <1>1 DEF ChannelAsksNew
<1>2. CASE events' = Append(events, ev)
  <2>1. /\ DOMAIN events' = 1 .. (Len(events) + 1)
        /\ DOMAIN events = 1 .. Len(events)
        /\ Len(events) \in Nat
        /\ \A i \in DOMAIN events : events'[i] = events[i]
        /\ events'[Len(events) + 1] = ev
    BY <1>2, AppendFacts DEF BaseInv, TypeOK
  <2>2. \A i \in DOMAIN events' : i \in DOMAIN events \/ i = Len(events) + 1
    BY <2>1
  <2>3. \A i \in DOMAIN events : events[i].ref # None => events[i].ref # ev.ref
    BY DEF ChannelAsksNew
  <2>4. \A i \in DOMAIN events' : events'[i].ref # None =>
          events'[i].ref \in asked' /\ ~Requested(log', events'[i].ref)
    BY <2>1, <2>2 DEF ChannelAsksNew
  <2>5. \A i, j \in DOMAIN events' :
          events'[i].ref # None /\ events'[i].ref = events'[j].ref => i = j
    BY <2>1, <2>2, <2>3 DEF ChannelAsksNew
  <2>. QED BY <2>4, <2>5 DEF ChannelAsksNew
<1>. QED BY <1>1, <1>2 DEF Emit

\* So does taking the head of the channel.
LEMMA ChannelTail ==
  ASSUME BaseInv, ChannelAsksNew, events # <<>>, events' = Tail(events), asked' = asked,
         \A r \in Ref : r # Head(events).ref => (Requested(log', r) => Requested(log, r))
  PROVE  ChannelAsksNew'
<1>1. /\ Head(events) = events[1] /\ 1 \in DOMAIN events
      /\ \A i \in DOMAIN events' : i + 1 \in DOMAIN events /\ events'[i] = events[i + 1]
      /\ events \in Seq(Event)
  BY TailFacts DEF BaseInv, TypeOK
<1>2. \A i \in DOMAIN events : events[i].ref # None => events[i].ref \in Ref
  BY DEF BaseInv, ChannelInv, AgentEmits
<1>3. \A i \in DOMAIN events' : i \in Nat /\ i # 0
  BY <1>1 DEF BaseInv, TypeOK
<1>4. \A i \in DOMAIN events' : events'[i].ref # None => events'[i].ref # Head(events).ref
  BY <1>1, <1>3 DEF ChannelAsksNew
<1>5. \A i \in DOMAIN events' : events'[i].ref # None =>
        events'[i].ref \in asked' /\ ~Requested(log', events'[i].ref)
  BY <1>1, <1>2, <1>4 DEF ChannelAsksNew
<1>6. \A i, j \in DOMAIN events' :
        events'[i].ref # None /\ events'[i].ref = events'[j].ref => i = j
  BY <1>1, <1>3 DEF ChannelAsksNew
<1>. QED BY <1>5, <1>6 DEF ChannelAsksNew

\* The third layer: where a request is, action by action.
LEMMA RequestStep == BaseInv /\ RequestInv /\ [Next]_vars => RequestInv'
<1>. SUFFICES ASSUME BaseInv, RequestInv, [Next]_vars PROVE RequestInv'
  OBVIOUS
<1>0. \A r \in Ref : RequestOK(r)
  BY DEF RequestInv
<1>1. ASSUME NEW c \in Conn, NEW m \in Outbox[DeviceOf[c]], Receive(c, m)
      PROVE  RequestInv'
  <2>1. /\ log' = log /\ pending' = pending /\ events' = events /\ asked' = asked
        /\ ingest' = ingest
    BY <1>1 DEF Receive, RejectNoId, AckReplay, Accept
  <2>2. ChannelAsksNew'
    BY <2>1, ChannelFrame DEF RequestInv
  <2>3. \A r \in Ref, d \in Conn : Holds(d, r)' = Holds(d, r)
    BY <1>1 DEF Receive, RejectNoId, AckReplay, Accept, Holds, BaseInv, TypeOK,
                AnswerKind, DirectKind, RejectedKind
  <2>4. \A r \in Ref : Registering(r)' = Registering(r)
    BY <2>1 DEF Registering
  <2>5. \A r \in Ref : Active(r) => Active(r)'
    BY <2>1, <2>3, <2>4 DEF Active
  <2>6. \A r \in Ref : RequestOK(r)'
    BY <1>0, <2>1, <2>3, <2>4, <2>5, RequestFrame
  <2>. QED BY <2>2, <2>6 DEF RequestInv
<1>2. ASSUME NEW c \in Conn, Handle(c)
      PROVE  RequestInv'
  <2>1. events' = events /\ asked' = asked /\ ingest' = ingest
    BY <1>2 DEF Handle, Claim, AppendEvent, AppendFails, ClientAck, Broadcast,
                TellAgent, AgentRefuses
  <2>2. UNCHANGED log => ChannelAsksNew' /\ \A r \in Ref : Registering(r)' = Registering(r)
    BY <2>1, ChannelFrame DEF RequestInv, Registering
  <2>3. CASE Claim(c)
    <3>1. log' = log /\ pc[c] = "claim" /\ cmd[c].kind \in AnswerKind
      BY <2>3 DEF Claim, BaseInv, HandlerInv, HandlerOK
    <3>2. CASE cmd[c].ref \notin pending
      <4>1. /\ pending' = pending /\ pc'[c] = "idle"
            /\ \A d \in Conn : d # c => pc'[d] = pc[d] /\ cmd'[d] = cmd[d]
        BY <2>3, <3>2 DEF Claim, Finish, BaseInv, TypeOK
      <4>2. \A r \in Ref, d \in Conn : Holds(d, r)' = Holds(d, r)
        BY <3>1, <4>1 DEF Holds
      <4>3. \A r \in Ref : Active(r) => Active(r)'
        BY <2>2, <3>1, <4>1, <4>2 DEF Active
      <4>4. \A r \in Ref : RequestOK(r)'
        BY <1>0, <2>1, <2>2, <3>1, <4>1, <4>2, <4>3, RequestFrame
      <4>. QED BY <2>2, <3>1, <4>4 DEF RequestInv
    <3>3. CASE cmd[c].ref \in pending
      <4>1. /\ pending' = pending \ {cmd[c].ref} /\ pc'[c] = "append" /\ cmd' = cmd
            /\ \A d \in Conn : d # c => pc'[d] = pc[d]
        BY <2>3, <3>3 DEF Claim, Goto, BaseInv, TypeOK
      <4>2. ASSUME NEW r \in Ref, r # cmd[c].ref PROVE RequestOK(r)'
        <5>1. \A d \in Conn : Holds(d, r)' = Holds(d, r)
          BY <3>1, <4>1, <4>2 DEF Holds
        <5>2. Active(r) => Active(r)'
          BY <2>2, <3>1, <4>1, <4>2, <5>1 DEF Active
        <5>. QED BY <1>0, <2>1, <2>2, <3>1, <4>1, <5>1, <5>2, RequestFrame
      <4>3. ASSUME NEW r \in Ref, r = cmd[c].ref PROVE RequestOK(r)'
        <5>1. Active(r) /\ ~Registering(r) /\ \A d \in Conn : ~Holds(d, r)
          BY <1>0, <3>3, <4>3 DEF Active, RequestOK, OnePlace
        <5>2. \A d \in Conn : Holds(d, r)' <=> d = c
          BY <3>1, <4>1, <4>3, <5>1 DEF Holds
        <5>3. Active(r)'
          BY <5>2 DEF Active
        <5>4. OnePlace(r)'
          BY <2>2, <3>1, <4>1, <4>3, <5>1, <5>2 DEF OnePlace
        <5>5. LogOK(r)'
          BY <1>0, <2>1, <3>1 DEF RequestOK, LogOK, Requested
        <5>6. ActiveOK(r)'
          BY <1>0, <3>1, <5>1, <5>3 DEF RequestOK, ActiveOK, Requested, Resolved
        <5>. QED BY <5>4, <5>5, <5>6 DEF RequestOK
      <4>. QED BY <2>2, <3>1, <4>2, <4>3 DEF RequestInv
    <3>. QED BY <3>2, <3>3
  <2>4. CASE AppendEvent(c)
    <3>1. cmd[c] \in Command /\ cmd[c].kind \in AnswerKind \cup DirectKind
      BY <2>4 DEF AppendEvent, BaseInv, HandlerInv, HandlerOK
    <3>2. /\ EventOf(c) \in Event
          /\ \A r \in Ref : ~IsAsk(EventOf(c), r)
          /\ \A r \in Ref : IsResolution(EventOf(c), r) <=>
                               cmd[c].kind \in AnswerKind /\ cmd[c].ref = r
      BY <3>1, EventOfType
    <3>3. /\ pc[c] = "append" /\ pc'[c] = "ack" /\ cmd' = cmd
          /\ \A d \in Conn : d # c => pc'[d] = pc[d]
          /\ pending' = pending
          /\ log' = Append(log, EventOf(c))
      BY <2>4 DEF AppendEvent, BaseInv, TypeOK
    <3>4. \A r \in Ref : IsResolution(EventOf(c), r) <=> Holds(c, r)
      BY <3>2, <3>3 DEF Holds
    <3>5. /\ \A r \in Ref : Requested(log', r) = Requested(log, r)
          /\ \A r \in Ref : Resolved(log', r) <=> Resolved(log, r) \/ Holds(c, r)
      BY <3>2, <3>3, <3>4, RequestAppend DEF Requested
    <3>6. \A r \in Ref : Registering(r)' = Registering(r)
      BY <2>1, <3>2, <3>3, AppendKeepsBase DEF Registering, BaseInv, ChannelInv
    <3>7. \A r \in Ref, d \in Conn : Holds(d, r)' <=> Holds(d, r) /\ d # c
      BY <3>3 DEF Holds
    <3>8. ASSUME NEW r \in Ref PROVE RequestOK(r)'
      <4>1. RequestOK(r)
        BY <1>0
      <4>2. Holds(c, r) => Requested(log, r) /\ ~Resolved(log, r)
        BY <4>1 DEF RequestOK, ActiveOK, Active
      <4>3. LogOK(r)'
        BY <2>1, <3>2, <3>3, <3>4, <4>1, <4>2, LogOKAppend DEF RequestOK
      <4>4. Active(r)' <=> Active(r) /\ ~Holds(c, r)
        BY <3>3, <3>6, <3>7, <4>1 DEF Active, RequestOK, OnePlace
      <4>5. ActiveOK(r)'
        BY <3>5, <4>1, <4>2, <4>4 DEF RequestOK, ActiveOK
      <4>6. OnePlace(r)'
        BY <3>3, <3>6, <3>7, <4>1 DEF RequestOK, OnePlace
      <4>. QED BY <4>3, <4>5, <4>6 DEF RequestOK
    <3>9. ChannelAsksNew'
      BY <2>1, <3>5, ChannelFrame DEF RequestInv
    <3>. QED BY <3>8, <3>9 DEF RequestInv
  <2>5. CASE AppendFails(c)
    <3>1. /\ StoreMayFail /\ log' = log /\ pending' = pending /\ pc'[c] = "idle"
          /\ \A d \in Conn : d # c => pc'[d] = pc[d] /\ cmd'[d] = cmd[d]
      BY <2>5 DEF AppendFails, Finish, BaseInv, TypeOK
    <3>2. \A r \in Ref, d \in Conn : Holds(d, r)' => Holds(d, r)
      BY <3>1 DEF Holds
    <3>3. \A r \in Ref : RequestOK(r)'
      BY <1>0, <2>1, <2>2, <3>1, <3>2, RequestFrame
    <3>. QED BY <2>2, <3>1, <3>3 DEF RequestInv
  <2>6. CASE ClientAck(c) \/ Broadcast(c) \/ TellAgent(c) \/ AgentRefuses(c)
    <3>1. /\ log' = log /\ pending' = pending
          /\ pc[c] # "append" /\ pc'[c] # "append"
          /\ \A d \in Conn : d # c => pc'[d] = pc[d] /\ cmd'[d] = cmd[d]
      BY <2>6 DEF ClientAck, Broadcast, TellAgent, AgentRefuses, Goto, Finish, BaseInv, TypeOK
    <3>2. \A r \in Ref, d \in Conn : Holds(d, r)' = Holds(d, r)
      BY <3>1 DEF Holds
    <3>3. \A r \in Ref : Active(r) => Active(r)'
      BY <2>2, <3>1, <3>2 DEF Active
    <3>4. \A r \in Ref : RequestOK(r)'
      BY <1>0, <2>1, <2>2, <3>1, <3>2, <3>3, RequestFrame
    <3>. QED BY <2>2, <3>1, <3>4 DEF RequestInv
  <2>. QED BY <1>2, <2>3, <2>4, <2>5, <2>6 DEF Handle
<1>3. CASE (\E r \in Ref : AgentAsks(r)) \/ AgentOutput \/ UNCHANGED vars
  <2>1. /\ log' = log /\ pending' = pending /\ pc' = pc /\ cmd' = cmd /\ ingest' = ingest
        /\ asked \subseteq asked'
    BY <1>3 DEF AgentAsks, AgentOutput, vars
  <2>2. \A r \in Ref : Registering(r)' = Registering(r) /\ Active(r)' = Active(r)
    BY <2>1 DEF Registering, Active, Holds
  <2>3. \A r \in Ref, d \in Conn : Holds(d, r)' = Holds(d, r)
    BY <2>1 DEF Holds
  <2>4. \A r \in Ref : RequestOK(r)'
    BY <1>0, <2>1, <2>2, <2>3, RequestFrame
  <2>5. ChannelAsksNew'
    <3>1. ASSUME NEW r \in Ref, AgentAsks(r) PROVE ChannelAsksNew'
      <4>1. /\ AgentEvent(AskKind(r), r) \in Event
            /\ AgentEvent(AskKind(r), r).ref = r
            /\ Emit(AgentEvent(AskKind(r), r))
            /\ r \notin asked /\ r \in asked'
        BY <3>1 DEF AgentAsks, AgentEvent, Event, EventKind, AskKind
      <4>2. ~Requested(log, r)
        BY <1>0, <4>1 DEF RequestOK, LogOK
      <4>. QED BY <2>1, <4>1, <4>2, ChannelEmit DEF RequestInv
    <3>2. CASE AgentOutput
      <4>1. /\ AgentEvent("output", None) \in Event
            /\ AgentEvent("output", None).ref = None
            /\ Emit(AgentEvent("output", None))
        BY <3>2 DEF AgentOutput, AgentEvent, Event, EventKind
      <4>. QED BY <2>1, <4>1, ChannelEmit DEF RequestInv
    <3>3. CASE UNCHANGED vars
      BY <3>3, ChannelFrame DEF vars, RequestInv
    <3>. QED BY <1>3, <3>1, <3>2, <3>3
  <2>. QED BY <2>4, <2>5 DEF RequestInv
<1>4. CASE Ingest
  <2>1. pc' = pc /\ cmd' = cmd /\ asked' = asked
    BY <1>4 DEF Ingest, IngestAppend, IngestFails, IngestRegister, IngestBroadcast
  <2>2. \A r \in Ref, d \in Conn : Holds(d, r)' = Holds(d, r)
    BY <2>1 DEF Holds
  <2>3. CASE IngestAppend
    <3>1. /\ ingest.pc = "idle" /\ events # <<>> /\ pending' = pending
          /\ log' = Append(log, Head(events)) /\ events' = Tail(events)
          /\ ingest'.pc = (IF Head(events).ref = None THEN "broadcast" ELSE "register")
          /\ ingest'.seq = Len(log) + 1
      BY <2>3 DEF IngestAppend
    <3>2. /\ Head(events) \in Event /\ AgentEmits(Head(events))
          /\ Head(events) = events[1] /\ 1 \in DOMAIN events
      BY <3>1, TailFacts DEF BaseInv, TypeOK, ChannelInv
    <3>3. log'[Len(log) + 1] = Head(events)
      BY <3>1, <3>2, AppendKeepsBase
    <3>4. \A r \in Ref : /\ IsAsk(Head(events), r) <=> Head(events).ref = r
                         /\ ~IsResolution(Head(events), r)
      BY <3>2, EmittedAsks
    <3>5. \A r \in Ref : /\ Requested(log', r) <=> Requested(log, r) \/ Head(events).ref = r
                         /\ Resolved(log', r) = Resolved(log, r)
      BY <3>1, <3>2, <3>4, RequestAppend DEF Resolved
    <3>6. \A r \in Ref : /\ ~Registering(r)
                         /\ Registering(r)' <=> Head(events).ref = r
      BY <3>1, <3>3, IdAssumption DEF Registering
    <3>7. ASSUME NEW r \in Ref PROVE RequestOK(r)'
      <4>1. RequestOK(r)
        BY <1>0
      <4>2. Head(events).ref = r => r \in asked /\ ~Requested(log, r)
        BY <3>2, IdAssumption DEF RequestInv, ChannelAsksNew
      <4>3. LogOK(r)'
        BY <2>1, <3>1, <3>2, <3>4, <4>1, <4>2, LogOKAppend DEF RequestOK
      <4>4. Active(r)' <=> Active(r) \/ Head(events).ref = r
        BY <2>2, <3>1, <3>6 DEF Active
      <4>5. ~Requested(log, r) => ~Active(r) /\ ~Resolved(log, r)
        <5>1. DOMAIN log = 1 .. Len(log) /\ Len(log) \in Nat
          BY DEF BaseInv, TypeOK
        <5>2. Resolved(log, r) => Requested(log, r)
          BY <4>1, <5>1 DEF RequestOK, LogOK, Requested, Resolved
        <5>. QED BY <4>1, <5>2 DEF RequestOK, ActiveOK
      <4>6. ActiveOK(r)'
        BY <3>5, <4>1, <4>2, <4>4, <4>5 DEF RequestOK, ActiveOK
      <4>7. OnePlace(r)'
        BY <2>2, <3>1, <3>6, <4>1, <4>2, <4>5 DEF RequestOK, OnePlace, Active
      <4>. QED BY <4>3, <4>6, <4>7 DEF RequestOK
    <3>8. ChannelAsksNew'
      BY <2>1, <3>1, <3>5, ChannelTail DEF RequestInv
    <3>. QED BY <3>7, <3>8 DEF RequestInv
  <2>4. CASE IngestFails \/ IngestBroadcast
    <3>1. /\ log' = log /\ pending' = pending
          /\ ingest.pc # "register" /\ ingest'.pc # "register"
      BY <2>4 DEF IngestFails, IngestBroadcast
    <3>2. \A r \in Ref : /\ Registering(r)' = Registering(r)
                         /\ Active(r)' = Active(r)
      BY <2>2, <3>1 DEF Registering, Active
    <3>3. \A r \in Ref : RequestOK(r)'
      BY <1>0, <2>1, <2>2, <3>1, <3>2, RequestFrame
    <3>4. ChannelAsksNew'
      BY <2>1, <2>4, <3>1, ChannelTail, ChannelFrame DEF IngestFails, IngestBroadcast, RequestInv
    <3>. QED BY <3>3, <3>4 DEF RequestInv
  <2>5. CASE IngestRegister
    <3>1. /\ ingest.pc = "register" /\ ingest'.pc = "broadcast"
          /\ log' = log /\ events' = events
          /\ pending' = pending \cup {log[ingest.seq].ref}
      BY <2>5 DEF IngestRegister, BaseInv, TypeOK
    <3>2. \A r \in Ref : /\ Registering(r) <=> log[ingest.seq].ref = r
                         /\ ~Registering(r)'
      BY <3>1 DEF Registering
    <3>3. ASSUME NEW r \in Ref, r # log[ingest.seq].ref PROVE RequestOK(r)'
      <4>1. Active(r) => Active(r)'
        BY <2>2, <3>1, <3>2, <3>3 DEF Active
      <4>. QED BY <1>0, <2>1, <2>2, <3>1, <3>2, <3>3, <4>1, RequestFrame
    <3>4. ASSUME NEW r \in Ref, r = log[ingest.seq].ref PROVE RequestOK(r)'
      <4>1. RequestOK(r) /\ Registering(r) /\ Active(r) /\ Active(r)'
        BY <1>0, <3>1, <3>2, <3>4 DEF Active
      <4>2. OnePlace(r)'
        BY <2>2, <3>2, <4>1 DEF RequestOK, OnePlace
      <4>3. LogOK(r)' /\ ActiveOK(r)'
        BY <2>1, <3>1, <4>1 DEF RequestOK, LogOK, ActiveOK, Requested, Resolved
      <4>. QED BY <4>2, <4>3 DEF RequestOK
    <3>5. ChannelAsksNew'
      BY <2>1, <3>1, ChannelFrame DEF RequestInv
    <3>. QED BY <3>3, <3>4, <3>5 DEF RequestInv
  <2>. QED BY <1>4, <2>3, <2>4, <2>5 DEF Ingest
<1>. QED BY <1>1, <1>2, <1>3, <1>4 DEF Next

\* The first and third layers.
LEMMA RequestInvariant == Spec => [](BaseInv /\ RequestInv)
<1>1. Init => BaseInv /\ RequestInv
  BY BaseInit, RequestInit
<1>2. BaseInv /\ RequestInv /\ [Next]_vars => BaseInv' /\ RequestInv'
  BY BaseStep, RequestStep
<1>. QED BY <1>1, <1>2, PTL DEF Spec

\* First write wins: however many devices answer a request, and whatever
\* fails, the log resolves it at most once.
THEOREM FirstWriteWins == Spec => []FirstAnswerWins
<1>1. RequestInv => FirstAnswerWins
  BY DEF RequestInv, RequestOK, LogOK, FirstAnswerWins
<1>. QED BY <1>1, RequestInvariant, PTL

\* No answer is logged for a request the log has not shown before, though
\* clients may answer any id.
THEOREM NoAnswerOutOfThinAir == Spec => []AnswersFollowRequests
<1>1. RequestInv => AnswersFollowRequests
  BY DEF RequestInv, RequestOK, LogOK, AnswersFollowRequests
<1>. QED BY <1>1, RequestInvariant, PTL

\* h.pending and h.pendingQuestions agree with the log: a request the hub will
\* still take an answer for is one the log shows open, held in one place only,
\* and while the store does not fail every open request is held.
THEOREM PendingAgreesWithLog == Spec => []PendingMatchesLog
<1>1. ASSUME BaseInv, RequestInv PROVE PendingMatchesLog
  <2>. DEFINE claimed == {r \in Ref : \E c \in Conn : Holds(c, r)}
  <2>. DEFINE registering == {r \in Ref : Registering(r)}
  <2>. DEFINE known == pending \cup claimed \cup registering
  <2>0. /\ DOMAIN log = 1 .. Len(log) /\ Len(log) \in Nat
        /\ pending \subseteq Ref
    BY <1>1 DEF BaseInv, TypeOK
  <2>1. \A r \in Ref : RequestOK(r) /\ (r \in known <=> Active(r))
    BY <1>1 DEF RequestInv, Active
  <2>2. ASSUME NEW r \in Ref PROVE r \in Unresolved(log) <=> Requested(log, r) /\ ~Resolved(log, r)
    <3>1. ASSUME Requested(log, r), ~Resolved(log, r) PROVE r \in Unresolved(log)
      BY <3>1 DEF Requested, Resolved, Unresolved
    <3>2. ASSUME r \in Unresolved(log) PROVE Requested(log, r) /\ ~Resolved(log, r)
      <4>1. PICK i \in DOMAIN log : /\ IsAsk(log[i], r)
                                    /\ \A j \in DOMAIN log : j > i => ~IsResolution(log[j], r)
        BY <3>2 DEF Unresolved
      <4>2. ASSUME NEW j \in DOMAIN log, IsResolution(log[j], r) PROVE FALSE
        <5>1. PICK k \in 1 .. (j - 1) : IsAsk(log[k], r)
          BY <2>1, <4>2 DEF RequestOK, LogOK
        <5>2. k = i
          BY <2>0, <2>1, <4>1, <5>1 DEF RequestOK, LogOK
        <5>. QED BY <2>0, <4>1, <4>2, <5>1, <5>2
      <4>. QED BY <4>1, <4>2 DEF Requested, Resolved
    <3>. QED BY <3>1, <3>2
  <2>3. known \subseteq Unresolved(log)
    BY <2>0, <2>1, <2>2 DEF RequestOK, ActiveOK
  <2>4. ~StoreMayFail => Unresolved(log) \subseteq known
    BY <2>1, <2>2 DEF RequestOK, ActiveOK, Unresolved
  <2>5. /\ pending \cap claimed = {}
        /\ registering \cap (pending \cup claimed) = {}
        /\ \A c, d \in Conn, r \in Ref : Holds(c, r) /\ Holds(d, r) => c = d
    BY <2>1 DEF RequestOK, OnePlace
  <2>. QED BY <2>3, <2>4, <2>5 DEF PendingMatchesLog
<1>. QED BY <1>1, RequestInvariant, PTL

-----------------------------------------------------------------------------
(* Acks and the agent *)

\* The log only grows: what an event at a position says stays said.
LEMMA LogGrows ==
  ASSUME BaseInv, [Next]_vars
  PROVE  \A i \in 1 .. Len(log) : i \in 1 .. Len(log') /\ log'[i] = log[i]
<1>0. log \in Seq(Event) /\ Len(log) \in Nat
  BY DEF BaseInv, TypeOK
<1>1. CASE log' = log
  BY <1>1
<1>2. ASSUME NEW e \in Event, log' = Append(log, e)
      PROVE \A i \in 1 .. Len(log) : i \in 1 .. Len(log') /\ log'[i] = log[i]
  BY <1>0, <1>2, AppendKeepsBase
<1>3. log' = log \/ \E e \in Event : log' = Append(log, e)
  <2>1. ASSUME NEW c \in Conn, AppendEvent(c) PROVE \E e \in Event : log' = Append(log, e)
    BY <2>1, EventOfType DEF AppendEvent, BaseInv, HandlerInv, HandlerOK
  <2>2. ASSUME IngestAppend PROVE \E e \in Event : log' = Append(log, e)
    BY <2>2, TailFacts DEF IngestAppend, BaseInv, TypeOK
  <2>. QED BY <2>1, <2>2
           DEF Next, vars, Receive, RejectNoId, AckReplay, Accept, Handle, Claim,
               AppendFails, ClientAck, Broadcast, TellAgent, AgentRefuses,
               AgentAsks, AgentOutput, Ingest, IngestFails, IngestRegister, IngestBroadcast
<1>. QED BY <1>1, <1>2, <1>3

\* A reply names the log event that carries its command, or none.
LEMMA AckStep == BaseInv /\ AckNamesItsEvent /\ [Next]_vars => AckNamesItsEvent'
<1>. SUFFICES ASSUME BaseInv, AckNamesItsEvent, [Next]_vars,
                     NEW a \in replies', a.code = "ack", a.seq > 0
              PROVE  log'[a.seq].origin = <<a.device, a.key>>
  BY DEF AckNamesItsEvent
<1>1. CASE a \in replies
  <2>1. a.seq \in 1 .. Len(log)
    BY <1>1 DEF BaseInv, TypeOK
  <2>. QED BY <1>1, <2>1, LogGrows DEF AckNamesItsEvent
<1>2. CASE a \notin replies
  <2>1. PICK c \in Conn : ClientAck(c)
    <3>1. ASSUME NEW c \in Conn, NEW m \in Outbox[DeviceOf[c]], Receive(c, m) PROVE FALSE
      BY <1>2, <3>1 DEF Receive, RejectNoId, AckReplay, Accept, Reply
    <3>2. ASSUME NEW c \in Conn, Handle(c), ~ClientAck(c) PROVE FALSE
      BY <1>2, <3>2 DEF Handle, Claim, AppendEvent, AppendFails, Broadcast, TellAgent,
                        AgentRefuses, Reply
    <3>3. CASE (\E r \in Ref : AgentAsks(r)) \/ AgentOutput \/ Ingest \/ UNCHANGED vars
      BY <1>2, <3>3 DEF AgentAsks, AgentOutput, Ingest, IngestAppend, IngestFails,
                        IngestRegister, IngestBroadcast, vars
    <3>. QED BY <3>1, <3>2, <3>3 DEF Next
  <2>2. /\ pc[c] = "ack" /\ log' = log
        /\ a = [device |-> DeviceOf[c], key |-> cmd[c].key, code |-> "ack", seq |-> seq[c]]
    BY <1>2, <2>1 DEF ClientAck, Reply
  <2>3. log[seq[c]] = EventOf(c)
    BY <2>2 DEF BaseInv, HandlerInv, HandlerOK
  <2>. QED BY <2>2, <2>3 DEF EventOf, OriginOf
<1>. QED BY <1>1, <1>2

\* The seq of an ack is the seq of the very command it acknowledges.
THEOREM AcksNameTheirEvents == Spec => []AckNamesItsEvent
<1>1. Init => BaseInv /\ AckNamesItsEvent
  BY BaseInit DEF Init, AckNamesItsEvent
<1>2. BaseInv /\ AckNamesItsEvent /\ [Next]_vars => BaseInv' /\ AckNamesItsEvent'
  BY BaseStep, AckStep
<1>. QED BY <1>1, <1>2, PTL DEF Spec

\* The agent stops waiting only for what the log has resolved.
LEMMA ReleaseStep == BaseInv /\ AgentReleasedByLog /\ [Next]_vars => AgentReleasedByLog'
<1>. SUFFICES ASSUME BaseInv, AgentReleasedByLog, [Next]_vars,
                     NEW r \in asked' \ waiting'
              PROVE  Resolved(log', r)
  BY DEF AgentReleasedByLog
<1>0. DOMAIN log = 1 .. Len(log) /\ DOMAIN log' = 1 .. Len(log') /\ asked' \subseteq Ref
  BY BaseStep DEF BaseInv, TypeOK
<1>1. CASE r \in asked \ waiting
  <2>1. PICK i \in DOMAIN log : IsResolution(log[i], r)
    BY <1>1 DEF AgentReleasedByLog, Resolved
  <2>. QED BY <1>0, <2>1, LogGrows DEF Resolved
<1>2. CASE r \notin asked \ waiting
  <2>1. PICK c \in Conn : TellAgent(c) /\ cmd[c].ref = r
    <3>1. ASSUME NEW c \in Conn, TellAgent(c) PROVE cmd[c].ref = r
      BY <1>2, <3>1 DEF TellAgent
    <3>2. \E c \in Conn : TellAgent(c)
      BY <1>2 DEF Next, vars, Receive, RejectNoId, AckReplay, Accept, Handle, Claim,
               AppendEvent, AppendFails, ClientAck, Broadcast, AgentRefuses,
               AgentAsks, AgentOutput, Ingest, IngestAppend, IngestFails,
               IngestRegister, IngestBroadcast
    <3>. QED BY <3>1, <3>2
  <2>2. /\ pc[c] = "agent" /\ log' = log /\ r \in Ref
        /\ cmd[c] \in Command /\ cmd[c].kind \in AnswerKind \cup DirectKind
        /\ seq[c] \in DOMAIN log /\ log[seq[c]] = EventOf(c)
    BY <1>0, <2>1 DEF TellAgent, BaseInv, HandlerInv, HandlerOK
  <2>3. cmd[c].kind \in AnswerKind
    BY <2>1, <2>2, CommandType, IdAssumption
  <2>4. IsResolution(EventOf(c), r)
    BY <2>1, <2>2, <2>3, EventOfType
  <2>. QED BY <2>2, <2>4 DEF Resolved
<1>. QED BY <1>1, <1>2

\* The agent goes on only with a decision the log shows.
THEOREM AgentGetsTheLoggedDecision == Spec => []AgentReleasedByLog
<1>1. Init => BaseInv /\ AgentReleasedByLog
  BY BaseInit DEF Init, AgentReleasedByLog
<1>2. BaseInv /\ AgentReleasedByLog /\ [Next]_vars => BaseInv' /\ AgentReleasedByLog'
  BY BaseStep, ReleaseStep
<1>. QED BY <1>1, <1>2, PTL DEF Spec

-----------------------------------------------------------------------------
(* Refused commands *)

(***************************************************************************)
(* That a refused command has had no effect is not inductive: it must also *)
(* be known that nothing can still be done for it.  Its key is recorded,   *)
(* so a resent one is only acked, and no handler works for it.             *)
(***************************************************************************)
Settled(o) ==
  /\ o \in idempotency
  /\ \A c \in Conn : pc[c] # "idle" => OriginOf(c) # o

RefusedAreSettled ==
  \A a \in replies :
    a.key # None /\ a.code # "ack" =>
      <<a.device, a.key>> \in Origin /\ Settled(<<a.device, a.key>>)

RefusedInv == RefusedAreSettled /\ RefusedMeansNoEffect

\* A handler that moves on, or finishes, with the command it has opens nothing
\* that was settled.
LEMMA SettledFrame ==
  ASSUME NEW o, Settled(o), idempotency \subseteq idempotency',
         \A d \in Conn : pc'[d] = "idle" \/ (pc[d] # "idle" /\ cmd'[d] = cmd[d])
  PROVE  Settled(o)'
BY DEF Settled, OriginOf

\* Nothing happens any more to a key that is settled.
LEMMA SettledStays ==
  ASSUME BaseInv, KeyInv, [Next]_vars, NEW o \in Origin, Settled(o)
  PROVE  Settled(o)' /\ (Logged(o)' <=> Logged(o)) /\ (Told(o)' <=> Told(o))
<1>0. \A c \in Conn : pc[c] # "idle" =>
        OriginOf(c) \in Origin /\ EventOf(c) \in Event /\ EventOf(c).origin = OriginOf(c)
  BY EventOfType DEF BaseInv, HandlerInv, HandlerOK
<1>1. ASSUME log' = log, inbox' = inbox, Settled(o)'
      PROVE  Settled(o)' /\ (Logged(o)' <=> Logged(o)) /\ (Told(o)' <=> Told(o))
  BY <1>1 DEF Logged, Told
<1>2. ASSUME NEW c \in Conn, NEW m \in Outbox[DeviceOf[c]], Receive(c, m)
      PROVE  log' = log /\ inbox' = inbox /\ Settled(o)'
  <2>1. CASE RejectNoId(c, m) \/ AckReplay(c, m)
    BY <2>1, SettledFrame DEF RejectNoId, AckReplay
  <2>2. CASE Accept(c, m)
    <3>1. CASE UNCHANGED <<pc, cmd>>
      BY <2>2, <3>1, SettledFrame DEF Accept
    <3>2. CASE m.kind \in AnswerKind \cup DirectKind
      <4>1. /\ cmd'[c] = m
            /\ \A d \in Conn : d # c => pc'[d] = pc[d] /\ cmd'[d] = cmd[d]
            /\ log' = log /\ inbox' = inbox
            /\ idempotency \subseteq idempotency'
            /\ <<DeviceOf[c], m.key>> \notin idempotency
        BY <2>2, <3>2 DEF Accept, BaseInv, TypeOK, RejectedKind, AnswerKind, DirectKind
      <4>2. OriginOf(c)' # o
        BY <4>1 DEF OriginOf, Settled
      <4>. QED BY <4>1, <4>2 DEF OriginOf, Settled
    <3>. QED BY <2>2, <3>1, <3>2 DEF Accept
  <2>. QED BY <1>2, <2>1, <2>2 DEF Receive
<1>3. ASSUME NEW c \in Conn, Handle(c)
      PROVE  Settled(o)' /\ (Logged(o)' <=> Logged(o)) /\ (Told(o)' <=> Told(o))
  <2>1. Settled(o)'
    BY <1>3, SettledFrame
       DEF Handle, Claim, AppendEvent, AppendFails, ClientAck, Broadcast, TellAgent,
           AgentRefuses, Goto, Finish, BaseInv, TypeOK
  <2>2. CASE AppendEvent(c)
    <3>1. pc[c] # "idle" /\ log' = Append(log, EventOf(c)) /\ inbox' = inbox
      BY <2>2 DEF AppendEvent
    <3>2. Logged(o)' <=> Logged(o) \/ OriginOf(c) = o
      BY <1>0, <3>1, LoggedAppend
    <3>. QED BY <2>1, <3>1, <3>2 DEF Settled, Told
  <2>3. CASE TellAgent(c)
    <3>1. pc[c] # "idle" /\ inbox' = Append(inbox, OriginOf(c)) /\ log' = log
      BY <2>3 DEF TellAgent
    <3>2. Told(o)' <=> Told(o) \/ OriginOf(c) = o
      BY <1>0, <3>1, ToldAppend
    <3>. QED BY <2>1, <3>1, <3>2 DEF Settled, Logged
  <2>4. CASE Claim(c) \/ AppendFails(c) \/ ClientAck(c) \/ Broadcast(c) \/ AgentRefuses(c)
    BY <1>1, <2>1, <2>4 DEF Claim, AppendFails, ClientAck, Broadcast, AgentRefuses
  <2>. QED BY <1>3, <2>2, <2>3, <2>4 DEF Handle
<1>4. CASE (\E r \in Ref : AgentAsks(r)) \/ AgentOutput \/ UNCHANGED vars
  BY <1>1, <1>4, SettledFrame DEF AgentAsks, AgentOutput, vars
<1>5. CASE Ingest
  <2>1. Settled(o)'
    BY <1>5, SettledFrame DEF Ingest, IngestAppend, IngestFails, IngestRegister, IngestBroadcast
  <2>2. CASE IngestAppend
    <3>1. /\ log' = Append(log, Head(events)) /\ inbox' = inbox
          /\ Head(events) \in Event /\ Head(events).origin = None
      BY <2>2, TailFacts DEF IngestAppend, BaseInv, TypeOK, ChannelInv, AgentEmits
    <3>2. Logged(o)' <=> Logged(o) \/ None = o
      BY <3>1, LoggedAppend
    <3>. QED BY <2>1, <3>1, <3>2, IdAssumption DEF Told
  <2>. QED BY <1>1, <1>5, <2>1, <2>2 DEF Ingest, IngestFails, IngestRegister, IngestBroadcast
<1>. QED BY <1>1, <1>2, <1>3, <1>4, <1>5 DEF Next

\* A reply that is new and no ack is about a key that is settled from then on,
\* and that has had the effect the reply says.
LEMMA NewRefusal ==
  ASSUME BaseInv, KeyInv, [Next]_vars, NEW a \in replies', a \notin replies,
         a.key # None, a.code # "ack", NEW o, o = <<a.device, a.key>>
  PROVE  /\ o \in Origin /\ Settled(o)'
         /\ Told(o)' = Told(o) /\ ~Told(o)
         /\ Logged(o)' = Logged(o)
         /\ Logged(o) <=> a.code = "agent_error"
<1>1. ASSUME NEW c \in Conn, NEW m \in Outbox[DeviceOf[c]], Accept(c, m), m.kind \in RejectedKind
      PROVE  /\ o \in Origin /\ Settled(o)' /\ log' = log /\ inbox' = inbox
             /\ ~Told(o) /\ ~Logged(o) /\ a.code # "agent_error"
  <2>1. /\ a.code \in {"bad_request", "unsupported_command"}
        /\ a.device = DeviceOf[c] /\ a.key = m.key
        /\ pc' = pc /\ cmd' = cmd /\ log' = log /\ inbox' = inbox
        /\ o \notin idempotency /\ o \in idempotency'
    BY <1>1 DEF Accept, Reply, RejectedKind, AnswerKind, DirectKind
  <2>2. o \in Origin
    BY <2>1, CommandType, ConnAssumption DEF Command, CommandShape, Origin
  <2>3. ~Logged(o) /\ ~Told(o)
    BY <2>1, <2>2 DEF KeyInv, LoggedKeysRecorded, ExactlyOnce, Told
  <2>4. Settled(o)'
    BY <2>1 DEF Settled, OriginOf, KeyInv, BusyKeysRecorded
  <2>. QED BY <2>1, <2>2, <2>3, <2>4
<1>2. ASSUME NEW c \in Conn, Claim(c) \/ AppendFails(c) \/ AgentRefuses(c)
      PROVE  /\ o \in Origin /\ Settled(o)' /\ log' = log /\ inbox' = inbox
             /\ ~Told(o) /\ (Logged(o) <=> a.code = "agent_error")
  <2>1. /\ a.device = DeviceOf[c] /\ a.key = cmd[c].key
        /\ \/ pc[c] \in {"claim", "append"} /\ a.code # "agent_error"
           \/ pc[c] = "agent" /\ a.code = "agent_error"
        /\ pc'[c] = "idle"
        /\ \A d \in Conn : d # c => pc'[d] = pc[d] /\ cmd'[d] = cmd[d]
        /\ log' = log /\ inbox' = inbox /\ idempotency' = idempotency
    BY <1>2 DEF Claim, AppendFails, AgentRefuses, Reply, Finish, BaseInv, TypeOK
  <2>2. pc[c] # "idle" /\ o = OriginOf(c)
    BY <2>1 DEF OriginOf
  <2>3. o \in Origin
    BY <2>2, EventOfType DEF BaseInv, HandlerInv, HandlerOK
  <2>4. Settled(o)'
    BY <2>1, <2>2 DEF Settled, OriginOf, KeyInv, BusyKeysRecorded, OneHandlerPerKey
  <2>5. ~Told(o)
    BY <2>2 DEF KeyInv, BusyKeysRecorded
  <2>6. CASE pc[c] \in {"claim", "append"}
    BY <2>1, <2>2, <2>3, <2>4, <2>5, <2>6 DEF KeyInv, UnappendedNotLogged
  <2>7. CASE pc[c] = "agent"
    <3>1. HandlerOK(c) /\ EventOf(c).origin = o /\ log \in Seq(Event)
      BY <2>2 DEF BaseInv, TypeOK, HandlerInv, EventOf
    <3>2. seq[c] \in DOMAIN log /\ log[seq[c]].origin = o
      BY <2>7, <3>1 DEF HandlerOK
    <3>. QED BY <2>1, <2>3, <2>4, <2>5, <2>7, <3>2 DEF Logged
  <2>. QED BY <2>1, <2>6, <2>7
<1>3. \/ \E c \in Conn : \E m \in Outbox[DeviceOf[c]] : Accept(c, m) /\ m.kind \in RejectedKind
      \/ \E c \in Conn : Claim(c) \/ AppendFails(c) \/ AgentRefuses(c)
  <2>1. ASSUME NEW c \in Conn, NEW m \in Outbox[DeviceOf[c]], Receive(c, m)
        PROVE  Accept(c, m) /\ m.kind \in RejectedKind
    BY <2>1 DEF Receive, RejectNoId, AckReplay, Accept, Reply
  <2>2. ASSUME NEW c \in Conn, Handle(c)
        PROVE  Claim(c) \/ AppendFails(c) \/ AgentRefuses(c)
    BY <2>2 DEF Handle, AppendEvent, ClientAck, Broadcast, TellAgent, Reply
  <2>3. CASE (\E r \in Ref : AgentAsks(r)) \/ AgentOutput \/ Ingest \/ UNCHANGED vars
    BY <2>3 DEF AgentAsks, AgentOutput, Ingest, IngestAppend, IngestFails,
                IngestRegister, IngestBroadcast, vars
  <2>. QED BY <2>1, <2>2, <2>3 DEF Next
<1>. QED BY <1>1, <1>2, <1>3 DEF Logged, Told

\* Nobody works for the key of a refused command, now or later.
LEMMA RefusedStep ==
  BaseInv /\ KeyInv /\ RefusedInv /\ [Next]_vars => RefusedInv'
<1>. SUFFICES ASSUME BaseInv, KeyInv, RefusedInv, [Next]_vars,
                     NEW a \in replies', a.key # None, a.code # "ack",
                     NEW o, o = <<a.device, a.key>>
              PROVE  /\ o \in Origin /\ Settled(o)'
                     /\ ~Told(o)'
                     /\ Logged(o)' <=> a.code = "agent_error"
  BY DEF RefusedInv, RefusedAreSettled, RefusedMeansNoEffect
<1>1. CASE a \in replies
  <2>1. /\ o \in Origin /\ Settled(o) /\ ~Told(o)
        /\ Logged(o) <=> a.code = "agent_error"
    BY <1>1 DEF RefusedInv, RefusedAreSettled, RefusedMeansNoEffect
  <2>. QED BY <2>1, SettledStays
<1>2. CASE a \notin replies
  BY <1>2, NewRefusal
<1>. QED BY <1>1, <1>2

\* A command that was answered with an error has no event and is not told to
\* the agent, except that one the agent itself refused has its event; and no
\* resend ever changes that.
THEOREM RefusalsHaveNoEffect == Spec => []RefusedMeansNoEffect
<1>1. Init => BaseInv /\ KeyInv /\ RefusedInv
  BY BaseInit, KeyInit DEF Init, RefusedInv, RefusedAreSettled, RefusedMeansNoEffect
<1>2. BaseInv /\ KeyInv /\ RefusedInv /\ [Next]_vars => BaseInv' /\ KeyInv' /\ RefusedInv'
  BY BaseStep, KeyStep, RefusedStep
<1>3. RefusedInv => RefusedMeansNoEffect
  BY DEF RefusedInv
<1>. QED BY <1>1, <1>2, <1>3, PTL DEF Spec
=============================================================================
