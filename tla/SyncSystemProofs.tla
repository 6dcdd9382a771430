-------------------------- MODULE SyncSystemProofs --------------------------
(***************************************************************************)
(* Theorems about SyncSystem, for any number of connections, writers and   *)
(* sessions, any events and any length of queue; the second half, from the *)
(* refinement's callbacks on, is about a client with one socket at a time. *)
(***************************************************************************)
EXTENDS SyncSystem, SessionLogProofs

-----------------------------------------------------------------------------
(* The callbacks of the client *)

SessionStates ==
  [id : 0 .. MaxSession, lastSeq : 0 .. MaxLog, tipSeq : 0 .. MaxLog,
   view : View, transcript : Seq(ProperEvent)]

Clients ==
  [session : SessionStates,
   phase : {"idle", "connecting", "reconnecting", "syncing", "live"},
   gapSeq : 0 .. MaxLog, gapCount : 0 .. 2, fullResync : BOOLEAN,
   closedByUser : BOOLEAN, timer : BOOLEAN, socket : Conn \cup {None}]

\* What each callback makes of a client, field by field; first the start.
LEMMA NewClientFacts == NewClient \in Clients /\ NewSessionState \in SessionStates
BY StreamBounds, ValueAssumption
   DEF NewClient, NewSessionState, Clients, SessionStates, EmptyView, View, NoSession

\* openNormalSocket: a new current socket; the session may be forgotten.
LEMMA OpenFacts ==
  ASSUME NEW cl \in Clients, NEW c \in Conn
  PROVE  LET r == OpenNormalSocket(cl, c)
         IN  /\ r \in Clients
             /\ r.socket = c /\ r.timer = cl.timer
             /\ r.session \in {cl.session, NewSessionState}
             /\ r.phase \in {"connecting", "reconnecting"}
BY NewClientFacts DEF OpenNormalSocket, Clients

\* connect: the same, and the timer is cleared.
LEMMA ConnectFacts ==
  ASSUME NEW cl \in Clients, NEW c \in Conn
  PROVE  LET r == Connect(cl, c)
         IN  /\ r \in Clients
             /\ r.socket = c /\ r.timer = FALSE
             /\ r.session \in {cl.session, NewSessionState}
             /\ r.phase \in {"connecting", "reconnecting"}
<1> DEFINE told == [cl EXCEPT !.closedByUser = FALSE, !.gapCount = 0, !.timer = FALSE]
<1>1. told.session = cl.session /\ told.timer = FALSE
  BY DEF Clients
<1>2. 0 \in 0 .. 2
  OBVIOUS
<1>3. told \in Clients
  BY <1>2, Zenon DEF Clients
<1> HIDE DEF told
<1>4. Connect(cl, c) = OpenNormalSocket(told, c)
  BY DEF Connect, told
<1> QED BY <1>1, <1>3, <1>4, OpenFacts

\* scheduleReconnect: the socket and the session stay.
LEMMA ScheduleFacts ==
  ASSUME NEW cl \in Clients
  PROVE  LET r == ScheduleReconnect(cl)
         IN  /\ r \in Clients
             /\ r.socket = cl.socket
             /\ r.session = cl.session
             /\ r.phase \in {cl.phase, "reconnecting"}
BY DEF ScheduleReconnect, Clients

\* A gap closes the current socket and keeps the session.
LEMMA GapFacts ==
  ASSUME NEW cl \in Clients, NEW seq \in 0 .. MaxLog
  PROVE  LET r == NoteGap(cl, seq)
         IN  /\ r \in Clients
             /\ r.socket = None
             /\ r.session = cl.session
             /\ r.phase \in {cl.phase, "reconnecting"}
<1> DEFINE count == IF cl.gapSeq = seq THEN cl.gapCount + 1 ELSE 1
           again == count >= 3
           gapSeq == IF again THEN 0 ELSE seq
           gapCount == IF again THEN 0 ELSE count
           resync == cl.fullResync \/ again
           told == [cl EXCEPT !.gapSeq = gapSeq, !.gapCount = gapCount,
                              !.fullResync = resync, !.socket = None]
<1>1. gapSeq \in 0 .. MaxLog /\ gapCount \in 0 .. 2 /\ resync \in BOOLEAN
  BY StreamBounds DEF Clients
<1>2. NoteGap(cl, seq) = ScheduleReconnect(told)
  BY DEF NoteGap
<1> HIDE DEF gapSeq, gapCount, resync
<1>3. told \in Clients
  BY <1>1, Zenon DEF Clients
<1>4. told.session = cl.session /\ told.socket = None /\ told.phase = cl.phase
  BY DEF Clients
<1> HIDE DEF told
<1> QED BY <1>2, <1>3, <1>4, ScheduleFacts

\* close: no socket and no timer, and the session stays.
LEMMA CloseFacts ==
  ASSUME NEW cl \in Clients
  PROVE  LET r == UserClose(cl)
         IN  /\ r \in Clients
             /\ r.socket = None /\ r.timer = FALSE
             /\ r.session = cl.session
             /\ r.phase = "idle"
BY DEF UserClose, Clients

\* A snapshot sets session, tip and view; what is shown stays or is cleared.
LEMMA SnapshotFacts ==
  ASSUME NEW cl \in Clients, NEW id \in 1 .. MaxSession, NEW tip \in 0 .. MaxLog,
         NEW view \in View
  PROVE  LET r == HandleSnapshot(cl, id, tip, view)
             kept == cl.session.id \in {NoSession, id}
         IN  /\ r \in Clients
             /\ r.socket = cl.socket /\ r.timer = cl.timer
             /\ r.session.id = id
             /\ r.session.tipSeq = tip
             /\ r.session.view = view
             /\ kept => /\ r.session.lastSeq = cl.session.lastSeq
                        /\ r.session.transcript = cl.session.transcript
             /\ ~kept => r.session.lastSeq = 0 /\ r.session.transcript = <<>>
             /\ r.phase \in {"syncing", "live"}
             /\ r.phase = "live" <=> r.session.lastSeq >= r.session.tipSeq
<1> DEFINE old == cl.session
           base == IF old.id # NoSession /\ old.id # id THEN NewSessionState ELSE old
           s == [base EXCEPT !.id = id, !.tipSeq = tip, !.view = view]
<1>1. /\ base \in SessionStates
      /\ old.id \in {NoSession, id} => base = old
      /\ old.id \notin {NoSession, id} => base = NewSessionState
  BY NewClientFacts DEF Clients
<1>2. NewSessionState.lastSeq = 0 /\ NewSessionState.transcript = <<>>
  BY DEF NewSessionState
<1>3. HandleSnapshot(cl, id, tip, view) =
        [cl EXCEPT !.session = s, !.phase = IF AtTip(s) THEN "live" ELSE "syncing"]
  BY DEF HandleSnapshot, ApplySnapshot
<1> HIDE DEF base
<1>4. /\ s.id = id /\ s.tipSeq = tip /\ s.view = view
      /\ s.lastSeq = base.lastSeq /\ s.transcript = base.transcript
  BY <1>1 DEF SessionStates
<1>6. id \in 0 .. MaxSession
  BY StreamBounds
<1>7. s \in SessionStates
  BY <1>1, <1>6, Zenon DEF SessionStates
<1> HIDE DEF s, old
<1>5. /\ old.id \in {NoSession, id} =>
           s.lastSeq = old.lastSeq /\ s.transcript = old.transcript
      /\ old.id \notin {NoSession, id} => s.lastSeq = 0 /\ s.transcript = <<>>
  BY <1>1, <1>2, <1>4
<1> DEFINE phase == IF AtTip(s) THEN "live" ELSE "syncing"
           r == [cl EXCEPT !.session = s, !.phase = phase]
<1>8. phase \in {"syncing", "live"} /\ (phase = "live" <=> s.lastSeq >= s.tipSeq)
  BY DEF AtTip
<1>9. HandleSnapshot(cl, id, tip, view) = r
  BY <1>3
<1> HIDE DEF phase
<1>10. r \in Clients
  BY <1>7, <1>8, Zenon DEF Clients
<1>11. r.socket = cl.socket /\ r.timer = cl.timer /\ r.session = s /\ r.phase = phase
  BY DEF Clients
<1> HIDE DEF r
<1> QED BY <1>4, <1>5, <1>8, <1>9, <1>10, <1>11 DEF old

\* The next event is appended, and the view is that much further.
LEMMA NextFacts ==
  ASSUME NEW cl \in Clients, NEW seq \in 0 .. MaxLog, NEW ev \in ProperEvent
  PROVE  LET r == HandleNext(cl, seq, ev)
         IN  /\ r \in Clients
             /\ r.socket = cl.socket /\ r.timer = cl.timer
             /\ r.session.id = cl.session.id
             /\ r.session.tipSeq = cl.session.tipSeq
             /\ r.session.view = Materialize(cl.session.view, ev)
             /\ r.session.lastSeq = seq
             /\ r.session.transcript = Append(cl.session.transcript, ev)
             /\ r.phase \in {cl.phase, "live"}
             /\ r.phase = "live" =>
                  cl.phase = "live" \/ r.session.lastSeq >= r.session.tipSeq
<1> DEFINE old == cl.session
           view == Materialize(old.view, ev)
           transcript == Append(old.transcript, ev)
           s == [old EXCEPT !.lastSeq = seq, !.view = view, !.transcript = transcript]
<1>1. old \in SessionStates /\ view \in View /\ transcript \in Seq(ProperEvent)
  <2>1. old \in SessionStates
    BY DEF Clients
  <2>2. old.view \in View /\ old.transcript \in Seq(ProperEvent)
    BY <2>1 DEF SessionStates
  <2> QED BY <2>1, <2>2, MaterializeType
<1>2. HandleNext(cl, seq, ev) =
        [cl EXCEPT !.session = s, !.gapSeq = 0, !.gapCount = 0,
                   !.phase = IF AtTip(s) THEN "live" ELSE @]
  BY DEF HandleNext, ApplyEvent
<1> HIDE DEF view, transcript
<1>3. /\ s.id = old.id /\ s.tipSeq = old.tipSeq
      /\ s.view = view /\ s.lastSeq = seq /\ s.transcript = transcript
  BY <1>1 DEF SessionStates
<1>4. s \in SessionStates
  BY <1>1, Zenon DEF SessionStates
<1> HIDE DEF s
<1> DEFINE phase == IF AtTip(s) THEN "live" ELSE cl.phase
           r == [cl EXCEPT !.session = s, !.gapSeq = 0, !.gapCount = 0, !.phase = phase]
<1>5. /\ phase \in {cl.phase, "live"}
      /\ phase \in {"idle", "connecting", "reconnecting", "syncing", "live"}
      /\ phase = "live" => cl.phase = "live" \/ s.lastSeq >= s.tipSeq
  BY DEF AtTip, Clients
<1>6. HandleNext(cl, seq, ev) = r
  BY <1>2 DEF Clients
<1>7. 0 \in 0 .. MaxLog /\ 0 \in 0 .. 2
  BY StreamBounds
<1> HIDE DEF phase
<1>8. r \in Clients
  BY <1>4, <1>5, <1>7, Zenon DEF Clients
<1>9. r.socket = cl.socket /\ r.timer = cl.timer /\ r.session = s /\ r.phase = phase
  BY DEF Clients
<1> HIDE DEF r
<1> QED BY <1>3, <1>5, <1>6, <1>8, <1>9 DEF view, transcript, old

-----------------------------------------------------------------------------
(* Type correctness *)

\* A frame is about a session there is, and a seq its log has.
Existing(f) ==
  /\ f.session \in 1 .. Len(logs)
  /\ f.seq \in 0 .. Len(logs[f.session])
  /\ f.type = "event" => f.seq # 0

GoodFrame == {f \in Frame : Existing(f)}

LogsInv ==
  /\ logs \in Seq(Seq(ProperEvent))
  /\ Len(logs) \in 1 .. MaxSession
  /\ \A s \in 1 .. Len(logs) : Len(logs[s]) \in 0 .. MaxLog

WriterStates == [pc : {"idle", "copy", "send"}, seq : 0 .. MaxLog, to : SUBSET Conn]

WriterInv ==
  /\ writer \in [Writer -> WriterStates]
  /\ \A w \in Writer : writer[w].pc # "idle" => writer[w].seq \in 1 .. Len(Log)

FrameInv ==
  /\ rest \in [Conn -> Seq(GoodFrame)]
  /\ queue \in [Conn -> Seq(GoodFrame)]
  /\ wire \in [Conn -> Seq(GoodFrame)]

\* A connection that is being brought up to date has something left to send.
RestInv ==
  \A c \in Conn : hub[c] \in {"snapped", "fetched", "enqueueing"} => rest[c] # <<>>

PlaceInv ==
  /\ hub \in [Conn -> {"none", "hello", "snapped", "fetched", "enqueueing", "serving"}]
  /\ since \in [Conn -> 0 .. MaxLog]
  /\ overflow \in [Conn -> BOOLEAN]
  /\ link \in [Conn -> {"up", "shut", "down"}]
  /\ missed \in [Conn -> SUBSET (1 .. MaxLog)]
  /\ sock \in [Conn -> {"free", "dialing", "open", "closing"}]
  /\ drops \in 0 .. MaxDrops

TypeInv ==
  LogsInv /\ WriterInv /\ FrameInv /\ RestInv /\ PlaceInv /\ client \in Clients

\* The invariant has the types among its parts.
LEMMA TypeInvIsTyped == TypeInv => TypeOK
<1> SUFFICES ASSUME TypeInv PROVE TypeOK
  OBVIOUS
<1>1. Seq(GoodFrame) \subseteq Seq(Frame) /\ Seq(ProperEvent) \subseteq Seq(Event)
      /\ Seq(Seq(ProperEvent)) \subseteq Seq(Seq(Event))
  <2>1. GoodFrame \subseteq Frame /\ ProperEvent \subseteq Event
    BY DEF GoodFrame, ProperEvent
  <2>2. \A S, T : S \subseteq T => Seq(S) \subseteq Seq(T)
    OBVIOUS
  <2> QED BY <2>1, <2>2, Zenon
<1>2. client \in
       [session : [id : 0 .. MaxSession, lastSeq : 0 .. MaxLog, tipSeq : 0 .. MaxLog,
                   view : View, transcript : Seq(Event)],
        phase : {"idle", "connecting", "reconnecting", "syncing", "live"},
        gapSeq : 0 .. MaxLog, gapCount : 0 .. 2, fullResync : BOOLEAN,
        closedByUser : BOOLEAN, timer : BOOLEAN, socket : Conn \cup {None}]
  BY <1>1, Zenon DEF TypeInv, Clients, SessionStates
<1>3. logs \in Seq(Seq(Event)) /\ Len(logs) \in 1 .. MaxSession
  BY <1>1, Zenon DEF TypeInv, LogsInv
<1>4. /\ rest \in [Conn -> Seq(Frame)]
      /\ queue \in [Conn -> Seq(Frame)]
      /\ wire \in [Conn -> Seq(Frame)]
  BY <1>1, Zenon DEF TypeInv, FrameInv
<1> QED BY <1>2, <1>3, <1>4, Zenon DEF TypeInv, WriterInv, WriterStates, PlaceInv, TypeOK

\* The logs of the next state extend those of this one.
Extends ==
  /\ Len(logs) <= Len(logs')
  /\ \A s \in 1 .. Len(logs) :
       /\ Len(logs[s]) <= Len(logs'[s])
       /\ \A i \in 1 .. Len(logs[s]) : logs'[s][i] = logs[s][i]

\* Logs left alone are extended by nothing.
LEMMA UnchangedLogs ==
  ASSUME LogsInv, UNCHANGED logs
  PROVE  LogsInv' /\ Extends
<1>1. \A s \in 1 .. Len(logs) : Len(logs[s]) \in Nat
  BY DEF LogsInv
<1> QED BY <1>1 DEF LogsInv, Extends

\* An append adds one event to the current log, and to no other.
LEMMA AppendToLogs ==
  ASSUME LogsInv, NEW w \in Writer, NEW ev \in ProperEvent, AppendEvent(w, ev)
  PROVE  /\ LogsInv' /\ Extends
         /\ Len(logs') = Len(logs)
         /\ \A s \in 1 .. Len(logs) : s # Len(logs) => logs'[s] = logs[s]
         /\ Len(Log') = Len(Log) + 1
         /\ Log'[Len(Log) + 1] = ev
<1>1. Len(logs) \in 1 .. Len(logs) /\ Log \in Seq(ProperEvent)
  BY DEF LogsInv, Log, Session
<1>2. /\ logs' \in Seq(Seq(ProperEvent)) /\ Len(logs') = Len(logs)
      /\ logs'[Len(logs)] = Append(Log, ev)
      /\ \A s \in 1 .. Len(logs) : s # Len(logs) => logs'[s] = logs[s]
  BY <1>1 DEF LogsInv, AppendEvent, Log, Session
<1>3. /\ Append(Log, ev) \in Seq(ProperEvent)
      /\ Len(Append(Log, ev)) = Len(Log) + 1
      /\ \A i \in 1 .. Len(Log) : Append(Log, ev)[i] = Log[i]
      /\ Append(Log, ev)[Len(Log) + 1] = ev
  BY <1>1
<1>4. Len(Log) \in Nat /\ Len(Log) + 1 <= MaxLog
  BY <1>1, StreamBounds DEF AppendEvent
<1>5. Log' = Append(Log, ev)
  BY <1>2 DEF Log, Session
<1>6. ASSUME NEW s \in 1 .. Len(logs)
      PROVE  /\ Len(logs'[s]) \in 0 .. MaxLog
             /\ Len(logs[s]) <= Len(logs'[s])
             /\ \A i \in 1 .. Len(logs[s]) : logs'[s][i] = logs[s][i]
  <2>1. CASE s = Len(logs)
    <3>1. logs[s] = Log /\ logs'[s] = Append(Log, ev)
      BY <2>1, <1>2 DEF Log, Session
    <3>2. Len(logs'[s]) = Len(Log) + 1
      BY <3>1, <1>3
    <3> QED BY <3>1, <3>2, <1>3, <1>4, StreamBounds
  <2>2. CASE s # Len(logs)
    BY <2>2, <1>2, StreamBounds DEF LogsInv
  <2> QED BY <2>1, <2>2
<1>7. LogsInv' /\ Extends
  BY <1>2, <1>6 DEF LogsInv, Extends
<1> QED BY <1>2, <1>3, <1>5, <1>7

\* A restart adds an empty log.
LEMMA RestartLogs ==
  ASSUME LogsInv, Restart
  PROVE  /\ LogsInv' /\ Extends
         /\ Len(logs') = Len(logs) + 1
         /\ \A s \in 1 .. Len(logs) : logs'[s] = logs[s]
         /\ Log' = <<>>
<1>1. <<>> \in Seq(ProperEvent) /\ Len(<<>>) = 0
  OBVIOUS
<1>2. /\ logs' \in Seq(Seq(ProperEvent)) /\ Len(logs') = Len(logs) + 1
      /\ \A s \in 1 .. Len(logs) : logs'[s] = logs[s]
      /\ logs'[Len(logs) + 1] = <<>>
  BY <1>1 DEF LogsInv, Restart
<1>3. \A s \in 1 .. Len(logs) : Len(logs[s]) \in Nat
  BY DEF LogsInv
<1>4. LogsInv'
  BY <1>1, <1>2, StreamBounds DEF LogsInv, Restart, Session
<1>5. Log' = <<>>
  BY <1>2 DEF Log, Session
<1> QED BY <1>2, <1>3, <1>4, <1>5 DEF Extends

\* A frame that exists goes on to exist.
LEMMA FramesStay ==
  ASSUME Extends
  PROVE  GoodFrame \subseteq GoodFrame' /\ Seq(GoodFrame) \subseteq Seq(GoodFrame')
<1>1. GoodFrame \subseteq GoodFrame'
  BY DEF GoodFrame, Existing, Extends, Frame
<1> QED BY <1>1

\* Every step extends the logs.
LEMMA LogsStep ==
  ASSUME TypeInv, [Next]_vars
  PROVE  LogsInv' /\ Extends
<1>1. LogsInv
  BY DEF TypeInv
<1>2. ASSUME NEW w \in Writer, Append_(w) PROVE LogsInv' /\ Extends
  <2>1. PICK ev \in WriterEvents[w] : AppendEvent(w, ev)
    BY <1>2 DEF Append_
  <2>2. ev \in ProperEvent
    BY WriterAssumption
  <2> QED BY <1>1, <2>1, <2>2, AppendToLogs
<1>3. CASE Restart
  BY <1>1, <1>3, RestartLogs
<1>4. CASE UNCHANGED logs
  BY <1>1, <1>4, UnchangedLogs
<1>5. (\E w \in Writer : Append_(w)) \/ Restart \/ UNCHANGED logs
  <2>1. CASE UNCHANGED vars
    BY <2>1 DEF vars, hubVars
  <2>2. CASE \E w \in Writer : Append_(w) \/ WriterStep(w)
    BY <2>2 DEF WriterStep, CopyClients, EnqueueTo
  <2>3. CASE \E c \in Conn : ServeStep(c) \/ WriteStep(c)
    BY <2>3 DEF ServeStep, GetSnapshot, GetEventsSince, Register, EnqueueRest, Unregister,
                WriteStep, WriteFrame, CloseOverflown
  <2>4. CASE CloseCalled
    BY <2>4 DEF CloseCalled
  <2>5. CASE \E c \in Conn : ConnectCalled(c) \/ ReconnectTimer(c) \/ OnOpen(c) \/ OnClose(c)
    BY <2>5 DEF ConnectCalled, ReconnectTimer, Open, OnOpen, ReadHello, OnClose, hubVars
  <2>6. CASE \E c \in Conn : OnSnapshot(c) \/ OnEvent(c) \/ OnGap(c) \/ ConnectionLost(c)
    BY <2>6 DEF OnSnapshot, OnEvent, OnGap, ConnectionLost, hubVars
  <2> QED BY <2>1, <2>2, <2>3, <2>4, <2>5, <2>6 DEF Next
<1> QED BY <1>2, <1>3, <1>4, <1>5

\* Frames that nobody touched stay good in longer logs.
LEMMA FramesUntouched ==
  ASSUME FrameInv, Extends, UNCHANGED <<rest, queue, wire>>
  PROVE  FrameInv'
BY FramesStay DEF FrameInv

\* Which frames are good is a matter of the logs alone.
LEMMA GoodNow ==
  ASSUME LogsInv, UNCHANGED logs
  PROVE  GoodFrame' = GoodFrame
BY DEF GoodFrame, Existing

\* A good frame put on a queue leaves a queue of good frames.
LEMMA EnqueueType ==
  ASSUME FrameInv, NEW c \in Conn, NEW f \in GoodFrame, Enqueue(c, f)
  PROVE  queue' \in [Conn -> Seq(GoodFrame)]
<1>1. queue' = queue \/ queue' = [queue EXCEPT ![c] = Append(queue[c], f)]
  BY DEF Enqueue
<1>2. queue[c] \in Seq(GoodFrame)
  BY DEF FrameInv
<1>3. Append(queue[c], f) \in Seq(GoodFrame)
  BY <1>2, AppendFacts
<1> QED BY <1>1, <1>3 DEF FrameInv

\* What the hub writes about its current session are good frames.
LEMMA FrameTypes ==
  ASSUME LogsInv
  PROVE  /\ SnapshotFrame(Session, Len(Log)) \in GoodFrame
         /\ \A n \in 1 .. Len(Log) : EventFrame(Session, n) \in GoodFrame
<1>1. Session \in 1 .. MaxSession /\ Session \in 1 .. Len(logs)
      /\ Len(Log) \in 0 .. MaxLog /\ Len(logs[Session]) = Len(Log)
  BY DEF LogsInv, Session, Log
<1>2. SnapshotFrame(Session, Len(Log)) \in GoodFrame
  BY <1>1 DEF SnapshotFrame, GoodFrame, Frame, Existing
<1>3. ASSUME NEW n \in 1 .. Len(Log) PROVE EventFrame(Session, n) \in GoodFrame
  <2>1. n \in 0 .. MaxLog /\ n \in 0 .. Len(Log) /\ n # 0
    BY <1>1, StreamBounds
  <2> QED BY <1>1, <2>1 DEF EventFrame, GoodFrame, Frame, Existing
<1> QED BY <1>2, <1>3

\* What joining two sequences does.
LEMMA JoinFacts ==
  ASSUME NEW S, NEW s \in Seq(S), NEW t \in Seq(S)
  PROVE  /\ s \o t \in Seq(S)
         /\ Len(s) \in Nat /\ Len(t) \in Nat
         /\ Len(s \o t) = Len(s) + Len(t)
         /\ DOMAIN s = 1 .. Len(s) /\ DOMAIN t = 1 .. Len(t)
         /\ DOMAIN (s \o t) = 1 .. (Len(s) + Len(t))
         /\ \A i \in 1 .. Len(s) : (s \o t)[i] = s[i]
         /\ \A i \in 1 .. Len(t) : (s \o t)[Len(s) + i] = t[i]
         /\ \A i \in (Len(s) + 1) .. (Len(s) + Len(t)) :
              i - Len(s) \in 1 .. Len(t) /\ (s \o t)[i] = t[i - Len(s)]
         /\ s # <<>> => s \o t # <<>>
OBVIOUS

\* The catch-up is the events after since[c], one after the other.
LEMMA CatchUp ==
  ASSUME TypeInv, NEW c \in Conn, GetEventsSince(c)
  PROVE  \E more \in Seq(GoodFrame) :
           /\ rest' = [rest EXCEPT ![c] = @ \o more]
           /\ \A i \in 1 .. Len(more) : more[i] = EventFrame(Session, since[c] + i)
           /\ \A n \in 1 .. Len(Log) :
                n > since[c] => \E i \in 1 .. Len(more) : since[c] + i = n
<1> DEFINE n == Len(SubSeq(Log, since[c] + 1, Len(Log)))
           more == [i \in 1 .. n |-> EventFrame(Session, since[c] + i)]
<1>1. Len(Log) \in Nat /\ since[c] \in Nat /\ Log \in Seq(ProperEvent) /\ LogsInv
  BY DEF TypeInv, LogsInv, Log, Session, PlaceInv
<1>2. /\ n \in Nat /\ \A i \in 1 .. n : since[c] + i \in 1 .. Len(Log)
      /\ \A k \in 1 .. Len(Log) : k > since[c] =>
           k - since[c] \in 1 .. n /\ since[c] + (k - since[c]) = k
  BY <1>1
<1>3. rest' = [rest EXCEPT ![c] = @ \o more]
  BY DEF GetEventsSince
<1> HIDE DEF n
<1>4. more \in Seq(GoodFrame) /\ Len(more) = n
      /\ \A i \in 1 .. n : more[i] = EventFrame(Session, since[c] + i)
  BY <1>1, <1>2, FrameTypes
<1> HIDE DEF more
<1> QED BY <1>2, <1>3, <1>4

\* Every frame, in a catch-up, a queue or a wire, is of an event that was logged.
LEMMA FrameStep ==
  ASSUME TypeInv, [Next]_vars
  PROVE  FrameInv'
<1> USE DEF TypeInv
<1>1. LogsInv' /\ Extends
  BY LogsStep
<1>2. CASE UNCHANGED <<rest, queue, wire>>
  BY <1>1, <1>2, FramesUntouched
<1>3. ASSUME UNCHANGED logs,
             /\ rest' \in [Conn -> Seq(GoodFrame)]
             /\ queue' \in [Conn -> Seq(GoodFrame)]
             /\ wire' \in [Conn -> Seq(GoodFrame)]
      PROVE  FrameInv'
  <2>1. GoodFrame' = GoodFrame
    BY <1>3, GoodNow
  <2> QED BY <1>3, <2>1 DEF FrameInv
<1>4. ASSUME NEW w \in Writer, NEW c \in Conn, EnqueueTo(w, c)
      PROVE  FrameInv'
  <2>1. EventFrame(Session, writer[w].seq) \in GoodFrame
    BY <1>4, FrameTypes DEF EnqueueTo, WriterInv
  <2>2. queue' \in [Conn -> Seq(GoodFrame)]
    BY <1>4, <2>1, EnqueueType DEF EnqueueTo
  <2> QED BY <1>4, <2>2, <1>3 DEF EnqueueTo, FrameInv
<1>5. ASSUME NEW c \in Conn, GetSnapshot(c)
      PROVE  FrameInv'
  BY <1>5, <1>3, FrameTypes DEF GetSnapshot, FrameInv
<1>6. ASSUME NEW c \in Conn, GetEventsSince(c)
      PROVE  FrameInv'
  <2>1. PICK more \in Seq(GoodFrame) : rest' = [rest EXCEPT ![c] = @ \o more]
    BY <1>6, CatchUp
  <2>2. rest' \in [Conn -> Seq(GoodFrame)]
    BY <2>1 DEF FrameInv
  <2> QED BY <1>6, <2>2, <1>3 DEF GetEventsSince, FrameInv
<1>7. ASSUME NEW c \in Conn, EnqueueRest(c), rest[c] # <<>>
      PROVE  FrameInv'
  <2>1. rest[c] \in Seq(GoodFrame)
    BY DEF FrameInv
  <2>2. Head(rest[c]) \in GoodFrame /\ Tail(rest[c]) \in Seq(GoodFrame)
    BY <1>7, <2>1
  <2>3. queue' \in [Conn -> Seq(GoodFrame)]
    BY <1>7, <2>2, EnqueueType DEF EnqueueRest
  <2>4. rest' \in [Conn -> Seq(GoodFrame)]
    BY <1>7, <2>2 DEF EnqueueRest, FrameInv
  <2> QED BY <1>7, <2>3, <2>4, <1>3 DEF EnqueueRest, FrameInv
<1>8. ASSUME NEW c \in Conn, WriteFrame(c)
      PROVE  FrameInv'
  <2>1. queue[c] \in Seq(GoodFrame) /\ queue[c] # <<>>
    BY <1>8 DEF FrameInv, WriteFrame
  <2>2. Head(queue[c]) \in GoodFrame /\ Tail(queue[c]) \in Seq(GoodFrame)
    BY <2>1
  <2> QED BY <1>8, <2>2, <1>3 DEF WriteFrame, FrameInv
<1>9. ASSUME NEW c \in Conn, CloseOverflown(c)
      PROVE  FrameInv'
  BY <1>9, <1>3 DEF CloseOverflown, FrameInv
<1>10. ASSUME Restart
       PROVE  FrameInv'
  BY <1>1, <1>10, FramesStay DEF Restart, FrameInv
<1>11. ASSUME NEW c \in Conn, OnSnapshot(c) \/ OnEvent(c)
       PROVE  FrameInv'
  <2>1. wire[c] \in Seq(GoodFrame) /\ wire[c] # <<>>
    BY <1>11 DEF FrameInv, OnSnapshot, OnEvent, NextFrame
  <2>2. Tail(wire[c]) \in Seq(GoodFrame)
    BY <2>1
  <2> QED BY <1>11, <2>2, <1>3 DEF OnSnapshot, OnEvent, FrameInv, hubVars
<1>12. ASSUME NEW c \in Conn, OnGap(c)
       PROVE  FrameInv'
  <2>1. wire[c] \in Seq(GoodFrame) /\ wire[c] # <<>>
    BY <1>12 DEF FrameInv, OnGap, NextFrame
  <2>2. Tail(wire[c]) \in Seq(GoodFrame)
    BY <2>1
  <2> QED BY <1>12, <2>2, <1>3 DEF OnGap, FrameInv, Cut
<1>13. ASSUME NEW c \in Conn, ConnectionLost(c)
       PROVE  FrameInv'
  BY <1>13, <1>3 DEF ConnectionLost, Cut, FrameInv
<1>14. ASSUME CloseCalled
       PROVE  FrameInv'
  BY <1>14, <1>3 DEF CloseCalled, Cut, FrameInv
<1>15. CASE UNCHANGED vars
  BY <1>2, <1>15 DEF vars, hubVars
<1>16. CASE \E w \in Writer : Append_(w) \/ CopyClients(w)
  BY <1>2, <1>16 DEF Append_, AppendEvent, CopyClients
<1>17. CASE \E c \in Conn : Register(c) \/ Unregister(c)
  BY <1>2, <1>17 DEF Register, Unregister
<1>18. CASE \E c \in Conn : ConnectCalled(c) \/ ReconnectTimer(c) \/ OnOpen(c) \/ OnClose(c)
  BY <1>2, <1>18 DEF ConnectCalled, ReconnectTimer, Open, OnOpen, ReadHello, OnClose, hubVars
<1>19. ASSUME NEW c \in Conn, EnqueueRest(c) PROVE rest[c] # <<>>
  BY <1>19 DEF RestInv, EnqueueRest
<1> QED
  BY <1>4, <1>5, <1>6, <1>7, <1>8, <1>9, <1>10, <1>11, <1>12, <1>13, <1>14, <1>15,
     <1>16, <1>17, <1>18, <1>19 DEF Next, WriterStep, ServeStep, WriteStep

\* Bringing a connection up to date ends with the last frame.
LEMMA RestStep ==
  ASSUME TypeInv, [Next]_vars
  PROVE  RestInv'
<1> USE DEF TypeInv
<1>1. CASE UNCHANGED <<rest, hub>>
  BY <1>1 DEF RestInv
<1>2. ASSUME NEW c \in Conn, GetSnapshot(c) PROVE RestInv'
  BY <1>2 DEF GetSnapshot, RestInv, FrameInv, PlaceInv
<1>3. ASSUME NEW c \in Conn, GetEventsSince(c) PROVE RestInv'
  <2>1. PICK more \in Seq(GoodFrame) : rest' = [rest EXCEPT ![c] = @ \o more]
    BY <1>3, CatchUp
  <2>2. rest[c] \in Seq(GoodFrame) /\ rest[c] # <<>>
    BY <1>3 DEF GetEventsSince, RestInv, FrameInv
  <2>3. rest[c] \o more # <<>>
    BY <2>2, JoinFacts
  <2> QED BY <1>3, <2>1, <2>3 DEF GetEventsSince, RestInv, FrameInv, PlaceInv
<1>4. ASSUME NEW c \in Conn, EnqueueRest(c) PROVE RestInv'
  <2>1. rest[c] \in Seq(GoodFrame) /\ rest[c] # <<>>
    BY <1>4 DEF EnqueueRest, RestInv, FrameInv
  <2>2. Tail(rest[c]) = <<>> => Len(rest[c]) = 1
    <3>1. Len(Tail(rest[c])) = Len(rest[c]) - 1 /\ Len(rest[c]) \in Nat
      BY <2>1, TailFacts
    <3>2. Tail(rest[c]) = <<>> => Len(Tail(rest[c])) = 0
      <4>1. Len(<<>>) = 0
        OBVIOUS
      <4> QED BY <4>1, Zenon
    <3> QED BY <3>1, <3>2
  <2> QED BY <1>4, <2>2 DEF EnqueueRest, RestInv, FrameInv, PlaceInv
<1>5. ASSUME NEW c \in Conn, Register(c) \/ Unregister(c) PROVE RestInv'
  BY <1>5 DEF Register, Unregister, RestInv, PlaceInv
<1>6. ASSUME Restart PROVE RestInv'
  BY <1>6 DEF Restart, RestInv
<1>7. ASSUME NEW c \in Conn, OnOpen(c) PROVE RestInv'
  BY <1>7 DEF OnOpen, ReadHello, RestInv, PlaceInv
<1>8. CASE UNCHANGED vars
  BY <1>1, <1>8 DEF vars, hubVars
<1>9. CASE \E w \in Writer : Append_(w) \/ WriterStep(w)
  BY <1>1, <1>9 DEF Append_, AppendEvent, WriterStep, CopyClients, EnqueueTo
<1>10. CASE \E c \in Conn : ConnectCalled(c) \/ ReconnectTimer(c) \/ OnClose(c) \/ WriteStep(c)
  BY <1>1, <1>10 DEF ConnectCalled, ReconnectTimer, Open, OnClose, hubVars, WriteStep,
                     WriteFrame, CloseOverflown
<1>11. CASE \E c \in Conn : OnSnapshot(c) \/ OnEvent(c) \/ OnGap(c) \/ ConnectionLost(c)
  BY <1>1, <1>11 DEF OnSnapshot, OnEvent, OnGap, ConnectionLost, hubVars
<1>12. CASE CloseCalled
  BY <1>1, <1>12 DEF CloseCalled
<1> QED
  BY <1>2, <1>3, <1>4, <1>5, <1>6, <1>7, <1>8, <1>9, <1>10, <1>11, <1>12
     DEF Next, ServeStep

\* A writer left alone stays right while its session lasts.
LEMMA WriterKept ==
  ASSUME TypeInv, Extends, Len(logs') = Len(logs), UNCHANGED writer
  PROVE  WriterInv'
<1>1. Len(Log) <= Len(Log') /\ Len(Log) \in Nat
  BY DEF TypeInv, Extends, LogsInv, Log, Session
<1> QED BY <1>1 DEF TypeInv, WriterInv

\* A writer that has sent to one connection sends the same event on.
LEMMA SentType ==
  ASSUME NEW c \in Conn, NEW wr \in WriterStates
  PROVE  /\ IdleWriter \in WriterStates
         /\ Sent(wr, c) \in WriterStates
         /\ Sent(wr, c).pc # "idle" => Sent(wr, c).seq = wr.seq /\ wr.pc # "idle"
<1>1. IdleWriter \in WriterStates
  BY StreamBounds DEF IdleWriter, WriterStates
<1>2. [wr EXCEPT !.to = @ \ {c}] \in WriterStates
  BY DEF WriterStates
<1> QED BY <1>1, <1>2 DEF Sent, IdleWriter, WriterStates

\* A writer that is broadcasting has the seq of an event of the log.
LEMMA WriterStepInv ==
  ASSUME TypeInv, [Next]_vars
  PROVE  WriterInv'
<1> USE DEF TypeInv
<1>1. LogsInv' /\ Extends
  BY LogsStep
<1>2. CASE UNCHANGED <<logs, writer>>
  BY <1>1, <1>2, WriterKept
<1>3. ASSUME NEW w \in Writer, Append_(w) PROVE WriterInv'
  <2>1. PICK ev \in ProperEvent : AppendEvent(w, ev)
    BY <1>3, WriterAssumption DEF Append_
  <2>2. Len(Log') = Len(Log) + 1
    BY <2>1, AppendToLogs
  <2>3. Len(Log) \in Nat /\ Len(Log) + 1 \in 0 .. MaxLog
    BY <2>1, StreamBounds DEF AppendEvent, LogsInv, Log, Session
  <2> DEFINE n == Len(Log) + 1
             moved == [writer[w] EXCEPT !.pc = "copy", !.seq = n]
  <2>4. writer' = [writer EXCEPT ![w] = moved]
    BY <2>1 DEF AppendEvent
  <2>5. writer[w] \in WriterStates
    BY DEF WriterInv
  <2>6. moved.pc = "copy" /\ moved.seq = n
    BY <2>5 DEF WriterStates
  <2>7. moved \in WriterStates
    <3> HIDE DEF n
    <3> QED BY <2>3, <2>5, Zenon DEF WriterStates, n
  <2>8. \A v \in Writer : writer'[v].pc # "idle" => writer'[v].seq \in 1 .. Len(Log')
    <3> HIDE DEF moved
    <3> QED BY <2>2, <2>3, <2>4, <2>6 DEF WriterInv
  <2> HIDE DEF moved
  <2> QED BY <2>4, <2>7, <2>8 DEF WriterInv
<1>4. ASSUME NEW w \in Writer, CopyClients(w) PROVE WriterInv'
  <2> DEFINE registered == {c \in Conn : hub[c] = "serving"}
             moved == [writer[w] EXCEPT !.pc = "send", !.to = registered]
  <2>1. Log' = Log
    BY <1>4 DEF CopyClients, Log, Session
  <2>2. writer' = [writer EXCEPT ![w] = IF registered = {} THEN IdleWriter ELSE moved]
    BY <1>4 DEF CopyClients
  <2>3. writer[w] \in WriterStates /\ writer[w].seq \in 1 .. Len(Log)
    BY <1>4 DEF WriterInv, CopyClients
  <2>4. moved.seq = writer[w].seq
    BY <2>3 DEF WriterStates
  <2>5. moved \in WriterStates
    <3>1. registered \in SUBSET Conn
      OBVIOUS
    <3> HIDE DEF registered
    <3> QED BY <2>3, <3>1, Zenon DEF WriterStates
  <2>6. IdleWriter \in WriterStates /\ IdleWriter.pc = "idle"
    BY StreamBounds DEF IdleWriter, WriterStates
  <2> HIDE DEF moved, registered
  <2> QED BY <2>1, <2>2, <2>3, <2>4, <2>5, <2>6 DEF WriterInv
<1>5. ASSUME NEW w \in Writer, NEW c \in Conn, EnqueueTo(w, c) PROVE WriterInv'
  <2>1. Log' = Log /\ writer' = [writer EXCEPT ![w] = Sent(writer[w], c)]
    BY <1>5 DEF EnqueueTo, Log, Session
  <2> QED BY <2>1, SentType DEF WriterInv
<1>6. ASSUME NEW c \in Conn, Unregister(c) PROVE WriterInv'
  <2>1. /\ Log' = Log
        /\ writer' = [w \in Writer |-> IF writer[w].pc = "send" THEN Sent(writer[w], c)
                                                               ELSE writer[w]]
    BY <1>6 DEF Unregister, Log, Session
  <2> QED BY <2>1, SentType DEF WriterInv
<1>7. ASSUME Restart PROVE WriterInv'
  <2>1. IdleWriter \in WriterStates /\ IdleWriter.pc = "idle"
    BY StreamBounds DEF IdleWriter, WriterStates
  <2> QED BY <1>7, <2>1 DEF Restart, WriterInv
<1>8. CASE UNCHANGED vars
  BY <1>2, <1>8 DEF vars, hubVars
<1>9. CASE \E c \in Conn : GetSnapshot(c) \/ GetEventsSince(c) \/ Register(c)
                           \/ EnqueueRest(c) \/ WriteStep(c)
  BY <1>2, <1>9 DEF GetSnapshot, GetEventsSince, Register, EnqueueRest, WriteStep,
                    WriteFrame, CloseOverflown
<1>10. CASE \E c \in Conn : ConnectCalled(c) \/ ReconnectTimer(c) \/ OnClose(c) \/ OnOpen(c)
  BY <1>2, <1>10 DEF ConnectCalled, ReconnectTimer, Open, OnClose, OnOpen, ReadHello, hubVars
<1>11. CASE \E c \in Conn : OnSnapshot(c) \/ OnEvent(c) \/ OnGap(c) \/ ConnectionLost(c)
  BY <1>2, <1>11 DEF OnSnapshot, OnEvent, OnGap, ConnectionLost, hubVars
<1>12. CASE CloseCalled
  BY <1>2, <1>12 DEF CloseCalled
<1> QED
  BY <1>3, <1>4, <1>5, <1>6, <1>7, <1>8, <1>9, <1>10, <1>11, <1>12
     DEF Next, ServeStep, WriterStep

\* The rest of a connection's state keeps its types.
LEMMA PlaceStep ==
  ASSUME TypeInv, [Next]_vars
  PROVE  PlaceInv'
<1> USE DEF TypeInv, PlaceInv
<1>1. ASSUME NEW w \in Writer, Append_(w) \/ CopyClients(w), UNCHANGED clientVars PROVE PlaceInv'
  <2>1. CASE Append_(w)
    BY <1>1, <2>1 DEF Append_, AppendEvent, clientVars
  <2>2. CASE CopyClients(w)
    <3>1. writer[w].seq \in 1 .. MaxLog
      <4>1. writer[w].seq \in 1 .. Len(Log)
        BY <2>2 DEF CopyClients, WriterInv
      <4>2. Len(Log) \in 0 .. MaxLog
        BY DEF LogsInv, Log, Session
      <4> QED BY <4>1, <4>2, StreamBounds
    <3> QED BY <1>1, <2>2, <3>1 DEF CopyClients, clientVars
  <2> QED BY <1>1, <2>1, <2>2
<1>2. ASSUME NEW c \in Conn, NEW f, Enqueue(c, f) PROVE overflow' \in [Conn -> BOOLEAN]
  BY <1>2 DEF Enqueue
<1>3. ASSUME NEW w \in Writer, NEW c \in Conn, EnqueueTo(w, c), UNCHANGED clientVars PROVE PlaceInv'
  BY <1>2, <1>3 DEF EnqueueTo, clientVars
<1>4. ASSUME NEW c \in Conn, GetSnapshot(c) \/ GetEventsSince(c) \/ Register(c), UNCHANGED clientVars
      PROVE PlaceInv'
  BY <1>4 DEF GetSnapshot, GetEventsSince, Register, clientVars
<1>5. ASSUME NEW c \in Conn, EnqueueRest(c), UNCHANGED clientVars PROVE PlaceInv'
  BY <1>2, <1>5 DEF EnqueueRest, clientVars
<1>6. ASSUME NEW c \in Conn, Unregister(c), UNCHANGED clientVars PROVE PlaceInv'
  BY <1>6, StreamBounds DEF Unregister, clientVars
<1>7. ASSUME NEW c \in Conn, WriteStep(c), UNCHANGED clientVars PROVE PlaceInv'
  BY <1>7 DEF WriteStep, WriteFrame, CloseOverflown, clientVars
<1>8. ASSUME Restart, UNCHANGED clientVars PROVE PlaceInv'
  BY <1>8, StreamBounds DEF Restart, clientVars
<1>9. ASSUME NEW c \in Conn, ConnectCalled(c) \/ ReconnectTimer(c) PROVE PlaceInv'
  BY <1>9, SyncBounds DEF ConnectCalled, ReconnectTimer, Open, hubVars
<1>10. ASSUME NEW c \in Conn, OnOpen(c) PROVE PlaceInv'
  <2>1. client.session.lastSeq \in 0 .. MaxLog
    BY DEF Clients, SessionStates
  <2> QED BY <1>10, <2>1 DEF OnOpen, ReadHello
<1>11. ASSUME NEW c \in Conn, OnSnapshot(c) \/ OnEvent(c) \/ OnClose(c) PROVE PlaceInv'
  BY <1>11 DEF OnSnapshot, OnEvent, OnClose, hubVars
<1>12. ASSUME NEW conns, Cut(conns)
       PROVE  /\ link' \in [Conn -> {"up", "shut", "down"}]
              /\ overflow' \in [Conn -> BOOLEAN]
  BY <1>12 DEF Cut
<1>13. ASSUME NEW c \in Conn, OnGap(c) PROVE PlaceInv'
  BY <1>12, <1>13 DEF OnGap
<1>14. ASSUME NEW c \in Conn, ConnectionLost(c) PROVE PlaceInv'
  BY <1>12, <1>14, SyncBounds DEF ConnectionLost
<1>15. CASE CloseCalled
  BY <1>12, <1>15, SyncBounds DEF CloseCalled
<1>16. CASE UNCHANGED vars
  BY <1>16 DEF vars, hubVars
<1> QED
  BY <1>1, <1>3, <1>4, <1>5, <1>6, <1>7, <1>8, <1>9, <1>10, <1>11, <1>13, <1>14, <1>15, <1>16
     DEF Next, ServeStep, WriterStep

\* The client is what a callback makes of it.
LEMMA ClientStep ==
  ASSUME TypeInv, [Next]_vars
  PROVE  client' \in Clients
<1> USE DEF TypeInv
<1>1. ASSUME NEW c \in Conn, ConnectCalled(c) PROVE client' \in Clients
  BY <1>1, ConnectFacts DEF ConnectCalled
<1>2. ASSUME NEW c \in Conn, ReconnectTimer(c) PROVE client' \in Clients
  <2>1. [client EXCEPT !.timer = FALSE] \in Clients
    BY Zenon DEF Clients
  <2> QED BY <1>2, <2>1, OpenFacts DEF ReconnectTimer
<1>3. ASSUME NEW c \in Conn, NextFrame(c, "snapshot") \/ NextFrame(c, "event")
      PROVE  /\ Head(wire[c]) \in GoodFrame
             /\ Head(wire[c]).session \in 1 .. MaxSession
             /\ Head(wire[c]).session \in 1 .. Len(logs)
             /\ Head(wire[c]).seq \in 0 .. MaxLog
             /\ Head(wire[c]).seq \in 0 .. Len(logs[Head(wire[c]).session])
             /\ logs[Head(wire[c]).session] \in Seq(ProperEvent)
  <2>1. wire[c] \in Seq(GoodFrame) /\ wire[c] # <<>>
    BY <1>3 DEF NextFrame, FrameInv
  <2>2. Head(wire[c]) \in GoodFrame
    BY <2>1
  <2> QED BY <2>2 DEF GoodFrame, Frame, Existing, LogsInv
<1>4. ASSUME NEW c \in Conn, OnSnapshot(c) PROVE client' \in Clients
  <2> DEFINE f == Head(wire[c])
             view == Snapshot(SubSeq(logs[f.session], 1, f.seq))
  <2>1. NextFrame(c, "snapshot") /\ client' = HandleSnapshot(client, f.session, f.seq, view)
    BY <1>4 DEF OnSnapshot
  <2>2. view \in View
    BY <1>3, <2>1, SnapshotType
  <2> HIDE DEF view
  <2> QED BY <1>3, <2>1, <2>2, SnapshotFacts
<1>5. ASSUME NEW c \in Conn, OnEvent(c) PROVE client' \in Clients
  <2> DEFINE f == Head(wire[c])
             ev == logs[f.session][f.seq]
  <2>1. /\ NextFrame(c, "event")
        /\ client' = IF IsDuplicate(client, f.seq) THEN client
                     ELSE HandleNext(client, f.seq, ev)
    BY <1>5 DEF OnEvent
  <2>2. ev \in ProperEvent
    <3>1. f \in GoodFrame /\ f.type = "event"
      BY <1>3, <2>1 DEF NextFrame
    <3>2. f.seq # 0 /\ f.seq \in 0 .. Len(logs[f.session])
      BY <3>1 DEF GoodFrame, Existing
    <3>3. logs[f.session] \in Seq(ProperEvent)
      BY <1>3, <2>1
    <3> HIDE DEF f
    <3> QED BY <3>2, <3>3
  <2> HIDE DEF ev
  <2> QED BY <1>3, <2>1, <2>2, NextFacts
<1>6. ASSUME NEW c \in Conn, OnGap(c) PROVE client' \in Clients
  BY <1>3, <1>6, GapFacts DEF OnGap
<1>7. ASSUME NEW c \in Conn, OnClose(c) PROVE client' \in Clients
  BY <1>7, ScheduleFacts DEF OnClose
<1>8. CASE CloseCalled
  BY <1>8, CloseFacts DEF CloseCalled
<1>9. CASE UNCHANGED client
  BY <1>9
<1> QED
  BY <1>1, <1>2, <1>4, <1>5, <1>6, <1>7, <1>8, <1>9
     DEF Next, clientVars, OnOpen, ConnectionLost, vars

\* The types hold at the start ...
LEMMA TypeInit == Init => TypeInv
<1> SUFFICES ASSUME Init PROVE TypeInv
  OBVIOUS
<1> USE DEF Init, HubInit
<1>1. LogsInv /\ Len(Log) = 0
  BY StreamBounds DEF LogsInv, Log, Session
<1>2. WriterInv
  BY StreamBounds DEF WriterInv, WriterStates, IdleWriter
<1>3. FrameInv /\ RestInv
  BY DEF FrameInv, RestInv
<1>4. PlaceInv
  BY StreamBounds, SyncBounds DEF PlaceInv
<1> QED BY <1>1, <1>2, <1>3, <1>4, NewClientFacts DEF TypeInv

\* ... and are kept by every step.
LEMMA TypeStep == TypeInv /\ [Next]_vars => TypeInv'
BY LogsStep, WriterStepInv, FrameStep, RestStep, PlaceStep, ClientStep DEF TypeInv

(***************************************************************************)
(* Type correctness: every frame on its way names a session there has been *)
(* and a seq of its log, so no callback of the client and no goroutine of  *)
(* the hub ever reads past the end of a log.                               *)
(***************************************************************************)
THEOREM TypeCorrect == Spec => []TypeOK
<1>1. Spec => []TypeInv
  BY TypeInit, TypeStep, PTL DEF Spec
<1> QED BY <1>1, TypeInvIsTyped, PTL

-----------------------------------------------------------------------------
(* Connections *)

\* A broadcast goes to connections that are registered.
ToInv ==
  \A w \in Writer, c \in Conn :
    writer[w].pc = "send" /\ c \in writer[w].to => hub[c] = "serving"

\* A broadcast goes to connections that were registered.
LEMMA ToStep ==
  ASSUME TypeInv, ToInv, [Next]_vars
  PROVE  ToInv'
<1> USE DEF ToInv
<1>1. writer \in [Writer -> WriterStates] /\ hub \in [Conn -> {"none", "hello",
                     "snapped", "fetched", "enqueueing", "serving"}]
  BY DEF TypeInv, WriterInv, PlaceInv
<1>2. CASE UNCHANGED <<writer, hub>>
  BY <1>2
<1>3. ASSUME NEW w \in Writer, Append_(w) PROVE ToInv'
  BY <1>1, <1>3 DEF Append_, AppendEvent, WriterStates
<1>4. ASSUME NEW w \in Writer, CopyClients(w) PROVE ToInv'
  BY <1>1, <1>4 DEF CopyClients, WriterStates, IdleWriter
<1>5. ASSUME NEW wr \in WriterStates, NEW c \in Conn
      PROVE  Sent(wr, c).pc = "send" => wr.pc = "send" /\ Sent(wr, c).to = wr.to \ {c}
  BY <1>5 DEF Sent, IdleWriter, WriterStates
<1>6. ASSUME NEW w \in Writer, NEW c \in Conn, EnqueueTo(w, c) PROVE ToInv'
  BY <1>1, <1>5, <1>6 DEF EnqueueTo
<1>7. ASSUME NEW c \in Conn, Unregister(c) PROVE ToInv'
  BY <1>1, <1>5, <1>7 DEF Unregister
<1>8. ASSUME NEW c \in Conn, GetSnapshot(c) \/ GetEventsSince(c) \/ Register(c)
                             \/ EnqueueRest(c) \/ OnOpen(c)
      PROVE  ToInv'
  BY <1>1, <1>8 DEF GetSnapshot, GetEventsSince, Register, EnqueueRest, OnOpen, ReadHello
<1>9. ASSUME Restart PROVE ToInv'
  BY <1>1, <1>9 DEF Restart, IdleWriter
<1>10. CASE UNCHANGED vars
  BY <1>2, <1>10 DEF vars, hubVars
<1>11. CASE \E c \in Conn : ConnectCalled(c) \/ ReconnectTimer(c) \/ OnClose(c) \/ WriteStep(c)
  BY <1>2, <1>11 DEF ConnectCalled, ReconnectTimer, Open, OnClose, hubVars, WriteStep,
                     WriteFrame, CloseOverflown
<1>12. CASE \E c \in Conn : OnSnapshot(c) \/ OnEvent(c) \/ OnGap(c) \/ ConnectionLost(c)
  BY <1>2, <1>12 DEF OnSnapshot, OnEvent, OnGap, ConnectionLost, hubVars
<1>13. CASE CloseCalled
  BY <1>2, <1>13 DEF CloseCalled
<1> QED
  BY <1>3, <1>4, <1>6, <1>7, <1>8, <1>9, <1>10, <1>11, <1>12, <1>13
     DEF Next, ServeStep, WriterStep

(***************************************************************************)
(* The two ends of a connection.  A slot is used again only when the       *)
(* client has received or discarded all that was written on it and the hub *)
(* has left it; nothing is queued for a connection that is gone.           *)
(***************************************************************************)
LinkOK(c) ==
  /\ sock[c] = "free" => link[c] # "up" /\ wire[c] = <<>>
  /\ sock[c] = "dialing" => hub[c] = "none" /\ wire[c] = <<>>
  /\ sock[c] = "closing" => link[c] = "down"
  /\ link[c] = "down" => wire[c] = <<>>
  /\ link[c] # "up" \/ hub[c] \notin {"enqueueing", "serving"} =>
       queue[c] = <<>> /\ ~overflow[c]
  /\ sock[c] = "open" /\ link[c] = "up" => hub[c] # "none"

LinkInv == \A c \in Conn : LinkOK(c)

\* A connection nothing happens to is not disturbed.
LEMMA LinkFrame ==
  ASSUME NEW d \in Conn, LinkOK(d), sock'[d] = sock[d], link'[d] = link[d],
         hub'[d] = hub[d], wire'[d] = wire[d], queue'[d] = queue[d],
         overflow'[d] = overflow[d]
  PROVE  LinkOK(d)'
BY DEF LinkOK

\* A connection is used again only when nothing of its last use is left.
LEMMA LinkStep ==
  ASSUME TypeInv, ToInv, LinkInv, [Next]_vars
  PROVE  LinkInv'
<1> SUFFICES ASSUME NEW d \in Conn PROVE LinkOK(d)'
  BY DEF LinkInv
<1>1. LinkOK(d)
  BY DEF LinkInv
<1> USE DEF TypeInv, PlaceInv, FrameInv
<1>2. ASSUME NEW c \in Conn, c # d,
             \/ GetSnapshot(c) \/ GetEventsSince(c) \/ Register(c) \/ Unregister(c)
             \/ WriteFrame(c) \/ CloseOverflown(c), UNCHANGED clientVars
      PROVE  LinkOK(d)'
  BY <1>1, <1>2, LinkFrame DEF GetSnapshot, GetEventsSince, Register, Unregister, WriteFrame,
     CloseOverflown, clientVars
<1>3. ASSUME \/ GetSnapshot(d) \/ GetEventsSince(d) \/ Register(d) \/ Unregister(d)
             \/ WriteFrame(d) \/ CloseOverflown(d), UNCHANGED clientVars
      PROVE  LinkOK(d)'
  BY <1>1, <1>3 DEF LinkOK, GetSnapshot, GetEventsSince, Register, Unregister, WriteFrame,
     CloseOverflown, clientVars
<1>4. ASSUME NEW c \in Conn, NEW f, Enqueue(c, f)
      PROVE  /\ c # d => queue'[d] = queue[d] /\ overflow'[d] = overflow[d]
             /\ link[d] # "up" => queue'[d] = queue[d] /\ overflow'[d] = overflow[d]
  BY <1>4 DEF Enqueue
<1>5. ASSUME NEW w \in Writer, NEW c \in Conn, EnqueueTo(w, c), UNCHANGED clientVars
      PROVE  LinkOK(d)'
  BY <1>1, <1>4, <1>5 DEF LinkOK, ToInv, EnqueueTo, clientVars
<1>6. ASSUME NEW c \in Conn, EnqueueRest(c), UNCHANGED clientVars
      PROVE  LinkOK(d)'
  BY <1>1, <1>4, <1>6 DEF LinkOK, EnqueueRest, clientVars
<1>7. ASSUME Restart, UNCHANGED clientVars
      PROVE  LinkOK(d)'
  BY <1>1, <1>7 DEF LinkOK, Restart, clientVars
<1>8. ASSUME NEW w \in Writer, Append_(w) \/ CopyClients(w), UNCHANGED clientVars
      PROVE  LinkOK(d)'
  BY <1>1, <1>8, LinkFrame DEF Append_, AppendEvent, CopyClients, clientVars
<1>9. ASSUME NEW c \in Conn, ConnectCalled(c) \/ ReconnectTimer(c)
      PROVE  LinkOK(d)'
  BY <1>1, <1>9 DEF LinkOK, ConnectCalled, ReconnectTimer, Open, hubVars
<1>10. ASSUME NEW c \in Conn, OnOpen(c) PROVE LinkOK(d)'
  BY <1>1, <1>10 DEF LinkOK, OnOpen, ReadHello
<1>11. ASSUME NEW c \in Conn, OnSnapshot(c) \/ OnEvent(c) PROVE LinkOK(d)'
  BY <1>1, <1>11 DEF LinkOK, OnSnapshot, OnEvent, NextFrame, hubVars
<1>12. ASSUME NEW c \in Conn, OnClose(c) PROVE LinkOK(d)'
  BY <1>1, <1>12 DEF LinkOK, OnClose, hubVars
<1>13. ASSUME NEW c \in Conn, OnGap(c) PROVE LinkOK(d)'
  BY <1>1, <1>13 DEF LinkOK, OnGap, NextFrame, Cut
<1>14. ASSUME NEW c \in Conn, ConnectionLost(c) PROVE LinkOK(d)'
  BY <1>1, <1>14 DEF LinkOK, ConnectionLost, Cut
<1>15. CASE CloseCalled
  BY <1>1, <1>15 DEF LinkOK, CloseCalled, Cut
<1>16. CASE UNCHANGED vars
  BY <1>1, <1>16, LinkFrame DEF vars, hubVars
<1> QED
  BY <1>2, <1>3, <1>5, <1>6, <1>7, <1>8, <1>9, <1>10, <1>11, <1>12, <1>13, <1>14, <1>15, <1>16
     DEF Next, ServeStep, WriterStep, WriteStep

-----------------------------------------------------------------------------
(* Sequences of frames *)

Events(q) == \A i \in DOMAIN q : q[i].type = "event"
OfSession(q, s) == \A i \in DOMAIN q : q[i].session = s

\* Nothing but events, after the first frame.
EventsBehind(q) == \A i \in DOMAIN q : i # 1 => q[i].type = "event"

SnapshotFirst(q) == q # <<>> /\ q[1].type = "snapshot" /\ EventsBehind(q)

\* A frame put at the end of a queue.
LEMMA FramesAppended ==
  ASSUME NEW S, NEW q \in Seq(S), NEW f \in S, NEW s
  PROVE  /\ OfSession(q, s) /\ f.session = s => OfSession(Append(q, f), s)
         /\ Events(q) /\ f.type = "event" => Events(Append(q, f))
         /\ SnapshotFirst(q) /\ f.type = "event" => SnapshotFirst(Append(q, f))
         /\ q = <<>> /\ f.type = "snapshot" => SnapshotFirst(Append(q, f))
         /\ q # <<>> => Append(q, f)[1] = q[1]
         /\ q = <<>> => Append(q, f)[1] = f
<1> DEFINE r == Append(q, f)
<1>1. /\ r # <<>>
      /\ DOMAIN q = 1 .. Len(q) /\ DOMAIN r = 1 .. (Len(q) + 1) /\ Len(q) \in Nat
      /\ \A i \in DOMAIN q : r[i] = q[i]
      /\ r[Len(q) + 1] = f
      /\ q = <<>> <=> Len(q) = 0
  BY AppendFacts
<1> HIDE DEF r
<1> QED BY <1>1 DEF OfSession, Events, SnapshotFirst, EventsBehind, r

\* Events of one session put at the end of a queue.
LEMMA FramesJoined ==
  ASSUME NEW S, NEW q \in Seq(S), NEW t \in Seq(S), NEW s,
         \A i \in 1 .. Len(t) : t[i].session = s /\ t[i].type = "event"
  PROVE  /\ OfSession(q, s) => OfSession(q \o t, s)
         /\ SnapshotFirst(q) => SnapshotFirst(q \o t)
<1> DEFINE r == q \o t
<1>1. /\ Len(q) \in Nat /\ DOMAIN q = 1 .. Len(q)
      /\ DOMAIN r = 1 .. (Len(q) + Len(t)) /\ Len(t) \in Nat
      /\ \A i \in 1 .. Len(q) : r[i] = q[i]
      /\ \A i \in (Len(q) + 1) .. (Len(q) + Len(t)) :
           i - Len(q) \in 1 .. Len(t) /\ r[i] = t[i - Len(q)]
      /\ q # <<>> => r # <<>>
  BY JoinFacts
<1>2. q # <<>> => 1 \in DOMAIN q
  OBVIOUS
<1> HIDE DEF r
<1>3. ASSUME NEW i \in DOMAIN r
      PROVE  \/ i \in DOMAIN q /\ r[i] = q[i]
             \/ i \notin DOMAIN q /\ r[i].session = s /\ r[i].type = "event"
  BY <1>1
<1>4. OfSession(q, s) => OfSession(r, s)
  BY <1>3 DEF OfSession
<1>5. SnapshotFirst(q) => SnapshotFirst(r)
  BY <1>1, <1>2, <1>3 DEF SnapshotFirst, EventsBehind
<1> QED BY <1>4, <1>5 DEF r

\* The first frame taken from a queue.
LEMMA FramesTaken ==
  ASSUME NEW S, NEW q \in Seq(S), q # <<>>, NEW s
  PROVE  /\ Head(q) = q[1]
         /\ OfSession(q, s) => Head(q).session = s /\ OfSession(Tail(q), s)
         /\ Events(q) => Head(q).type = "event" /\ Events(Tail(q))
         /\ EventsBehind(q) => Events(Tail(q))
         /\ Len(q) = 1 => Tail(q) = <<>>
BY TailFacts DEF OfSession, Events, EventsBehind

\* An empty queue satisfies everything said of queues.
LEMMA NoFrames ==
  \A s : OfSession(<<>>, s) /\ Events(<<>>) /\ EventsBehind(<<>>)
BY DEF OfSession, Events, EventsBehind

(***************************************************************************)
(* What the hub has still to send on a connection is about its current     *)
(* session, a snapshot first and then events.                              *)
(***************************************************************************)
RestOK(c) ==
  /\ OfSession(rest[c], Session) /\ OfSession(queue[c], Session)
  /\ hub[c] \in {"none", "hello", "serving"} => rest[c] = <<>>
  /\ hub[c] \in {"snapped", "fetched"} => SnapshotFirst(rest[c])
  /\ hub[c] = "enqueueing" => EventsBehind(rest[c])

OrderInv == \A c \in Conn : RestOK(c)

\* What is to be sent on a connection depends on its own state only.
LEMMA RestFrame ==
  ASSUME NEW d \in Conn, RestOK(d), Session' = Session,
         hub'[d] = hub[d], rest'[d] = rest[d], queue'[d] = queue[d] \/ queue'[d] = <<>>
  PROVE  RestOK(d)'
BY NoFrames DEF RestOK

\* Enqueue adds a frame to its own queue, or drops it.
LEMMA EnqueueFrames ==
  ASSUME TypeInv, NEW c \in Conn, NEW f, Enqueue(c, f), NEW d \in Conn
  PROVE  queue'[d] = queue[d] \/ (c = d /\ queue'[d] = Append(queue[d], f))
BY DEF TypeInv, FrameInv, Enqueue

\* What is to be sent is of the current session, a snapshot before events.
LEMMA OrderStep ==
  ASSUME TypeInv, OrderInv, [Next]_vars
  PROVE  OrderInv'
<1> SUFFICES ASSUME NEW d \in Conn PROVE RestOK(d)'
  BY DEF OrderInv
<1>1. RestOK(d)
  BY DEF OrderInv
<1>2. /\ rest \in [Conn -> Seq(GoodFrame)] /\ queue \in [Conn -> Seq(GoodFrame)]
      /\ hub \in [Conn -> {"none", "hello", "snapped", "fetched", "enqueueing", "serving"}]
      /\ rest[d] \in Seq(GoodFrame) /\ queue[d] \in Seq(GoodFrame)
      /\ OfSession(queue[d], Session)
  BY <1>1 DEF TypeInv, PlaceInv, FrameInv, RestOK
<1>3. ASSUME NEW c \in Conn, GetSnapshot(c) PROVE RestOK(d)'
  <2> DEFINE f == SnapshotFrame(Session, Len(Log))
  <2>1. f.session = Session /\ f.type = "snapshot"
    BY DEF SnapshotFrame
  <2>2. OfSession(<<f>>, Session) /\ SnapshotFirst(<<f>>)
    BY <2>1 DEF OfSession, SnapshotFirst, EventsBehind
  <2>3. CASE c = d
    <3> HIDE DEF f
    <3> QED BY <1>1, <1>2, <1>3, <2>2, <2>3 DEF RestOK, GetSnapshot, Session, f
  <2>4. CASE c # d
    BY <1>1, <1>2, <1>3, <2>4, RestFrame DEF GetSnapshot, Session
  <2> QED BY <2>3, <2>4
<1>4. ASSUME NEW c \in Conn, GetEventsSince(c) PROVE RestOK(d)'
  <2>1. CASE c # d
    BY <1>1, <1>2, <1>4, <2>1, RestFrame DEF GetEventsSince, Session
  <2>2. CASE c = d
    <3>1. PICK more \in Seq(GoodFrame) :
            /\ rest' = [rest EXCEPT ![c] = @ \o more]
            /\ \A i \in 1 .. Len(more) : more[i] = EventFrame(Session, since[c] + i)
      BY <1>4, CatchUp
    <3>2. ASSUME NEW i \in 1 .. Len(more)
          PROVE  more[i].session = Session /\ more[i].type = "event"
      <4>1. more[i] = EventFrame(Session, since[c] + i)
        BY <3>1, Zenon
      <4> QED BY <4>1 DEF EventFrame
    <3>3. SnapshotFirst(rest[d]) /\ OfSession(rest[d], Session)
      BY <1>1, <1>2, <1>4, <2>2 DEF RestOK, GetEventsSince
    <3>4. OfSession(rest[d] \o more, Session) /\ SnapshotFirst(rest[d] \o more)
      BY <1>2, <3>2, <3>3, FramesJoined
    <3>5. rest'[d] = rest[d] \o more
      BY <1>2, <2>2, <3>1
    <3> QED BY <1>1, <1>2, <1>4, <2>2, <3>4, <3>5 DEF RestOK, GetEventsSince, Session
  <2> QED BY <2>1, <2>2
<1>5. ASSUME NEW c \in Conn, EnqueueRest(c) PROVE RestOK(d)'
  <2>1. CASE c # d
    BY <1>1, <1>2, <1>5, <2>1, RestFrame, EnqueueFrames DEF EnqueueRest, Session
  <2>2. CASE c = d
    <3>1. rest[d] # <<>> /\ OfSession(rest[d], Session) /\ EventsBehind(rest[d])
      BY <1>1, <1>2, <1>5, <2>2 DEF EnqueueRest, TypeInv, RestInv, RestOK
    <3>2. /\ Head(rest[d]).session = Session /\ OfSession(Tail(rest[d]), Session)
          /\ Events(Tail(rest[d]))
          /\ Len(rest[d]) = 1 => Tail(rest[d]) = <<>>
          /\ Head(rest[d]) \in GoodFrame
      BY <1>2, <3>1, FramesTaken, TailFacts
    <3>3. queue'[d] = queue[d] \/ queue'[d] = Append(queue[d], Head(rest[d]))
      BY <1>5, <2>2, EnqueueFrames DEF EnqueueRest
    <3>4. OfSession(queue'[d], Session)
      <4>1. OfSession(Append(queue[d], Head(rest[d])), Session)
        BY <1>2, <3>2, FramesAppended
      <4> QED BY <1>2, <3>3, <4>1
    <3>5. /\ rest'[d] = Tail(rest[d]) /\ Session' = Session
          /\ hub[d] = "enqueueing"
          /\ hub'[d] = IF Len(rest[d]) = 1 THEN "serving" ELSE "enqueueing"
      BY <1>2, <1>5, <2>2 DEF EnqueueRest, Session
    <3> QED BY <3>2, <3>4, <3>5 DEF RestOK, Events, EventsBehind
  <2> QED BY <2>1, <2>2
<1>6. ASSUME NEW w \in Writer, NEW c \in Conn, EnqueueTo(w, c) PROVE RestOK(d)'
  <2> DEFINE f == EventFrame(Session, writer[w].seq)
  <2>1. f.session = Session /\ f \in GoodFrame
    BY <1>6, FrameTypes DEF EventFrame, EnqueueTo, TypeInv, WriterInv
  <2> HIDE DEF f
  <2>2. queue'[d] = queue[d] \/ queue'[d] = Append(queue[d], f)
    BY <1>6, EnqueueFrames DEF EnqueueTo, f
  <2>3. OfSession(queue'[d], Session)
    <3>1. OfSession(Append(queue[d], f), Session)
      BY <1>2, <2>1, FramesAppended
    <3> QED BY <1>2, <2>2, <3>1
  <2> QED BY <1>1, <1>2, <1>6, <2>3 DEF RestOK, EnqueueTo, Session
<1>7. ASSUME NEW c \in Conn, WriteFrame(c) PROVE RestOK(d)'
  <2>1. OfSession(queue'[d], Session)
    BY <1>1, <1>2, <1>7, FramesTaken DEF RestOK, WriteFrame
  <2> QED BY <1>1, <1>2, <1>7, <2>1 DEF RestOK, WriteFrame, Session
<1>8. ASSUME Restart PROVE RestOK(d)'
  BY <1>2, <1>8, NoFrames DEF RestOK, Restart
<1>9. ASSUME NEW c \in Conn, Register(c) \/ Unregister(c) PROVE RestOK(d)'
  BY <1>1, <1>2, <1>9 DEF RestOK, Register, Unregister, SnapshotFirst, Session
<1>10. ASSUME NEW c \in Conn, OnOpen(c) PROVE RestOK(d)'
  BY <1>1, <1>2, <1>10 DEF RestOK, OnOpen, ReadHello, Session
<1>11. ASSUME NEW w \in Writer, Append_(w) \/ CopyClients(w) PROVE RestOK(d)'
  <2>1. Session' = Session
    <3>1. CASE CopyClients(w)
      BY <3>1 DEF CopyClients, Session
    <3>2. CASE Append_(w)
      <4>1. PICK ev \in ProperEvent : AppendEvent(w, ev)
        BY <3>2, WriterAssumption DEF Append_
      <4> QED BY <4>1, AppendToLogs DEF TypeInv, Session
    <3> QED BY <1>11, <3>1, <3>2
  <2> QED BY <1>1, <1>2, <1>11, <2>1, RestFrame DEF Append_, AppendEvent, CopyClients
<1>12. CASE UNCHANGED vars
  BY <1>1, <1>12, RestFrame DEF vars, hubVars, Session
<1>13. CASE \E c \in Conn : ConnectCalled(c) \/ ReconnectTimer(c) \/ OnClose(c) \/ CloseOverflown(c)
  BY <1>1, <1>2, <1>13, RestFrame DEF ConnectCalled, ReconnectTimer, Open, OnClose, hubVars,
                     CloseOverflown, Session
<1>14. CASE \E c \in Conn : OnSnapshot(c) \/ OnEvent(c)
  BY <1>1, <1>2, <1>14, RestFrame DEF OnSnapshot, OnEvent, hubVars, Session
<1>16. ASSUME NEW c \in Conn, OnGap(c) \/ ConnectionLost(c) PROVE RestOK(d)'
  <2>1. /\ queue'[d] = queue[d] \/ queue'[d] = <<>>
        /\ hub' = hub /\ rest' = rest /\ Session' = Session
    BY <1>16 DEF OnGap, ConnectionLost, Cut, Session
  <2> QED BY <1>1, <2>1, RestFrame
<1>15. CASE CloseCalled
  <2>1. /\ queue'[d] = queue[d] \/ queue'[d] = <<>>
        /\ hub' = hub /\ rest' = rest /\ Session' = Session
    BY <1>15 DEF CloseCalled, Cut, Session
  <2> QED BY <1>1, <2>1, RestFrame
<1> QED
  BY <1>3, <1>4, <1>5, <1>6, <1>7, <1>8, <1>9, <1>10, <1>11, <1>12, <1>13, <1>14, <1>15, <1>16
     DEF Next, ServeStep, WriterStep, WriteStep

(***************************************************************************)
(* From here on, a client with one socket at a time: what it shows is a    *)
(* prefix of the log, when it is live the state it shows is that of the    *)
(* log, and only the window of the registration loses events.              *)
(*                                                                         *)
(* There is one socket at a time when the app calls connect only when the  *)
(* client is idle and never calls close, whatever the connections there    *)
(* can be; or, with connect and close called at any time, when a socket    *)
(* has to be rid of before the next can be opened.                         *)
(***************************************************************************)
OneAtATime == (~ConnectAgain /\ ~UserCloses) \/ \A c, d \in Conn : c = d

\* What holds with any number of sockets.
BaseInv == TypeInv /\ ToInv /\ LinkInv /\ OrderInv

\* The invariant of the hub's side, for any number of sockets.
LEMMA BaseInvariant == Spec => []BaseInv
<1>1. Init => BaseInv
  <2>1. ASSUME Init PROVE ToInv /\ LinkInv /\ OrderInv
    BY <2>1, NoFrames DEF Init, HubInit, ToInv, LinkInv, LinkOK, OrderInv, RestOK, IdleWriter
  <2> QED BY <2>1, TypeInit DEF BaseInv
<1>2. BaseInv /\ [Next]_vars => BaseInv'
  BY TypeStep, ToStep, LinkStep, OrderStep DEF BaseInv
<1> QED BY <1>1, <1>2, PTL DEF Spec

-----------------------------------------------------------------------------
(* What the callbacks make of the client *)

SnapAt(log, n) == Snapshot(SubSeq(log, 1, n))

\* The frame a callback receives.
LEMMA FrameReceived ==
  ASSUME TypeInv, NEW c \in Conn, NextFrame(c, "snapshot") \/ NextFrame(c, "event")
  PROVE  LET f == Head(wire[c])
         IN  /\ f \in GoodFrame
             /\ f.session \in 1 .. MaxSession /\ f.session \in 1 .. Len(logs)
             /\ f.seq \in 0 .. MaxLog /\ f.seq \in 0 .. Len(logs[f.session])
             /\ f.type = "event" => f.seq # 0
             /\ logs[f.session] \in Seq(ProperEvent)
<1>1. wire[c] \in Seq(GoodFrame) /\ wire[c] # <<>>
  BY DEF NextFrame, TypeInv, FrameInv
<1>2. Head(wire[c]) \in GoodFrame
  BY <1>1
<1> QED BY <1>2 DEF GoodFrame, Frame, Existing, TypeInv, LogsInv

\* What a snapshot makes of the client's session.
LEMMA SnapshotMakes ==
  ASSUME TypeInv, NEW c \in Conn, OnSnapshot(c)
  PROVE  LET f == Head(wire[c])
             old == client.session
             new == client'.session
         IN  /\ f.type = "snapshot"
             /\ new.id = f.session /\ new.tipSeq = f.seq
             /\ new.view = SnapAt(logs[f.session], f.seq)
             /\ old.id \in {NoSession, f.session} =>
                  new.lastSeq = old.lastSeq /\ new.transcript = old.transcript
             /\ old.id \notin {NoSession, f.session} =>
                  new.lastSeq = 0 /\ new.transcript = <<>>
             /\ client'.socket = client.socket /\ client'.timer = client.timer
             /\ client'.phase \in {"syncing", "live"}
             /\ client'.phase = "live" <=> new.lastSeq >= new.tipSeq
<1> DEFINE f == Head(wire[c])
           view == Snapshot(SubSeq(logs[f.session], 1, f.seq))
<1>1. NextFrame(c, "snapshot") /\ client' = HandleSnapshot(client, f.session, f.seq, view)
  BY DEF OnSnapshot
<1>2. f.session \in 1 .. MaxSession /\ f.seq \in 0 .. MaxLog /\ f.type = "snapshot"
      /\ view \in View
  BY <1>1, FrameReceived, SnapshotType DEF NextFrame
<1>3. view = SnapAt(logs[f.session], f.seq)
  BY DEF SnapAt
<1>4. client \in Clients
  BY DEF TypeInv
<1> HIDE DEF view, f
<1>5. /\ client'.session.id = f.session /\ client'.session.tipSeq = f.seq
      /\ client'.session.view = view
      /\ client.session.id \in {NoSession, f.session} =>
           /\ client'.session.lastSeq = client.session.lastSeq
           /\ client'.session.transcript = client.session.transcript
      /\ client.session.id \notin {NoSession, f.session} =>
           client'.session.lastSeq = 0 /\ client'.session.transcript = <<>>
      /\ client'.socket = client.socket /\ client'.timer = client.timer
      /\ client'.phase \in {"syncing", "live"}
      /\ client'.phase = "live" <=> client'.session.lastSeq >= client'.session.tipSeq
  BY <1>1, <1>2, <1>4, SnapshotFacts
<1> QED BY <1>2, <1>3, <1>5, Zenon DEF f

\* An event is skipped, or it is the next one.
LEMMA EventMakes ==
  ASSUME TypeInv, NEW c \in Conn, OnEvent(c)
  PROVE  LET f == Head(wire[c])
             ev == logs[f.session][f.seq]
             old == client.session
             new == client'.session
         IN  /\ f.type = "event" /\ ev \in ProperEvent
             /\ client'.socket = client.socket /\ client'.timer = client.timer
             /\ client'.phase \in {client.phase, "live"}
             /\ f.seq <= old.lastSeq => client' = client
             /\ f.seq > old.lastSeq =>
                  /\ f.seq = old.lastSeq + 1
                  /\ new.id = old.id /\ new.tipSeq = old.tipSeq
                  /\ new.view = Materialize(old.view, ev)
                  /\ new.lastSeq = f.seq
                  /\ new.transcript = Append(old.transcript, ev)
                  /\ client'.phase = "live" =>
                       client.phase = "live" \/ new.lastSeq >= new.tipSeq
<1> DEFINE f == Head(wire[c])
           ev == logs[f.session][f.seq]
<1>1. /\ NextFrame(c, "event")
      /\ ~IsGap(client, f.seq)
      /\ client' = IF IsDuplicate(client, f.seq) THEN client
                   ELSE HandleNext(client, f.seq, ev)
  BY DEF OnEvent
<1>2. /\ f.type = "event" /\ f.seq \in 0 .. MaxLog /\ f.seq # 0
      /\ f.seq \in 0 .. Len(logs[f.session]) /\ logs[f.session] \in Seq(ProperEvent)
  BY <1>1, FrameReceived DEF NextFrame
<1>3. ev \in ProperEvent
  <2> HIDE DEF f
  <2> QED BY <1>2
<1>4. client \in Clients /\ client.session.lastSeq \in Nat
  <2>1. client \in Clients
    BY DEF TypeInv
  <2>2. client.session.lastSeq \in 0 .. MaxLog
    BY <2>1 DEF Clients, SessionStates
  <2> QED BY <2>1, <2>2
<1> HIDE DEF f, ev
<1>5. CASE f.seq <= client.session.lastSeq
  BY <1>1, <1>2, <1>3, <1>4, <1>5 DEF f, ev, IsDuplicate
<1>6. CASE f.seq > client.session.lastSeq
  <2>1. client' = HandleNext(client, f.seq, ev) /\ f.seq = client.session.lastSeq + 1
    BY <1>1, <1>2, <1>4, <1>6 DEF IsDuplicate, IsGap
  <2>2. /\ client'.socket = client.socket /\ client'.timer = client.timer
        /\ client'.phase \in {client.phase, "live"}
        /\ client'.session.id = client.session.id
        /\ client'.session.tipSeq = client.session.tipSeq
        /\ client'.session.view = Materialize(client.session.view, ev)
        /\ client'.session.lastSeq = f.seq
        /\ client'.session.transcript = Append(client.session.transcript, ev)
        /\ client'.phase = "live" =>
             client.phase = "live" \/ client'.session.lastSeq >= client'.session.tipSeq
    <3>1. f.seq \in 0 .. MaxLog
      BY <1>2
    <3>2. client \in Clients
      BY <1>4
    <3> QED BY <1>3, <2>1, <3>1, <3>2, NextFacts
  <2>3. ~(f.seq <= client.session.lastSeq)
    BY <1>2, <1>4, <1>6
  <2> QED BY <1>2, <1>3, <2>1, <2>2, <2>3, Zenon DEF f, ev
<1> QED BY <1>2, <1>3, <1>4, <1>5, <1>6 DEF f, ev

-----------------------------------------------------------------------------
(* Sockets *)

\* At most one socket is in use, and unless it was closed by the client it is
\* the one the client writes to.
SocketInv ==
  /\ \A c, d \in Conn : sock[c] # "free" /\ sock[d] # "free" => c = d
  /\ \A c \in Conn : sock[c] \in {"dialing", "open"} => client.socket = c
  /\ ~UserCloses => \A c \in Conn : sock[c] # "closing"
  /\ ~ConnectAgain /\ ~UserCloses /\ (client.phase = "idle" \/ client.timer) =>
       \A c \in Conn : sock[c] = "free"

\* A socket is opened only when no other is in use.
LEMMA NoneInUse ==
  ASSUME OneAtATime, SocketInv, NEW c \in Conn, ConnectCalled(c) \/ ReconnectTimer(c)
  PROVE  \A d \in Conn : sock[d] = "free"
<1>1. sock[c] = "free"
  BY DEF ConnectCalled, ReconnectTimer, Open
<1>2. CASE \A a, b \in Conn : a = b
  BY <1>1, <1>2
<1>3. CASE ~ConnectAgain /\ ~UserCloses
  BY <1>3, SyncBounds DEF SocketInv, ConnectCalled, ReconnectTimer
<1> QED BY <1>2, <1>3 DEF OneAtATime

\* One socket at a time: a step keeps the socket, the phase and the timer in line.
LEMMA SocketStep ==
  ASSUME OneAtATime, TypeInv, SocketInv, [Next]_vars
  PROVE  SocketInv'
<1>1. client \in Clients /\ sock \in [Conn -> {"free", "dialing", "open", "closing"}]
  BY DEF TypeInv, PlaceInv
<1>2. CASE UNCHANGED <<sock, client>>
  BY <1>2 DEF SocketInv
<1>3. ASSUME NEW c \in Conn, ConnectCalled(c) \/ ReconnectTimer(c) PROVE SocketInv'
  <2>1. \A d \in Conn : sock[d] = "free"
    BY <1>3, NoneInUse
  <2>2. sock' = [sock EXCEPT ![c] = "dialing"]
    BY <1>3 DEF ConnectCalled, ReconnectTimer, Open
  <2>3. client'.socket = c /\ client'.timer = FALSE /\ client'.phase # "idle"
    <3>1. CASE ConnectCalled(c)
      BY <1>1, <3>1, ConnectFacts DEF ConnectCalled
    <3>2. CASE ReconnectTimer(c)
      <4> DEFINE fired == [client EXCEPT !.timer = FALSE]
      <4>1. fired \in Clients
        BY <1>1, Zenon DEF Clients
      <4>2. fired.timer = FALSE
        BY <1>1 DEF Clients
      <4>3. client' = OpenNormalSocket(fired, c)
        BY <3>2 DEF ReconnectTimer
      <4> HIDE DEF fired
      <4> QED BY <4>1, <4>2, <4>3, OpenFacts
    <3> QED BY <1>3, <3>1, <3>2
  <2> QED BY <1>1, <2>1, <2>2, <2>3 DEF SocketInv
<1>4. ASSUME NEW c \in Conn, OnOpen(c) PROVE SocketInv'
  BY <1>1, <1>4 DEF SocketInv, OnOpen
<1>5. ASSUME NEW c \in Conn, OnSnapshot(c) PROVE SocketInv'
  <2>1. /\ sock' = sock /\ client'.socket = client.socket /\ client'.timer = client.timer
        /\ client'.phase # "idle"
    BY <1>5, SnapshotMakes DEF OnSnapshot, BaseInv
  <2> QED BY <2>1 DEF SocketInv
<1>6. ASSUME NEW c \in Conn, OnEvent(c) PROVE SocketInv'
  <2>1. /\ sock' = sock /\ client'.socket = client.socket /\ client'.timer = client.timer
        /\ client'.phase \in {client.phase, "live"}
    BY <1>6, EventMakes DEF OnEvent
  <2> QED BY <2>1 DEF SocketInv
<1>7. ASSUME NEW c \in Conn, OnGap(c) PROVE SocketInv'
  <2>1. sock[c] = "open" /\ client.socket = c
    BY <1>7 DEF SocketInv, OnGap, NextFrame
  <2>2. \A d \in Conn : sock'[d] = "free"
    BY <1>1, <1>7, <2>1 DEF SocketInv, OnGap
  <2> QED BY <2>2 DEF SocketInv
<1>8. ASSUME NEW c \in Conn, OnClose(c) PROVE SocketInv'
  <2>2. \A d \in Conn : sock'[d] = "free"
    BY <1>1, <1>8 DEF SocketInv, OnClose
  <2> QED BY <2>2 DEF SocketInv
<1>9. CASE CloseCalled
  <2>1. /\ UserCloses
        /\ \A d \in Conn : /\ sock'[d] # "free" => sock[d] # "free"
                           /\ sock'[d] \notin {"dialing", "open"}
    BY <1>1, <1>9 DEF SocketInv, CloseCalled
  <2> QED BY <2>1 DEF SocketInv
<1> QED
  BY <1>2, <1>3, <1>4, <1>5, <1>6, <1>7, <1>8, <1>9
     DEF Next, clientVars, ConnectionLost, vars

-----------------------------------------------------------------------------
(* The session the client shows *)

\* Steps that are neither the opening of a socket nor a frame received leave
\* the session alone, and nobody gets live by them.
LEMMA SessionStep ==
  ASSUME TypeInv, [Next]_vars
  PROVE  \/ /\ client'.session = client.session
            /\ client'.phase = "live" => client.phase = "live"
         \/ /\ \E c \in Conn : ConnectCalled(c) \/ ReconnectTimer(c)
            /\ client'.session \in {client.session, NewSessionState}
            /\ client'.phase # "live" /\ logs' = logs
         \/ \E c \in Conn : OnSnapshot(c) \/ OnEvent(c)
<1>1. client \in Clients
  BY DEF TypeInv
<1>2. ASSUME NEW c \in Conn, ConnectCalled(c) \/ ReconnectTimer(c)
      PROVE  /\ client'.session \in {client.session, NewSessionState}
             /\ client'.phase # "live" /\ logs' = logs
  <2>1. logs' = logs
    BY <1>2 DEF ConnectCalled, ReconnectTimer, Open, hubVars
  <2>2. CASE ConnectCalled(c)
    BY <1>1, <2>1, <2>2, ConnectFacts DEF ConnectCalled
  <2>3. CASE ReconnectTimer(c)
    <3> DEFINE fired == [client EXCEPT !.timer = FALSE]
    <3>1. fired \in Clients
      BY <1>1, Zenon DEF Clients
    <3>2. fired.session = client.session
      BY <1>1 DEF Clients
    <3>3. client' = OpenNormalSocket(fired, c)
      BY <2>3 DEF ReconnectTimer
    <3> HIDE DEF fired
    <3> QED BY <2>1, <3>1, <3>2, <3>3, OpenFacts
  <2> QED BY <1>2, <2>2, <2>3
<1>3. ASSUME NEW c \in Conn, OnGap(c)
      PROVE  client'.session = client.session /\ client'.phase \in {client.phase, "reconnecting"}
  BY <1>1, <1>3, FrameReceived, GapFacts DEF OnGap
<1>4. ASSUME NEW c \in Conn, OnClose(c)
      PROVE  client'.session = client.session /\ client'.phase \in {client.phase, "reconnecting"}
  BY <1>1, <1>4, ScheduleFacts DEF OnClose
<1>5. ASSUME CloseCalled
      PROVE  client'.session = client.session /\ client'.phase = "idle"
  BY <1>1, <1>5, CloseFacts DEF CloseCalled
<1>6. CASE UNCHANGED client
  BY <1>6
<1> QED
  BY <1>2, <1>3, <1>4, <1>5, <1>6
     DEF Next, clientVars, OnOpen, ConnectionLost, vars

(***************************************************************************)
(* What the client shows is a prefix of the log of its session, and the    *)
(* seqs it remembers are in that log.                                      *)
(***************************************************************************)
CopyOK(s) ==
  /\ Len(s.transcript) = s.lastSeq
  /\ s.id = NoSession => s.lastSeq = 0
  /\ s.id # NoSession =>
       /\ s.id \in 1 .. Len(logs)
       /\ s.lastSeq <= Len(logs[s.id])
       /\ s.tipSeq <= Len(logs[s.id])
       /\ \A i \in 1 .. s.lastSeq : s.transcript[i] = logs[s.id][i]

CopyInv == CopyOK(client.session)

\* A prefix of a log is a prefix of the longer log.
LEMMA CopyExtends ==
  ASSUME LogsInv, Extends, LogsInv', NEW s \in SessionStates, CopyOK(s)
  PROVE  CopyOK(s)'
<1>1. s.lastSeq \in Nat /\ s.tipSeq \in Nat
  BY DEF SessionStates
<1>2. \A n \in 1 .. Len(logs) : Len(logs[n]) \in Nat /\ n \in 1 .. Len(logs')
                                /\ Len(logs'[n]) \in Nat
  BY DEF LogsInv, Extends
<1>3. CASE s.id = NoSession
  BY <1>3 DEF CopyOK
<1>4. CASE s.id # NoSession
  <2>1. s.id \in 1 .. Len(logs)
    BY <1>4 DEF CopyOK
  <2>2. /\ Len(logs[s.id]) <= Len(logs'[s.id])
        /\ \A i \in 1 .. Len(logs[s.id]) : logs'[s.id][i] = logs[s.id][i]
    BY <2>1 DEF Extends
  <2> QED BY <1>1, <1>2, <1>4, <2>1, <2>2 DEF CopyOK
<1> QED BY <1>3, <1>4

-----------------------------------------------------------------------------
(***************************************************************************)
(* What is on an open socket.  Nothing has been queued for it yet, and     *)
(* what is still to be is a snapshot and then events; or this snapshot is  *)
(* queued, or written, and everything behind it is events of its session;  *)
(* or the client has received it, and all that follows is events of the    *)
(* session the client shows.  A snapshot on its way is not older than what *)
(* the client shows of its session.                                        *)
(***************************************************************************)
Fresh(f) == f.session = client.session.id => client.session.lastSeq <= f.seq

Waiting(c) ==
  /\ wire[c] = <<>> /\ queue[c] = <<>>
  /\ link[c] = "up" =>
       /\ hub[c] \in {"hello", "snapped", "fetched", "enqueueing"}
       /\ hub[c] # "hello" => SnapshotFirst(rest[c]) /\ Fresh(rest[c][1])

Queued(c) ==
  /\ wire[c] = <<>>
  /\ link[c] = "up" /\ hub[c] \in {"enqueueing", "serving"}
  /\ SnapshotFirst(queue[c]) /\ Fresh(queue[c][1])
  /\ Events(rest[c])

Follows(c, s) ==
  /\ OfSession(wire[c], s)
  /\ Events(queue[c])
  /\ link[c] = "up" =>
       /\ s = Session /\ hub[c] \in {"enqueueing", "serving"}
       /\ Events(rest[c])

Written(c) ==
  /\ SnapshotFirst(wire[c]) /\ Fresh(wire[c][1])
  /\ Follows(c, wire[c][1].session)

Received(c) ==
  /\ Events(wire[c]) /\ client.session.id # NoSession
  /\ Follows(c, client.session.id)

StreamOK(c) == Waiting(c) \/ Queued(c) \/ Written(c) \/ Received(c)

StreamInv == \A c \in Conn : sock[c] = "open" => StreamOK(c)

\* A snapshot received is the first frame; the events behind it are of its
\* session.
LEMMA SnapshotReceived ==
  ASSUME TypeInv, StreamInv, NEW c \in Conn, NextFrame(c, "snapshot")
  PROVE  LET f == Head(wire[c])
         IN  /\ Written(c) /\ f = wire[c][1] /\ Fresh(f)
             /\ Events(Tail(wire[c])) /\ OfSession(Tail(wire[c]), f.session)
<1>1. wire[c] \in Seq(GoodFrame) /\ wire[c] # <<>> /\ Head(wire[c]).type = "snapshot"
      /\ StreamOK(c)
  BY DEF TypeInv, FrameInv, StreamInv, NextFrame
<1>2. ~Events(wire[c])
  BY <1>1, FramesTaken
<1>3. Written(c)
  BY <1>1, <1>2 DEF StreamOK, Waiting, Queued, Received
<1>4. Head(wire[c]) = wire[c][1]
  BY <1>1
<1>5. Events(Tail(wire[c])) /\ OfSession(Tail(wire[c]), wire[c][1].session)
  BY <1>1, <1>3, FramesTaken DEF Written, Follows, SnapshotFirst
<1> QED BY <1>3, <1>4, <1>5 DEF Written

\* An event received is of the session the client shows.
LEMMA EventReceived ==
  ASSUME TypeInv, StreamInv, NEW c \in Conn, NextFrame(c, "event")
  PROVE  /\ Received(c)
         /\ Head(wire[c]).session = client.session.id
         /\ Events(Tail(wire[c])) /\ OfSession(Tail(wire[c]), client.session.id)
<1>1. wire[c] \in Seq(GoodFrame) /\ wire[c] # <<>> /\ Head(wire[c]).type = "event"
      /\ StreamOK(c) /\ Head(wire[c]) = wire[c][1]
  BY DEF TypeInv, FrameInv, StreamInv, NextFrame
<1>2. Received(c)
  BY <1>1 DEF StreamOK, Waiting, Queued, Written, SnapshotFirst
<1> QED BY <1>1, <1>2, FramesTaken DEF Received, Follows

\* What is shown stays the first lastSeq events of its session.
LEMMA CopyStep ==
  ASSUME TypeInv, CopyInv, StreamInv, [Next]_vars
  PROVE  CopyInv'
<1>1. LogsInv /\ LogsInv' /\ Extends /\ client.session \in SessionStates
  BY LogsStep DEF TypeInv, Clients
<1>2. CopyOK(client.session)
  BY DEF CopyInv
<1>3. CASE client'.session = client.session
  <2>1. PICK s \in SessionStates : s = client.session
    BY <1>1
  <2>2. CopyOK(s)'
    BY <1>1, <1>2, <2>1, CopyExtends
  <2> QED BY <1>3, <2>1, <2>2 DEF CopyInv, CopyOK
<1>4. CASE client'.session = NewSessionState
  BY <1>4 DEF CopyInv, CopyOK, NewSessionState
<1>5. ASSUME NEW c \in Conn, OnSnapshot(c) PROVE CopyInv'
  <2> DEFINE f == Head(wire[c])
             old == client.session
             new == client'.session
  <2>1. NextFrame(c, "snapshot") /\ logs' = logs
    BY <1>5 DEF OnSnapshot, hubVars
  <2>2. /\ f.session \in 1 .. Len(logs) /\ f.seq \in 0 .. Len(logs[f.session])
        /\ Len(logs[f.session]) \in Nat /\ f.session # NoSession
    BY <2>1, FrameReceived DEF TypeInv, LogsInv, NoSession
  <2>3. /\ new.id = f.session /\ new.tipSeq = f.seq
        /\ old.id \in {NoSession, f.session} =>
             new.lastSeq = old.lastSeq /\ new.transcript = old.transcript
        /\ old.id \notin {NoSession, f.session} =>
             new.lastSeq = 0 /\ new.transcript = <<>>
    BY <1>5, SnapshotMakes
  <2> HIDE DEF f
  <2>4. CASE old.id = f.session
    BY <1>2, <2>1, <2>2, <2>3, <2>4 DEF CopyInv, CopyOK
  <2>5. CASE old.id = NoSession
    BY <1>2, <2>1, <2>2, <2>3, <2>5 DEF CopyInv, CopyOK
  <2>6. CASE old.id \notin {NoSession, f.session}
    BY <2>1, <2>2, <2>3, <2>6 DEF CopyInv, CopyOK
  <2> QED BY <2>4, <2>5, <2>6
<1>6. ASSUME NEW c \in Conn, OnEvent(c) PROVE CopyInv'
  <2> DEFINE f == Head(wire[c])
             ev == logs[f.session][f.seq]
             old == client.session
             new == client'.session
  <2>1. NextFrame(c, "event") /\ logs' = logs
    BY <1>6 DEF OnEvent, hubVars
  <2>2. f.session = old.id /\ old.id # NoSession
    BY <2>1, EventReceived DEF Received
  <2>3. CASE f.seq <= old.lastSeq
    BY <1>3, <1>6, <2>3, EventMakes
  <2>4. CASE f.seq > old.lastSeq
    <3>1. /\ f.seq = old.lastSeq + 1 /\ ev \in ProperEvent
          /\ new.id = old.id /\ new.tipSeq = old.tipSeq
          /\ new.lastSeq = f.seq
          /\ new.transcript = Append(old.transcript, ev)
      BY <1>6, <2>4, EventMakes
    <3>2. /\ old.transcript \in Seq(ProperEvent) /\ old.lastSeq \in Nat
          /\ f.seq \in 0 .. Len(logs[f.session])
      BY <1>1, <2>1, FrameReceived DEF SessionStates
    <3>3. /\ Len(new.transcript) = old.lastSeq + 1
          /\ \A i \in 1 .. old.lastSeq : new.transcript[i] = logs[old.id][i]
          /\ new.transcript[old.lastSeq + 1] = logs[old.id][old.lastSeq + 1]
      <4> HIDE DEF f
      <4>1. Len(old.transcript) = old.lastSeq
            /\ \A i \in 1 .. old.lastSeq : old.transcript[i] = logs[old.id][i]
        BY <1>2, <2>2 DEF CopyOK
      <4>2. ev = logs[old.id][old.lastSeq + 1]
        BY <2>2, <3>1
      <4> HIDE DEF ev, old, new
      <4> QED BY <3>1, <3>2, <4>1, <4>2, AppendFacts
    <3> HIDE DEF f, ev
    <3> QED BY <1>2, <2>1, <2>2, <3>1, <3>2, <3>3 DEF CopyInv, CopyOK
  <2>5. f.seq \in Nat /\ old.lastSeq \in Nat
    BY <1>1, <2>1, FrameReceived DEF SessionStates
  <2> QED BY <2>3, <2>4, <2>5
<1> QED BY <1>3, <1>4, <1>5, <1>6, SessionStep

-----------------------------------------------------------------------------
(* The stream, step by step *)

\* What is said of a connection's stream depends on its own state only.
LEMMA StreamFrame ==
  ASSUME NEW d \in Conn, StreamOK(d), client'.session = client.session,
         Session' = Session, hub'[d] = hub[d], rest'[d] = rest[d],
         queue'[d] = queue[d], wire'[d] = wire[d], link'[d] = link[d]
  PROVE  StreamOK(d)'
BY DEF StreamOK, Waiting, Queued, Written, Received, Follows, Fresh

\* The values of the variables at connection d, in one place.
LEMMA StreamTypes ==
  ASSUME TypeInv, NEW d \in Conn
  PROVE  /\ rest \in [Conn -> Seq(GoodFrame)] /\ rest[d] \in Seq(GoodFrame)
         /\ queue \in [Conn -> Seq(GoodFrame)] /\ queue[d] \in Seq(GoodFrame)
         /\ wire \in [Conn -> Seq(GoodFrame)] /\ wire[d] \in Seq(GoodFrame)
         /\ hub \in [Conn -> {"none", "hello", "snapped", "fetched", "enqueueing", "serving"}]
         /\ link \in [Conn -> {"up", "shut", "down"}]
         /\ overflow \in [Conn -> BOOLEAN]
         /\ sock \in [Conn -> {"free", "dialing", "open", "closing"}]
BY DEF TypeInv, FrameInv, PlaceInv

\* A broadcast puts an event behind what is queued.
LEMMA StreamBroadcast ==
  ASSUME BaseInv, NEW d \in Conn, StreamOK(d),
         NEW w \in Writer, NEW c \in Conn, EnqueueTo(w, c), UNCHANGED clientVars
  PROVE  StreamOK(d)'
<1> DEFINE f == EventFrame(Session, writer[w].seq)
<1>1. f.type = "event" /\ f \in GoodFrame
  BY FrameTypes DEF EventFrame, EnqueueTo, BaseInv, TypeInv, WriterInv
<1>2. /\ client' = client /\ Session' = Session /\ hub' = hub /\ rest' = rest
      /\ wire' = wire /\ link' = link
  BY DEF EnqueueTo, clientVars, Session
<1>3. Enqueue(c, f) /\ hub[c] = "serving"
  BY DEF EnqueueTo, BaseInv, ToInv
<1> HIDE DEF f
<1>4. CASE queue'[d] = queue[d]
  BY <1>2, <1>4, StreamFrame
<1>5. CASE queue'[d] # queue[d]
  <2>1. c = d /\ link[d] = "up" /\ queue'[d] = Append(queue[d], f)
    BY <1>3, <1>5 DEF Enqueue, BaseInv, TypeInv, FrameInv
  <2>2. ~Waiting(d)
    BY <1>3, <2>1 DEF Waiting
  <2>3. /\ Events(queue[d]) => Events(queue'[d])
        /\ SnapshotFirst(queue[d]) => SnapshotFirst(queue'[d]) /\ queue'[d][1] = queue[d][1]
    <3>1. queue[d] \in Seq(GoodFrame)
      BY DEF BaseInv, TypeInv, FrameInv
    <3>2. /\ Events(queue[d]) => Events(Append(queue[d], f))
          /\ SnapshotFirst(queue[d]) => SnapshotFirst(Append(queue[d], f))
          /\ queue[d] # <<>> => Append(queue[d], f)[1] = queue[d][1]
      BY <1>1, <3>1, FramesAppended
    <3> QED BY <2>1, <3>2 DEF SnapshotFirst
  <2>4. CASE Queued(d)
    BY <1>2, <2>3, <2>4 DEF StreamOK, Queued, Fresh
  <2>5. CASE Written(d)
    BY <1>2, <2>3, <2>5 DEF StreamOK, Written, Follows, Fresh
  <2>6. CASE Received(d)
    BY <1>2, <2>3, <2>6 DEF StreamOK, Received, Follows
  <2> QED BY <2>2, <2>4, <2>5, <2>6 DEF StreamOK
<1> QED BY <1>4, <1>5

\* The snapshot goes on the queue, and behind it one event of the catch-up
\* after the other.
LEMMA StreamCatchUp ==
  ASSUME BaseInv, NEW d \in Conn, StreamOK(d), EnqueueRest(d), UNCHANGED clientVars
  PROVE  StreamOK(d)'
<1> DEFINE f == Head(rest[d])
<1>1. /\ rest \in [Conn -> Seq(GoodFrame)] /\ rest[d] \in Seq(GoodFrame)
      /\ queue \in [Conn -> Seq(GoodFrame)] /\ queue[d] \in Seq(GoodFrame)
      /\ hub[d] = "enqueueing" /\ rest[d] # <<>>
  BY StreamTypes DEF EnqueueRest, BaseInv, TypeInv, RestInv
<1>2. /\ client' = client /\ Session' = Session /\ wire' = wire /\ link' = link
      /\ rest'[d] = Tail(rest[d])
      /\ hub'[d] \in {"enqueueing", "serving"}
      /\ Enqueue(d, f)
  BY <1>1, StreamTypes DEF EnqueueRest, clientVars, Session, BaseInv
<1>3. /\ f \in GoodFrame /\ f = rest[d][1]
      /\ Events(rest[d]) => f.type = "event" /\ Events(Tail(rest[d]))
      /\ SnapshotFirst(rest[d]) => f.type = "snapshot" /\ Events(Tail(rest[d]))
  BY <1>1, FramesTaken, TailFacts DEF SnapshotFirst
<1> HIDE DEF f
<1>4. \/ queue'[d] = queue[d] /\ (link[d] # "up" \/ queue[d] # <<>>)
      \/ queue'[d] = Append(queue[d], f) /\ link[d] = "up"
  BY <1>1, <1>2, StreamBounds DEF Enqueue
<1>5. /\ f.type = "event" /\ Events(queue[d]) => Events(queue'[d])
      /\ f.type = "event" /\ SnapshotFirst(queue[d]) =>
           SnapshotFirst(queue'[d]) /\ queue'[d][1] = queue[d][1]
      /\ f.type = "snapshot" /\ queue[d] = <<>> /\ link[d] = "up" =>
           SnapshotFirst(queue'[d]) /\ queue'[d][1] = f
  <2>1. /\ Events(queue[d]) /\ f.type = "event" => Events(Append(queue[d], f))
        /\ SnapshotFirst(queue[d]) /\ f.type = "event" =>
             SnapshotFirst(Append(queue[d], f))
        /\ queue[d] = <<>> /\ f.type = "snapshot" => SnapshotFirst(Append(queue[d], f))
        /\ queue[d] # <<>> => Append(queue[d], f)[1] = queue[d][1]
        /\ queue[d] = <<>> => Append(queue[d], f)[1] = f
    BY <1>1, <1>3, FramesAppended
  <2> QED BY <1>4, <2>1 DEF SnapshotFirst
<1>6. CASE Waiting(d)
  <2>1. CASE link[d] = "up"
    <3>1. SnapshotFirst(rest[d]) /\ Fresh(rest[d][1]) /\ queue[d] = <<>>
      BY <1>1, <1>6, <2>1 DEF Waiting
    <3> QED BY <1>2, <1>3, <1>5, <1>6, <2>1, <3>1 DEF StreamOK, Waiting, Queued, Fresh
  <2>2. CASE link[d] # "up"
    BY <1>2, <1>4, <1>6, <2>2 DEF StreamOK, Waiting
  <2> QED BY <2>1, <2>2
<1>7. CASE Queued(d)
  BY <1>2, <1>3, <1>5, <1>7 DEF StreamOK, Queued, Fresh
<1>8. CASE Written(d)
  <2>1. CASE link[d] = "up"
    BY <1>2, <1>3, <1>5, <1>8, <2>1 DEF StreamOK, Written, Follows, Fresh
  <2>2. CASE link[d] # "up"
    BY <1>2, <1>4, <1>8, <2>2 DEF StreamOK, Written, Follows, Fresh
  <2> QED BY <2>1, <2>2
<1>9. CASE Received(d)
  <2>1. CASE link[d] = "up"
    BY <1>2, <1>3, <1>5, <1>9, <2>1 DEF StreamOK, Received, Follows
  <2>2. CASE link[d] # "up"
    BY <1>2, <1>4, <1>9, <2>2 DEF StreamOK, Received, Follows
  <2> QED BY <2>1, <2>2
<1> QED BY <1>6, <1>7, <1>8, <1>9 DEF StreamOK

\* A frame is written: the snapshot, if it is still queued, is the first.
LEMMA StreamWritten ==
  ASSUME BaseInv, NEW d \in Conn, StreamOK(d), WriteFrame(d), UNCHANGED clientVars
  PROVE  StreamOK(d)'
<1> DEFINE f == Head(queue[d])
<1>1. /\ wire \in [Conn -> Seq(GoodFrame)] /\ wire[d] \in Seq(GoodFrame)
      /\ queue \in [Conn -> Seq(GoodFrame)] /\ queue[d] \in Seq(GoodFrame)
      /\ queue[d] # <<>> /\ link[d] = "up"
  BY StreamTypes DEF WriteFrame, BaseInv
<1>2. /\ client' = client /\ Session' = Session /\ hub' = hub /\ rest' = rest /\ link' = link
      /\ queue'[d] = Tail(queue[d]) /\ wire'[d] = Append(wire[d], f)
  BY <1>1 DEF WriteFrame, clientVars, Session
<1>3. /\ f \in GoodFrame /\ f = queue[d][1]
      /\ OfSession(queue[d], Session)
      /\ OfSession(queue[d], Session) => f.session = Session
      /\ Events(queue[d]) => f.type = "event" /\ Events(Tail(queue[d]))
      /\ SnapshotFirst(queue[d]) => f.type = "snapshot" /\ Events(Tail(queue[d]))
  BY <1>1, FramesTaken, TailFacts DEF SnapshotFirst, BaseInv, OrderInv, RestOK
<1> HIDE DEF f
<1>4. /\ OfSession(wire[d], Session) => OfSession(wire'[d], Session)
      /\ Events(wire[d]) /\ f.type = "event" => Events(wire'[d])
      /\ SnapshotFirst(wire[d]) /\ f.type = "event" =>
           SnapshotFirst(wire'[d]) /\ wire'[d][1] = wire[d][1]
      /\ wire[d] = <<>> /\ f.type = "snapshot" =>
           SnapshotFirst(wire'[d]) /\ wire'[d][1] = f
  BY <1>1, <1>2, <1>3, FramesAppended DEF SnapshotFirst
<1>5. ~Waiting(d)
  BY <1>1 DEF Waiting
<1>6. CASE Queued(d)
  <2>1. OfSession(wire[d], Session)
    BY <1>6, NoFrames DEF Queued
  <2> QED BY <1>1, <1>2, <1>3, <1>4, <1>6, <2>1
          DEF StreamOK, Queued, Written, Follows, Fresh
<1>7. CASE Written(d)
  BY <1>1, <1>2, <1>3, <1>4, <1>7 DEF StreamOK, Written, Follows, Fresh
<1>8. CASE Received(d)
  BY <1>1, <1>2, <1>3, <1>4, <1>8 DEF StreamOK, Received, Follows
<1> QED BY <1>5, <1>6, <1>7, <1>8 DEF StreamOK

\* On an open socket a snapshot comes first, then events of its session.
LEMMA StreamStep ==
  ASSUME OneAtATime, BaseInv, SocketInv, CopyInv, StreamInv, [Next]_vars
  PROVE  StreamInv'
<1> SUFFICES ASSUME NEW d \in Conn, sock'[d] = "open" PROVE StreamOK(d)'
  BY DEF StreamInv
<1>0. /\ rest \in [Conn -> Seq(GoodFrame)] /\ rest[d] \in Seq(GoodFrame)
      /\ queue \in [Conn -> Seq(GoodFrame)] /\ queue[d] \in Seq(GoodFrame)
      /\ wire \in [Conn -> Seq(GoodFrame)] /\ wire[d] \in Seq(GoodFrame)
      /\ hub \in [Conn -> {"none", "hello", "snapped", "fetched", "enqueueing", "serving"}]
      /\ link \in [Conn -> {"up", "shut", "down"}]
      /\ overflow \in [Conn -> BOOLEAN]
      /\ sock \in [Conn -> {"free", "dialing", "open", "closing"}]
      /\ client \in Clients /\ TypeInv
  BY StreamTypes DEF BaseInv, TypeInv
<1>1. LinkOK(d) /\ RestOK(d) /\ (sock[d] = "open" => StreamOK(d))
  BY DEF BaseInv, LinkInv, OrderInv, StreamInv
\* The daemon.
<1>2. ASSUME NEW c \in Conn, GetSnapshot(c), UNCHANGED clientVars PROVE StreamOK(d)'
  <2>1. CASE c # d
    BY <1>0, <1>1, <1>2, <2>1, StreamFrame DEF GetSnapshot, clientVars, Session
  <2>2. CASE c = d
    <3> DEFINE f == SnapshotFrame(Session, Len(Log))
    <3>1. Fresh(f) /\ SnapshotFirst(<<f>>)
      BY DEF Fresh, SnapshotFrame, SnapshotFirst, EventsBehind, CopyInv, CopyOK, Log, Session, NoSession
    <3>2. /\ client' = client /\ hub[d] = "hello" /\ hub'[d] = "snapped" /\ rest'[d] = <<f>>
          /\ queue' = queue /\ wire' = wire /\ link' = link /\ Session' = Session
      BY <1>0, <1>2, <2>2 DEF GetSnapshot, clientVars, Session
    <3>3. sock[d] = "open"
      BY <1>2 DEF clientVars
    <3> HIDE DEF f
    <3> QED BY <1>1, <3>1, <3>2, <3>3
            DEF StreamOK, Waiting, Queued, Written, Received, Follows, Fresh
  <2> QED BY <2>1, <2>2
<1>3. ASSUME NEW c \in Conn, GetEventsSince(c), UNCHANGED clientVars PROVE StreamOK(d)'
  <2>1. CASE c # d
    BY <1>0, <1>1, <1>3, <2>1, StreamFrame DEF GetEventsSince, clientVars, Session
  <2>2. CASE c = d
    <3>1. PICK more \in Seq(GoodFrame) :
            /\ rest' = [rest EXCEPT ![c] = @ \o more]
            /\ \A i \in 1 .. Len(more) : more[i] = EventFrame(Session, since[c] + i)
      BY <1>0, <1>3, CatchUp
    <3>2. ASSUME NEW i \in 1 .. Len(more)
          PROVE  more[i].session = Session /\ more[i].type = "event"
      <4>1. more[i] = EventFrame(Session, since[c] + i)
        BY <3>1, Zenon
      <4> QED BY <4>1 DEF EventFrame
    <3>3. SnapshotFirst(rest[d]) => /\ SnapshotFirst(rest[d] \o more)
                                    /\ (rest[d] \o more)[1] = rest[d][1]
      <4>1. SnapshotFirst(rest[d]) => SnapshotFirst(rest[d] \o more)
        BY <1>0, <3>2, FramesJoined
      <4>2. rest[d] # <<>> => (rest[d] \o more)[1] = rest[d][1]
        BY <1>0
      <4> QED BY <4>1, <4>2 DEF SnapshotFirst
    <3>4. /\ client' = client /\ hub[d] = "snapped" /\ hub'[d] = "fetched"
          /\ rest'[d] = rest[d] \o more
          /\ queue' = queue /\ wire' = wire /\ link' = link /\ Session' = Session
          /\ sock[d] = "open"
      BY <1>0, <1>3, <2>2, <3>1 DEF GetEventsSince, clientVars, Session
    <3> QED BY <1>1, <3>3, <3>4
            DEF StreamOK, Waiting, Queued, Written, Received, Follows, Fresh
  <2> QED BY <2>1, <2>2
<1>4. ASSUME NEW c \in Conn, Register(c), UNCHANGED clientVars PROVE StreamOK(d)'
  <2>1. CASE c # d
    BY <1>0, <1>1, <1>4, <2>1, StreamFrame DEF Register, clientVars, Session
  <2>2. CASE c = d
    <3>1. /\ client' = client /\ hub[d] = "fetched" /\ hub'[d] = "enqueueing"
          /\ rest' = rest /\ queue' = queue /\ wire' = wire /\ link' = link
          /\ Session' = Session /\ sock[d] = "open"
      BY <1>0, <1>4, <2>2 DEF Register, clientVars, Session
    <3> QED BY <1>1, <3>1
            DEF StreamOK, Waiting, Queued, Written, Received, Follows, Fresh
  <2> QED BY <2>1, <2>2
<1>5. ASSUME NEW c \in Conn, EnqueueRest(c), UNCHANGED clientVars PROVE StreamOK(d)'
  <2>1. CASE c # d
    <3>1. queue'[d] = queue[d]
      BY <1>0, <1>5, <2>1, EnqueueFrames DEF EnqueueRest
    <3> QED BY <1>0, <1>1, <1>5, <2>1, <3>1, StreamFrame DEF EnqueueRest, clientVars, Session
  <2>2. CASE c = d
    BY <1>1, <1>5, <2>2, StreamCatchUp DEF clientVars
  <2> QED BY <2>1, <2>2
<1>6. ASSUME NEW c \in Conn, Unregister(c), UNCHANGED clientVars PROVE StreamOK(d)'
  <2>1. /\ client' = client /\ rest' = rest /\ queue' = queue /\ wire' = wire /\ link' = link
        /\ Session' = Session /\ sock[d] = "open"
        /\ hub'[d] = hub[d] \/ link[d] # "up"
    BY <1>0, <1>6 DEF Unregister, clientVars, Session
  <2> QED BY <1>1, <2>1
          DEF StreamOK, Waiting, Queued, Written, Received, Follows, Fresh
<1>7. ASSUME NEW c \in Conn, WriteFrame(c), UNCHANGED clientVars PROVE StreamOK(d)'
  <2>1. CASE c # d
    BY <1>0, <1>1, <1>7, <2>1, StreamFrame DEF WriteFrame, clientVars, Session
  <2>2. CASE c = d
    BY <1>1, <1>7, <2>2, StreamWritten DEF clientVars
  <2> QED BY <2>1, <2>2
<1>8. ASSUME NEW c \in Conn, CloseOverflown(c), UNCHANGED clientVars PROVE StreamOK(d)'
  <2>1. CASE c # d
    BY <1>0, <1>1, <1>8, <2>1, StreamFrame DEF CloseOverflown, clientVars, Session
  <2>2. CASE c = d
    <3>1. /\ client' = client /\ rest' = rest /\ wire' = wire /\ hub' = hub
          /\ queue'[d] = <<>> /\ link'[d] = "shut"
          /\ Session' = Session /\ sock[d] = "open"
      BY <1>0, <1>8, <2>2 DEF CloseOverflown, clientVars, Session
    <3> QED BY <1>1, <3>1, NoFrames
            DEF StreamOK, Waiting, Queued, Written, Received, Follows, Fresh
  <2> QED BY <2>1, <2>2
<1>9. ASSUME NEW w \in Writer, Append_(w), UNCHANGED clientVars PROVE StreamOK(d)'
  <2>1. PICK ev \in ProperEvent : AppendEvent(w, ev)
    BY <1>9, WriterAssumption DEF Append_
  <2>2. Session' = Session
    BY <1>0, <2>1, AppendToLogs DEF TypeInv, Session
  <2> QED BY <1>1, <1>9, <2>1, <2>2, StreamFrame DEF AppendEvent, clientVars
<1>10. ASSUME NEW w \in Writer, CopyClients(w), UNCHANGED clientVars PROVE StreamOK(d)'
  BY <1>1, <1>10, StreamFrame DEF CopyClients, clientVars, Session
<1>11. ASSUME NEW w \in Writer, NEW c \in Conn, EnqueueTo(w, c), UNCHANGED clientVars
       PROVE StreamOK(d)'
  BY <1>1, <1>11, StreamBroadcast DEF clientVars
<1>12. ASSUME Restart, UNCHANGED clientVars PROVE StreamOK(d)'
  <2>1. /\ client' = client /\ wire' = wire /\ queue'[d] = <<>> /\ link'[d] # "up"
        /\ sock[d] = "open"
    BY <1>0, <1>1, <1>12 DEF Restart, clientVars, LinkOK
  <2> QED BY <1>1, <2>1, NoFrames
          DEF StreamOK, Waiting, Queued, Written, Received, Follows, Fresh
\* The client.
<1>13. ASSUME NEW c \in Conn, ConnectCalled(c) \/ ReconnectTimer(c) PROVE FALSE
  <2>1. sock[d] = "free" /\ sock' = [sock EXCEPT ![c] = "dialing"]
    BY <1>13, NoneInUse DEF ConnectCalled, ReconnectTimer, Open
  <2> QED BY <1>0, <2>1
<1>14. ASSUME NEW c \in Conn, OnOpen(c) PROVE StreamOK(d)'
  <2>1. c = d
    BY <1>0, <1>14 DEF OnOpen, SocketInv
  <2>2. /\ wire[d] = <<>> /\ queue[d] = <<>> /\ hub'[d] = "hello"
        /\ wire' = wire /\ queue' = queue
    BY <1>0, <1>1, <1>14, <2>1 DEF OnOpen, ReadHello, LinkOK
  <2> QED BY <2>2 DEF StreamOK, Waiting
<1>15. ASSUME NEW c \in Conn, NextFrame(c, "snapshot") \/ NextFrame(c, "event"), sock' = sock
       PROVE  c = d
  BY <1>15 DEF NextFrame, SocketInv
<1>16. ASSUME NEW c \in Conn, OnSnapshot(c) PROVE StreamOK(d)'
  <2>1. NextFrame(c, "snapshot") /\ c = d
    BY <1>15, <1>16 DEF OnSnapshot
  <2>2. /\ wire'[d] = Tail(wire[d]) /\ queue' = queue /\ rest' = rest /\ hub' = hub
        /\ link' = link /\ Session' = Session
    BY <1>0, <1>16, <2>1 DEF OnSnapshot, hubVars, Session
  <2>3. /\ Written(d) /\ Events(Tail(wire[d]))
        /\ OfSession(Tail(wire[d]), wire[d][1].session)
        /\ Head(wire[d]) = wire[d][1]
    BY <1>0, <2>1, SnapshotReceived
  <2>4. client'.session.id = wire[d][1].session
    BY <1>0, <1>16, <2>1, <2>3, SnapshotMakes
  <2>5. wire[d][1].session # NoSession
    BY <1>0, <2>1, <2>3, FrameReceived DEF NoSession
  <2> QED BY <2>2, <2>3, <2>4, <2>5 DEF StreamOK, Written, Received, Follows
<1>17. ASSUME NEW c \in Conn, OnEvent(c) PROVE StreamOK(d)'
  <2>1. NextFrame(c, "event") /\ c = d
    BY <1>15, <1>17 DEF OnEvent
  <2>2. /\ wire'[d] = Tail(wire[d]) /\ queue' = queue /\ rest' = rest /\ hub' = hub
        /\ link' = link /\ Session' = Session
    BY <1>0, <1>17, <2>1 DEF OnEvent, hubVars, Session
  <2>3. /\ Received(d) /\ Events(Tail(wire[d]))
        /\ OfSession(Tail(wire[d]), client.session.id)
    BY <1>0, <2>1, EventReceived
  <2>4. client'.session.id = client.session.id
    <3>1. client.session.lastSeq \in Nat /\ Head(wire[c]).seq \in Nat
      BY <1>0, <2>1, FrameReceived DEF Clients, SessionStates
    <3> QED BY <1>0, <1>17, <3>1, EventMakes
  <2> QED BY <2>2, <2>3, <2>4 DEF StreamOK, Received, Follows
<1>18. ASSUME NEW c \in Conn, OnGap(c) PROVE FALSE
  BY <1>18 DEF OnGap, NextFrame, SocketInv
<1>19. ASSUME NEW c \in Conn, OnClose(c) PROVE FALSE
  BY <1>0, <1>19 DEF OnClose, SocketInv
<1>20. ASSUME NEW c \in Conn, ConnectionLost(c) PROVE StreamOK(d)'
  <2>1. c = d
    BY <1>20 DEF ConnectionLost, SocketInv
  <2>2. wire'[d] = <<>> /\ queue'[d] = <<>> /\ link'[d] # "up"
    BY <1>0, <1>20, <2>1 DEF ConnectionLost, Cut
  <2> QED BY <2>2 DEF StreamOK, Waiting
<1>21. CASE CloseCalled
  <2>1. sock[d] = "open" /\ client.socket # d
    BY <1>21 DEF CloseCalled
  <2> QED BY <2>1 DEF SocketInv
<1>22. CASE UNCHANGED vars
  BY <1>1, <1>22, StreamFrame DEF vars, hubVars, Session
<1> QED
  BY <1>2, <1>3, <1>4, <1>5, <1>6, <1>7, <1>8, <1>9, <1>10, <1>11, <1>12, <1>13, <1>14,
     <1>16, <1>17, <1>18, <1>19, <1>20, <1>21, <1>22
     DEF Next, ServeStep, WriterStep, WriteStep

SyncInv == BaseInv /\ SocketInv /\ CopyInv /\ StreamInv

\* What is shown is a prefix, and what is under way continues it.
LEMMA SyncInvariant ==
  ASSUME OneAtATime
  PROVE  Spec => []SyncInv
<1>1. Init => SocketInv /\ CopyInv /\ StreamInv
  BY DEF Init, HubInit, SocketInv, CopyInv, CopyOK, StreamInv, NewClient, NewSessionState,
         NoSession
<1>2. SocketInv /\ CopyInv /\ StreamInv /\ BaseInv /\ [Next]_vars
        => (SocketInv /\ CopyInv /\ StreamInv)'
  BY SocketStep, CopyStep, StreamStep DEF BaseInv
<1> QED BY <1>1, <1>2, BaseInvariant, PTL DEF Spec, SyncInv

-----------------------------------------------------------------------------
(* Refinement *)

\* Every step is a step of the abstract specification, or a stutter.
LEMMA StepRefines ==
  ASSUME SyncInv, [Next]_vars
  PROVE  [ScreenLog!Next]_(ScreenLog!rvars)
<1> DEFINE old == client.session
           new == client'.session
<1> USE DEF ScreenLog!Next, ScreenLog!rvars
<1>1. TypeInv /\ LogsInv /\ CopyOK(old) /\ client \in Clients /\ old \in SessionStates
  BY DEF SyncInv, BaseInv, TypeInv, CopyInv, Clients
<1>2. DOMAIN logs = 1 .. Len(logs) /\ old.transcript \in Seq(ProperEvent)
      /\ old.lastSeq \in Nat
  BY <1>1 DEF LogsInv, SessionStates
<1>3. CASE UNCHANGED <<logs, client>>
  BY <1>3
<1>4. ASSUME NEW w \in Writer, Append_(w), UNCHANGED clientVars PROVE ScreenLog!Next
  <2>1. PICK ev \in ProperEvent : AppendEvent(w, ev)
    BY <1>4, WriterAssumption DEF Append_
  <2>2. ev \in Event /\ logs' = [logs EXCEPT ![Len(logs)] = Append(@, ev)]
        /\ UNCHANGED client
    BY <1>4, <2>1 DEF AppendEvent, Session, ProperEvent, clientVars
  <2> QED BY <2>2 DEF ScreenLog!AppendToLog
<1>5. ASSUME Restart, UNCHANGED clientVars PROVE ScreenLog!Next
  BY <1>5 DEF Restart, clientVars, ScreenLog!NewSession
<1>6. CASE logs' = logs /\ new = old
  BY <1>6
<1>7. CASE logs' = logs /\ new = NewSessionState
  BY <1>7 DEF ScreenLog!StartAgain, NewSessionState
<1>8. ASSUME NEW c \in Conn, OnSnapshot(c)
      PROVE  ScreenLog!Next \/ UNCHANGED ScreenLog!rvars
  <2> DEFINE f == Head(wire[c])
  <2>1. NextFrame(c, "snapshot") /\ logs' = logs
    BY <1>8 DEF OnSnapshot, hubVars
  <2>2. f.session \in DOMAIN logs
    BY <1>1, <1>2, <2>1, FrameReceived
  <2>3. /\ new.id = f.session
        /\ old.id \in {NoSession, f.session} => new.transcript = old.transcript
        /\ old.id \notin {NoSession, f.session} => new.transcript = <<>>
    BY <1>1, <1>8, SnapshotMakes
  <2> HIDE DEF f, new
  <2>4. CASE old.id = f.session
    BY <2>1, <2>3, <2>4 DEF new
  <2>5. CASE old.id = NoSession
    <3>1. old.transcript = <<>>
      BY <1>1, <1>2, <2>5 DEF CopyOK
    <3> QED BY <2>1, <2>2, <2>3, <2>5, <3>1 DEF ScreenLog!Follow, new
  <2>6. CASE old.id \notin {NoSession, f.session}
    BY <2>1, <2>2, <2>3, <2>6 DEF ScreenLog!StartAgain, new
  <2> QED BY <2>4, <2>5, <2>6
<1>9. ASSUME NEW c \in Conn, OnEvent(c)
      PROVE  ScreenLog!Next \/ UNCHANGED ScreenLog!rvars
  <2> DEFINE f == Head(wire[c])
             ev == logs[f.session][f.seq]
  <2>1. NextFrame(c, "event") /\ logs' = logs
    BY <1>9 DEF OnEvent, hubVars
  <2>2. f.session = old.id /\ old.id # NoSession /\ f.seq \in 0 .. Len(logs[f.session])
    BY <1>1, <2>1, EventReceived, FrameReceived DEF Received, SyncInv
  <2>3. CASE f.seq <= old.lastSeq
    BY <1>1, <1>6, <1>9, <2>1, <2>3, EventMakes
  <2>4. CASE f.seq > old.lastSeq
    <3>1. /\ f.seq = old.lastSeq + 1
          /\ new.id = old.id
          /\ new.transcript = Append(old.transcript, ev)
      BY <1>1, <1>9, <2>4, EventMakes
    <3>2. Len(old.transcript) = old.lastSeq
      BY <1>1 DEF CopyOK
    <3>3. f.seq = Len(old.transcript) + 1 /\ Len(old.transcript) < Len(logs[old.id])
      <4> HIDE DEF f
      <4>1. Len(logs[f.session]) \in Nat
        BY <1>1, <2>2 DEF CopyOK, LogsInv
      <4> QED BY <1>2, <2>2, <3>1, <3>2, <4>1
    <3>4. ev = logs[old.id][Len(old.transcript) + 1]
      BY <2>2, <3>3
    <3> HIDE DEF f, ev
    <3> QED BY <2>1, <2>2, <3>1, <3>3, <3>4 DEF ScreenLog!ShowNext
  <2>5. f.seq \in Nat
    BY <1>1, <2>1, FrameReceived
  <2> QED BY <1>2, <2>3, <2>4, <2>5
<1>10. CASE /\ UNCHANGED logs
            /\ \/ new \in {old, NewSessionState}
               \/ \E c \in Conn : OnSnapshot(c) \/ OnEvent(c)
  BY <1>6, <1>7, <1>8, <1>9, <1>10
<1>11. \/ \E w \in Writer : Append_(w) /\ UNCHANGED clientVars
       \/ Restart /\ UNCHANGED clientVars
       \/ UNCHANGED logs
  <2>1. ASSUME NEW c \in Conn, ServeStep(c) \/ WriteStep(c) PROVE UNCHANGED logs
    BY <2>1 DEF ServeStep, WriteStep, GetSnapshot, GetEventsSince, Register, EnqueueRest,
                Unregister, WriteFrame, CloseOverflown
  <2>2. ASSUME NEW w \in Writer, WriterStep(w) PROVE UNCHANGED logs
    BY <2>2 DEF WriterStep, CopyClients, EnqueueTo
  <2>3. ASSUME NEW c \in Conn, ConnectCalled(c) \/ ReconnectTimer(c) \/ OnOpen(c)
        PROVE  UNCHANGED logs
    BY <2>3 DEF ConnectCalled, ReconnectTimer, Open, OnOpen, ReadHello, hubVars
  <2>4. ASSUME NEW c \in Conn, OnSnapshot(c) \/ OnEvent(c) \/ OnClose(c)
        PROVE  UNCHANGED logs
    BY <2>4 DEF OnSnapshot, OnEvent, OnClose, hubVars
  <2>5. ASSUME NEW c \in Conn, OnGap(c) \/ ConnectionLost(c) PROVE UNCHANGED logs
    BY <2>5 DEF OnGap, ConnectionLost
  <2> QED BY <2>1, <2>2, <2>3, <2>4, <2>5 DEF Next, CloseCalled, vars, hubVars
<1> QED BY <1>1, <1>4, <1>5, <1>10, <1>11, SessionStep

(***************************************************************************)
(* Event synchronisation keeps its promise: through appends, broadcasts    *)
(* out of order, overflows, broken connections, restarts of the daemon,    *)
(* gaps and full resyncs, the transcript of the client (client.ts,         *)
(* reducer.ts) grows by the next event of the log of its session and by    *)
(* nothing else, or starts again from nothing.                             *)
(***************************************************************************)
THEOREM ClientShowsTheLog ==
  ASSUME OneAtATime
  PROVE  Spec => Implements
<1>1. Init => ScreenLog!Init
  BY DEF Init, HubInit, ScreenLog!Init, NewClient, NewSessionState
<1>2. SyncInv /\ [Next]_vars => [ScreenLog!Next]_(ScreenLog!rvars)
  BY StepRefines
<1> QED BY <1>1, <1>2, SyncInvariant, PTL DEF Spec, Implements, ScreenLog!Spec

\* The client never shows anything but a prefix of the log of its session.
THEOREM TranscriptIsPrefix ==
  ASSUME OneAtATime
  PROVE  Spec => []ScreenLog!CopyIsPrefix
<1>1. ASSUME SyncInv PROVE ScreenLog!CopyIsPrefix
  <2> DEFINE s == client.session
             t == s.transcript
             log == logs[s.id]
  <2> SUFFICES ASSUME s.id # NoSession PROVE t = SubSeq(log, 1, Len(t))
    BY DEF ScreenLog!CopyIsPrefix
  <2>1. CopyOK(s) /\ t \in Seq(ProperEvent) /\ LogsInv
    BY <1>1 DEF SyncInv, BaseInv, TypeInv, CopyInv, Clients, SessionStates
  <2>2. /\ log \in Seq(ProperEvent) /\ Len(t) <= Len(log)
        /\ \A i \in 1 .. Len(t) : t[i] = log[i]
    BY <2>1 DEF CopyOK, LogsInv
  <2> HIDE DEF t, log
  <2> QED BY <2>1, <2>2
<1> QED BY <1>1, SyncInvariant, PTL

-----------------------------------------------------------------------------
(* The state the client shows *)

\* Replaying a log over the state of a later moment: the ids asked and
\* resolved in between may be shown early, or be gone for a while, and no
\* others.
Between(view, v1, v2) ==
  /\ view.status \in {v1.status, v2.status}
  /\ view.mode \in {v1.mode, v2.mode}
  /\ v1.pending \cap v2.pending \subseteq view.pending
  /\ view.pending \subseteq v1.pending \cup v2.pending

\* Between equal ends there is one view.
LEMMA BetweenSame ==
  ASSUME NEW view \in View, NEW v \in View
  PROVE  Between(view, v, v) <=> view = v
BY DEF Between, View

\* Replaying an event moves the lower end and stays below the upper one.
LEMMA BetweenStep ==
  ASSUME NEW view \in View, NEW v1 \in View, NEW v2 \in View, NEW ev \in ProperEvent,
         Between(view, v1, v2)
  PROVE  Between(Materialize(view, ev), Materialize(v1, ev), v2)
<1>1. ev.kind \in EventKind
  BY DEF ProperEvent, Event
<1>2. CASE ev.kind \in {"permission_request", "question"}
  BY <1>2 DEF Between, View, Materialize
<1>3. CASE ev.kind \in {"permission_resolved", "question_resolved"}
  BY <1>3 DEF Between, View, Materialize
<1>4. CASE ev.kind = "status_change"
  BY <1>4 DEF Between, View, Materialize
<1>5. CASE ev.kind = "mode_changed"
  BY <1>5 DEF Between, View, Materialize
<1>6. CASE ev.kind \in {"user_prompt", "output"}
  BY <1>6 DEF Between, View, Materialize
<1> QED BY <1>1, <1>2, <1>3, <1>4, <1>5, <1>6 DEF EventKind

\* The beginning of a log does not change, and neither does its snapshot.
LEMMA SnapAtKept ==
  ASSUME LogsInv, LogsInv', Extends, NEW s \in 1 .. Len(logs), NEW n \in 0 .. Len(logs[s])
  PROVE  SnapAt(logs[s], n)' = SnapAt(logs[s], n)
<1>1. /\ logs[s] \in Seq(ProperEvent) /\ logs'[s] \in Seq(ProperEvent)
      /\ Len(logs[s]) <= Len(logs'[s])
      /\ \A i \in 1 .. Len(logs[s]) : logs'[s][i] = logs[s][i]
  BY DEF LogsInv, Extends
<1>2. SubSeq(logs[s], 1, n) = SubSeq(logs'[s], 1, n)
  BY <1>1
<1> QED BY <1>2 DEF SnapAt

TipOf(s) == IF s.lastSeq < s.tipSeq THEN s.tipSeq ELSE s.lastSeq

(***************************************************************************)
(* The view is the snapshot of the seq tipSeq with the events up to        *)
(* lastSeq replayed over it, some of them for the second time; it is right *)
(* when the client is live, for then lastSeq has reached tipSeq.           *)
(***************************************************************************)
ViewOK(s) ==
  s.id # NoSession =>
    Between(s.view, SnapAt(logs[s.id], s.lastSeq), SnapAt(logs[s.id], TipOf(s)))

ViewInv ==
  /\ ViewOK(client.session)
  /\ client.phase = "live" =>
       client.session.id # NoSession /\ client.session.lastSeq >= client.session.tipSeq

\* A view right for a log is right for the longer log.
LEMMA ViewExtends ==
  ASSUME LogsInv, LogsInv', Extends, NEW s \in SessionStates, CopyOK(s), ViewOK(s)
  PROVE  ViewOK(s)'
<1> SUFFICES ASSUME s.id # NoSession
             PROVE  Between(s.view, SnapAt(logs[s.id], s.lastSeq), SnapAt(logs[s.id], TipOf(s)))'
  BY DEF ViewOK
<1>1. s.id \in 1 .. Len(logs) /\ s.lastSeq \in 0 .. Len(logs[s.id])
      /\ TipOf(s) \in 0 .. Len(logs[s.id])
  <2>1. s.lastSeq \in Nat /\ s.tipSeq \in Nat
    BY DEF SessionStates
  <2> QED BY <2>1 DEF CopyOK, TipOf, LogsInv
<1>2. SnapAt(logs'[s.id], s.lastSeq) = SnapAt(logs[s.id], s.lastSeq)
      /\ SnapAt(logs'[s.id], TipOf(s)) = SnapAt(logs[s.id], TipOf(s))
  BY <1>1, SnapAtKept
<1>3. Between(s.view, SnapAt(logs[s.id], s.lastSeq), SnapAt(logs[s.id], TipOf(s)))
  BY DEF ViewOK
<1> QED BY <1>2, <1>3

\* The client's view stays between its lastSeq and its tip.
LEMMA ViewStep ==
  ASSUME SyncInv, ViewInv, [Next]_vars
  PROVE  ViewInv'
<1> DEFINE old == client.session
           new == client'.session
<1>1. /\ TypeInv /\ LogsInv /\ LogsInv' /\ Extends /\ CopyOK(old) /\ StreamInv
      /\ old \in SessionStates
  BY LogsStep, TypeStep DEF SyncInv, BaseInv, TypeInv, CopyInv, Clients
<1>2. /\ ViewOK(old)
      /\ client.phase = "live" => old.id # NoSession /\ old.lastSeq >= old.tipSeq
      /\ old.lastSeq \in Nat /\ old.tipSeq \in Nat /\ old.view \in View
      /\ old.id # NoSession => /\ old.id \in 1 .. Len(logs)
                               /\ logs[old.id] \in Seq(ProperEvent)
                               /\ Len(logs[old.id]) \in Nat
                               /\ old.lastSeq <= Len(logs[old.id])
                               /\ old.tipSeq <= Len(logs[old.id])
  <2>1. /\ ViewOK(old)
        /\ client.phase = "live" => old.id # NoSession /\ old.lastSeq >= old.tipSeq
    BY DEF ViewInv
  <2>2. old.lastSeq \in Nat /\ old.tipSeq \in Nat /\ old.view \in View
    BY <1>1 DEF SessionStates
  <2>3. old.id # NoSession => /\ old.id \in 1 .. Len(logs)
                              /\ old.lastSeq <= Len(logs[old.id])
                              /\ old.tipSeq <= Len(logs[old.id])
    BY <1>1 DEF CopyOK
  <2>4. \A n \in 1 .. Len(logs) : logs[n] \in Seq(ProperEvent) /\ Len(logs[n]) \in Nat
    BY <1>1 DEF LogsInv
  <2> HIDE DEF old
  <2> QED BY <2>1, <2>2, <2>3, <2>4
<1>3. CASE new = old /\ (client'.phase = "live" => client.phase = "live")
  <2>1. PICK s \in SessionStates : s = old
    BY <1>1
  <2>2. ViewOK(s)'
    BY <1>1, <1>2, <2>1, ViewExtends
  <2> QED BY <1>2, <1>3, <2>1, <2>2 DEF ViewInv, ViewOK
<1>4. CASE new = NewSessionState /\ client'.phase # "live"
  BY <1>4 DEF ViewInv, ViewOK, NewSessionState
<1>5. ASSUME NEW c \in Conn, OnSnapshot(c) PROVE ViewInv'
  <2> DEFINE f == Head(wire[c])
             log == logs[f.session]
  <2>1. NextFrame(c, "snapshot") /\ logs' = logs
    BY <1>5 DEF OnSnapshot, hubVars
  <2>2. /\ f.session \in 1 .. MaxSession /\ f.seq \in 0 .. Len(log) /\ log \in Seq(ProperEvent)
        /\ f.session # NoSession /\ Fresh(f) /\ f.seq \in Nat
    BY <1>1, <2>1, FrameReceived, SnapshotReceived DEF NoSession
  <2>3. /\ new.id = f.session /\ new.tipSeq = f.seq
        /\ new.view = SnapAt(log, f.seq)
        /\ old.id \in {NoSession, f.session} => new.lastSeq = old.lastSeq
        /\ old.id \notin {NoSession, f.session} => new.lastSeq = 0
        /\ client'.phase = "live" <=> new.lastSeq >= new.tipSeq
    BY <1>1, <1>5, SnapshotMakes
  <2>4. SnapAt(log, f.seq) \in View
    BY <2>2, SnapshotType DEF SnapAt
  <2>5. new.lastSeq <= f.seq
    <3>1. CASE old.id = f.session
      BY <2>2, <2>3, <3>1 DEF Fresh
    <3>2. CASE old.id = NoSession
      BY <1>1, <2>2, <2>3, <3>2 DEF CopyOK
    <3>3. CASE old.id \notin {NoSession, f.session}
      BY <2>2, <2>3, <3>3
    <3> QED BY <3>1, <3>2, <3>3
  <2>6. new.lastSeq \in Nat
    BY <1>2, <2>3
  <2>7. TipOf(new) = f.seq
    BY <2>2, <2>3, <2>5, <2>6 DEF TipOf
  <2> HIDE DEF f, log, new
  <2>8. Between(new.view, SnapAt(log, new.lastSeq), SnapAt(log, f.seq))
    <3>1. Between(new.view, SnapAt(log, f.seq), SnapAt(log, f.seq))
      BY <2>3, <2>4, BetweenSame
    <3> QED BY <3>1, <2>3, <2>4 DEF Between, View
  <2> QED BY <2>1, <2>2, <2>3, <2>7, <2>8 DEF ViewInv, ViewOK, new, log
<1>6. ASSUME NEW c \in Conn, OnEvent(c) PROVE ViewInv'
  <2> DEFINE f == Head(wire[c])
             log == logs[old.id]
             ev == logs[f.session][f.seq]
  <2>1. NextFrame(c, "event") /\ logs' = logs
    BY <1>6 DEF OnEvent, hubVars
  <2>2. f.session = old.id /\ old.id # NoSession /\ f.seq \in 0 .. Len(log) /\ f.seq \in Nat
    BY <1>1, <2>1, EventReceived, FrameReceived DEF Received
  <2>3. CASE f.seq <= old.lastSeq
    BY <1>1, <1>3, <1>6, <2>3, EventMakes
  <2>4. CASE f.seq > old.lastSeq
    <3> DEFINE n == old.lastSeq + 1
    <3>1. /\ f.seq = n /\ ev \in ProperEvent
          /\ new.id = old.id /\ new.tipSeq = old.tipSeq
          /\ new.view = Materialize(old.view, ev)
          /\ new.lastSeq = f.seq
          /\ client'.phase = "live" => client.phase = "live" \/ new.lastSeq >= new.tipSeq
      BY <1>1, <1>6, <2>4, EventMakes
    <3>2. log \in Seq(ProperEvent) /\ n \in 1 .. Len(log) /\ old.lastSeq \in 0 .. Len(log)
          /\ old.tipSeq \in 0 .. Len(log)
      <4> HIDE DEF f
      <4> QED BY <1>2, <2>2, <3>1
    <3>3. ev = log[n]
      BY <2>2, <3>1
    <3> DEFINE v1 == SnapAt(log, old.lastSeq)
    <3>4. SnapAt(log, n) = Materialize(v1, ev)
      <4>1. Snapshot(SubSeq(log, 1, n)) = Materialize(Snapshot(SubSeq(log, 1, n - 1)), log[n])
        BY <3>2, SnapshotStep
      <4>2. n - 1 = old.lastSeq
        BY <1>2
      <4> QED BY <3>3, <4>1, <4>2 DEF SnapAt
    <3>5. v1 \in View /\ SnapAt(log, old.tipSeq) \in View
      BY <3>2, SnapshotType DEF SnapAt
    <3>6. Between(old.view, v1, SnapAt(log, TipOf(old)))
      BY <1>2, <2>2 DEF ViewOK
    <3> HIDE DEF f, ev, v1, log, new, n
    <3>7. Between(new.view, SnapAt(log, n), SnapAt(log, TipOf(new)))
      <4>1. CASE old.lastSeq < old.tipSeq
        <5>1. TipOf(old) = old.tipSeq /\ TipOf(new) = old.tipSeq
          BY <1>2, <3>1, <4>1 DEF TipOf, n
        <5>2. Between(Materialize(old.view, ev), Materialize(v1, ev), SnapAt(log, old.tipSeq))
          BY <1>2, <3>1, <3>5, <3>6, <5>1, BetweenStep
        <5> QED BY <3>1, <3>4, <5>1, <5>2
      <4>2. CASE ~(old.lastSeq < old.tipSeq)
        <5>1. TipOf(old) = old.lastSeq /\ TipOf(new) = n
          BY <1>2, <3>1, <4>2 DEF TipOf, n
        <5>2. old.view = v1
          BY <1>2, <3>5, <3>6, <5>1, BetweenSame DEF v1
        <5>3. new.view = SnapAt(log, n) /\ new.view \in View
          BY <1>2, <3>1, <3>4, <5>2, MaterializeType
        <5> QED BY <5>1, <5>3, BetweenSame
      <4> QED BY <4>1, <4>2
    <3>8. client'.phase = "live" => new.lastSeq >= new.tipSeq
      BY <1>2, <3>1 DEF n
    <3> QED BY <2>1, <2>2, <3>1, <3>7, <3>8 DEF ViewInv, ViewOK, new, log
  <2> QED BY <1>2, <2>2, <2>3, <2>4
<1> QED BY <1>3, <1>4, <1>5, <1>6, <1>1, SessionStep

(***************************************************************************)
(* A live client shows the pending requests, the status and the mode of    *)
(* the log up to the last event it has: applySnapshot of a later moment    *)
(* and the catch-up applyEvent replays over it agree (reducer.ts).         *)
(***************************************************************************)
THEOREM LiveViewCorrect ==
  ASSUME OneAtATime
  PROVE  Spec => []LiveViewIsLog
<1>1. Init => ViewInv
  BY DEF Init, ViewInv, ViewOK, NewClient, NewSessionState
<1>2. SyncInv /\ ViewInv /\ [Next]_vars => ViewInv'
  BY ViewStep
<1>3. ASSUME SyncInv, ViewInv PROVE LiveViewIsLog
  <2> DEFINE s == client.session
  <2> SUFFICES ASSUME client.phase = "live"
               PROVE  s.view = SnapAt(logs[s.id], s.lastSeq)
    BY DEF LiveViewIsLog, SnapAt
  <2>1. /\ CopyOK(s) /\ LogsInv /\ s \in SessionStates
    BY <1>3 DEF SyncInv, BaseInv, TypeInv, CopyInv, Clients
  <2>2. /\ s.id # NoSession /\ s.lastSeq >= s.tipSeq /\ ViewOK(s)
        /\ s.lastSeq \in Nat /\ s.tipSeq \in Nat /\ s.view \in View
    BY <1>3, <2>1 DEF ViewInv, SessionStates
  <2>3. TipOf(s) = s.lastSeq
    BY <2>2 DEF TipOf
  <2>4. logs[s.id] \in Seq(ProperEvent) /\ s.lastSeq \in 0 .. Len(logs[s.id])
    BY <2>1, <2>2 DEF CopyOK, LogsInv
  <2>5. SnapAt(logs[s.id], s.lastSeq) \in View
    BY <2>4, SnapshotType DEF SnapAt
  <2> HIDE DEF s
  <2> QED BY <2>2, <2>3, <2>5, BetweenSame DEF ViewOK
<1> QED BY <1>1, <1>2, <1>3, SyncInvariant, PTL DEF Spec

-----------------------------------------------------------------------------
(* Where the events of the log are *)

\* One of these frames is event n.
IsEvent(f, n) == f.type = "event" /\ f.seq = n
Carries(q, n) == \E i \in DOMAIN q : IsEvent(q[i], n)

\* A queue carries what is appended to it.
LEMMA CarriesAppended ==
  ASSUME NEW S, NEW q \in Seq(S), NEW f \in S, NEW n
  PROVE  Carries(q, n) \/ IsEvent(f, n) => Carries(Append(q, f), n)
BY AppendFacts DEF Carries

\* What a queue carries is its head or stays in it.
LEMMA CarriesTaken ==
  ASSUME NEW S, NEW q \in Seq(S), q # <<>>, NEW n
  PROVE  Carries(q, n) => IsEvent(Head(q), n) \/ Carries(Tail(q), n)
<1> SUFFICES ASSUME NEW i \in DOMAIN q, IsEvent(q[i], n)
             PROVE  IsEvent(Head(q), n) \/ Carries(Tail(q), n)
  BY DEF Carries
<1>1. CASE i = 1
  BY <1>1, TailFacts
<1>2. CASE i # 1
  <2>1. i - 1 \in DOMAIN Tail(q) /\ Tail(q)[i - 1] = q[i]
    BY <1>2, TailFacts
  <2> QED BY <2>1 DEF Carries
<1> QED BY <1>1, <1>2

\* A broadcast of event n has not come to connection c yet.
Sending(w, c, n) ==
  /\ writer[w].seq = n
  /\ \/ writer[w].pc = "copy"
     \/ writer[w].pc = "send" /\ c \in writer[w].to

OnTheWay(c, n) ==
  \/ Carries(rest[c], n) \/ Carries(queue[c], n) \/ Carries(wire[c], n)
  \/ \E w \in Writer : Sending(w, c, n)

Covered(c, n) ==
  \/ n <= since[c]
  \/ n \in missed[c]
  \/ OnTheWay(c, n)
  \/ client.session.id = Session /\ n <= client.session.lastSeq

(***************************************************************************)
(* On a connection that has read the events and has not overflowed, every  *)
(* event of the log was not asked for, or fell into the window, or is      *)
(* somewhere on its way, or is shown.                                      *)
(***************************************************************************)
Fetched(c) ==
  /\ sock[c] = "open" /\ link[c] = "up" /\ ~overflow[c]
  /\ hub[c] \in {"fetched", "enqueueing", "serving"}

CoverOK(c) == Fetched(c) => \A n \in 1 .. Len(Log) : Covered(c, n)

CoverInv == \A c \in Conn : CoverOK(c)

\* Nothing gets lost on a connection nothing happens to.
LEMMA CoverFrame ==
  ASSUME NEW d \in Conn, CoverOK(d), client'.session = client.session,
         Session' = Session, Log' = Log,
         Fetched(d)' => Fetched(d),
         since'[d] = since[d], missed[d] \subseteq missed'[d],
         rest'[d] = rest[d], queue'[d] = queue[d], wire'[d] = wire[d],
         \A w \in Writer, n \in 1 .. Len(Log) :
           Sending(w, d, n) => Sending(w, d, n)' \/ n \in missed'[d]
  PROVE  CoverOK(d)'
BY DEF CoverOK, Covered, OnTheWay

\* A frame that moves on is still on its way.
LEMMA CoverMove ==
  ASSUME NEW d \in Conn, CoverOK(d), client'.session = client.session,
         Session' = Session, Log' = Log, since' = since, missed' = missed,
         Fetched(d)' =>
           /\ Fetched(d)
           /\ \A n \in 1 .. Len(Log) : OnTheWay(d, n) => OnTheWay(d, n)'
  PROVE  CoverOK(d)'
BY DEF CoverOK, Covered

\* Sending to one connection keeps what is being sent to the others.
LEMMA SentKeeps ==
  ASSUME TypeInv, NEW w \in Writer, NEW c \in Conn, NEW d \in Conn, c # d,
         writer'[w] = Sent(writer[w], c), writer[w].pc = "send", NEW n
  PROVE  Sending(w, d, n) => Sending(w, d, n)'
<1>1. writer[w] \in WriterStates
  BY DEF TypeInv, WriterInv
<1> QED BY <1>1 DEF Sending, Sent, WriterStates

\* A broadcast that comes to a connection moves the event onto its queue.
LEMMA CoverBroadcast ==
  ASSUME BaseInv, NEW d \in Conn, CoverOK(d),
         NEW w \in Writer, NEW c \in Conn, EnqueueTo(w, c), UNCHANGED clientVars
  PROVE  CoverOK(d)'
<1> DEFINE f == EventFrame(Session, writer[w].seq)
<1>1. f \in GoodFrame /\ \A n : writer[w].seq = n => IsEvent(f, n)
  BY FrameTypes DEF EventFrame, EnqueueTo, BaseInv, TypeInv, WriterInv, IsEvent
<1>2. /\ client' = client /\ sock' = sock /\ Session' = Session /\ Log' = Log /\ hub' = hub
      /\ rest' = rest /\ wire' = wire /\ link' = link /\ since' = since /\ missed' = missed
  BY DEF EnqueueTo, clientVars, Session, Log
<1>3. /\ Enqueue(c, f) /\ writer[w].pc = "send"
      /\ writer \in [Writer -> WriterStates]
      /\ writer' = [writer EXCEPT ![w] = Sent(writer[w], c)]
      /\ queue \in [Conn -> Seq(GoodFrame)] /\ queue[d] \in Seq(GoodFrame)
      /\ overflow \in [Conn -> BOOLEAN]
  BY StreamTypes DEF EnqueueTo, BaseInv, TypeInv, WriterInv
<1> HIDE DEF f
<1>4. \A v \in Writer, n \in 1 .. Len(Log) : v # w /\ Sending(v, d, n) => Sending(v, d, n)'
  BY <1>3 DEF Sending
<1>5. CASE c # d
  <2>1. queue'[d] = queue[d] /\ overflow'[d] = overflow[d]
    BY <1>3, <1>5 DEF Enqueue
  <2>2. \A n \in 1 .. Len(Log) : Sending(w, d, n) => Sending(w, d, n)'
    BY <1>3, <1>5, SentKeeps DEF BaseInv
  <2> QED BY <1>2, <1>4, <2>1, <2>2, CoverFrame DEF Fetched
<1>6. CASE c = d
  <2>1. ASSUME Fetched(d)'
        PROVE  Fetched(d) /\ queue'[d] = Append(queue[d], f)
    BY <1>2, <1>3, <1>6, <2>1 DEF Fetched, Enqueue
  <2>2. ASSUME Fetched(d)', NEW n \in 1 .. Len(Log), OnTheWay(d, n)
        PROVE  OnTheWay(d, n)'
    <3>1. Carries(queue[d], n) \/ IsEvent(f, n) => Carries(queue'[d], n)
      BY <1>1, <1>3, <2>1, <2>2, CarriesAppended
    <3>2. Sending(w, d, n) => IsEvent(f, n)
      BY <1>1 DEF Sending
    <3> QED BY <1>2, <1>4, <2>2, <3>1, <3>2 DEF OnTheWay
  <2> QED BY <1>2, <2>1, <2>2, CoverMove
<1> QED BY <1>5, <1>6

\* Serving a connection moves events from catch-up to queue to wire.
LEMMA CoverServe ==
  ASSUME BaseInv, NEW d \in Conn, CoverOK(d), UNCHANGED clientVars,
         GetEventsSince(d) \/ EnqueueRest(d) \/ WriteFrame(d)
  PROVE  CoverOK(d)'
<1>1. /\ rest \in [Conn -> Seq(GoodFrame)] /\ rest[d] \in Seq(GoodFrame)
      /\ queue \in [Conn -> Seq(GoodFrame)] /\ queue[d] \in Seq(GoodFrame)
      /\ wire \in [Conn -> Seq(GoodFrame)] /\ wire[d] \in Seq(GoodFrame)
      /\ hub \in [Conn -> {"none", "hello", "snapped", "fetched", "enqueueing", "serving"}]
      /\ overflow \in [Conn -> BOOLEAN]
  BY StreamTypes DEF BaseInv
<1>2. /\ client' = client /\ sock' = sock /\ Session' = Session /\ Log' = Log
      /\ writer' = writer /\ link' = link /\ since' = since /\ missed' = missed
  BY DEF GetEventsSince, EnqueueRest, WriteFrame, clientVars, Session, Log
<1>3. \A w \in Writer, n \in 1 .. Len(Log) : Sending(w, d, n) => Sending(w, d, n)'
  BY <1>2 DEF Sending
<1>4. CASE GetEventsSince(d)
  <2>1. PICK more \in Seq(GoodFrame) :
          /\ rest' = [rest EXCEPT ![d] = @ \o more]
          /\ \A i \in 1 .. Len(more) : more[i] = EventFrame(Session, since[d] + i)
          /\ \A n \in 1 .. Len(Log) :
               n > since[d] => \E i \in 1 .. Len(more) : since[d] + i = n
    BY <1>4, CatchUp DEF BaseInv
  <2>2. ASSUME NEW n \in 1 .. Len(Log) PROVE Covered(d, n)'
    <3>1. since[d] \in Nat /\ since'[d] = since[d]
      BY <1>2 DEF BaseInv, TypeInv, PlaceInv
    <3>2. CASE n <= since[d]
      BY <1>2, <3>2 DEF Covered
    <3>3. CASE ~(n <= since[d])
      <4>0. n > since[d]
        BY <3>1, <3>3
      <4>1. PICK i \in 1 .. Len(more) : since[d] + i = n
        BY <2>1, <4>0, Zenon
      <4>2. IsEvent(more[i], n)
        <5>1. more[i] = EventFrame(Session, since[d] + i)
          BY <2>1, Zenon
        <5> QED BY <4>1, <5>1 DEF EventFrame, IsEvent
      <4>3. /\ rest'[d] = rest[d] \o more
            /\ Len(rest[d]) + i \in DOMAIN (rest[d] \o more)
            /\ (rest[d] \o more)[Len(rest[d]) + i] = more[i]
        BY <1>1, <2>1, JoinFacts
      <4>4. Carries(rest'[d], n)
        BY <4>2, <4>3 DEF Carries
      <4> QED BY <4>4 DEF Covered, OnTheWay
    <3> QED BY <3>2, <3>3
  <2> QED BY <1>2, <2>2 DEF CoverOK
<1>5. CASE EnqueueRest(d)
  <2> DEFINE f == Head(rest[d])
  <2>1. /\ rest[d] # <<>> /\ f \in GoodFrame /\ Enqueue(d, f)
        /\ rest'[d] = Tail(rest[d]) /\ wire' = wire
        /\ hub[d] = "enqueueing"
    BY <1>1, <1>5, TailFacts DEF EnqueueRest, BaseInv, TypeInv, RestInv
  <2>2. \A n : Carries(rest[d], n) => IsEvent(f, n) \/ Carries(Tail(rest[d]), n)
    BY <1>1, <2>1, CarriesTaken
  <2> HIDE DEF f
  <2>3. ASSUME Fetched(d)'
        PROVE  Fetched(d) /\ queue'[d] = Append(queue[d], f)
    BY <1>1, <1>2, <2>1, <2>3 DEF Fetched, Enqueue
  <2>4. ASSUME Fetched(d)', NEW n \in 1 .. Len(Log), OnTheWay(d, n)
        PROVE  OnTheWay(d, n)'
    <3>1. Carries(queue[d], n) \/ IsEvent(f, n) => Carries(queue'[d], n)
      <4>1. Carries(queue[d], n) \/ IsEvent(f, n) => Carries(Append(queue[d], f), n)
        BY <1>1, <2>1, CarriesAppended
      <4> QED BY <2>3, <2>4, <4>1
    <3> QED BY <1>3, <2>1, <2>2, <2>4, <3>1 DEF OnTheWay
  <2> QED BY <1>2, <2>3, <2>4, CoverMove
<1>6. CASE WriteFrame(d)
  <2> DEFINE f == Head(queue[d])
  <2>1. /\ queue[d] # <<>> /\ f \in GoodFrame
        /\ queue'[d] = Tail(queue[d]) /\ wire'[d] = Append(wire[d], f)
        /\ rest' = rest /\ hub' = hub /\ overflow' = overflow
    BY <1>1, <1>6, TailFacts DEF WriteFrame
  <2>2. \A n : Carries(queue[d], n) => IsEvent(f, n) \/ Carries(Tail(queue[d]), n)
    BY <1>1, <2>1, CarriesTaken
  <2> HIDE DEF f
  <2>3. Fetched(d)' => Fetched(d)
    BY <1>2, <2>1 DEF Fetched
  <2>4. ASSUME NEW n \in 1 .. Len(Log), OnTheWay(d, n)
        PROVE  OnTheWay(d, n)'
    <3>1. Carries(wire[d], n) \/ IsEvent(f, n) => Carries(wire'[d], n)
      BY <1>1, <2>1, CarriesAppended
    <3> QED BY <1>3, <2>1, <2>2, <2>4, <3>1 DEF OnTheWay
  <2> QED BY <1>2, <2>3, <2>4, CoverMove
<1> QED BY <1>4, <1>5, <1>6

\* An event received is shown, or was already; a snapshot received leaves what
\* is shown of its session.
LEMMA CoverReceived ==
  ASSUME SyncInv, NEW d \in Conn, CoverOK(d), OnSnapshot(d) \/ OnEvent(d)
  PROVE  CoverOK(d)'
<1> DEFINE f == Head(wire[d])
           old == client.session
           new == client'.session
<1>1. /\ wire \in [Conn -> Seq(GoodFrame)] /\ wire[d] \in Seq(GoodFrame)
      /\ TypeInv /\ StreamInv /\ old.lastSeq \in Nat
  BY StreamTypes DEF SyncInv, BaseInv, TypeInv, Clients, SessionStates
<1>2. /\ sock' = sock /\ Session' = Session /\ Log' = Log /\ hub' = hub /\ queue' = queue
      /\ rest' = rest /\ writer' = writer /\ link' = link /\ since' = since
      /\ overflow' = overflow /\ missed' = missed
      /\ wire[d] # <<>> /\ wire'[d] = Tail(wire[d])
  BY <1>1 DEF OnSnapshot, OnEvent, NextFrame, hubVars, Session, Log
<1>3. \A n : Carries(wire[d], n) => IsEvent(f, n) \/ Carries(Tail(wire[d]), n)
  BY <1>1, <1>2, CarriesTaken
<1> SUFFICES ASSUME Fetched(d)', NEW n \in 1 .. Len(Log), Covered(d, n)
             PROVE  Covered(d, n)'
  BY <1>2 DEF CoverOK, Fetched
<1>4. link[d] = "up" /\ n \in Nat
  BY <1>2 DEF Fetched
<1>5. OnTheWay(d, n) => IsEvent(f, n) \/ OnTheWay(d, n)'
  BY <1>2, <1>3 DEF OnTheWay, Sending
<1>6. CASE OnSnapshot(d)
  <2>1. NextFrame(d, "snapshot") /\ Written(d) /\ f = wire[d][1]
    BY <1>1, <1>6, SnapshotReceived DEF OnSnapshot
  <2>2. ~IsEvent(f, n)
    BY <2>1 DEF NextFrame, IsEvent
  <2>3. f.session = Session
    BY <1>4, <2>1 DEF Written, Follows
  <2>4. old.id = f.session => new.id = f.session /\ new.lastSeq = old.lastSeq
    BY <1>1, <1>6, SnapshotMakes
  <2> HIDE DEF f
  <2> QED BY <1>2, <1>5, <2>2, <2>3, <2>4 DEF Covered
<1>7. CASE OnEvent(d)
  <2>1. NextFrame(d, "event") /\ Received(d) /\ f.session = old.id
    BY <1>1, <1>7, EventReceived DEF OnEvent
  <2>2. f.session = Session
    BY <1>4, <2>1 DEF Received, Follows
  <2>3. f.seq \in Nat
    BY <1>1, <2>1, FrameReceived
  <2>4. new.id = Session /\ new.lastSeq \in Nat /\ new.lastSeq >= f.seq
        /\ new.lastSeq >= old.lastSeq
    <3>1. CASE f.seq <= old.lastSeq
      BY <1>1, <1>7, <2>1, <2>2, <2>3, <3>1, EventMakes
    <3>2. CASE f.seq > old.lastSeq
      BY <1>1, <1>7, <2>1, <2>2, <2>3, <3>2, EventMakes
    <3> QED BY <1>1, <2>3, <3>1, <3>2
  <2> HIDE DEF f
  <2> QED BY <1>1, <1>2, <1>4, <1>5, <2>1, <2>2, <2>3, <2>4 DEF Covered, IsEvent
<1> QED BY <1>6, <1>7

\* Every event is shown, on its way, not asked for, or fell into the window.
LEMMA CoverStep ==
  ASSUME OneAtATime, SyncInv, CoverInv, [Next]_vars
  PROVE  CoverInv'
<1> SUFFICES ASSUME NEW d \in Conn, sock'[d] = "open" PROVE CoverOK(d)'
  BY DEF CoverInv, CoverOK, Fetched
<1>0. /\ hub \in [Conn -> {"none", "hello", "snapped", "fetched", "enqueueing", "serving"}]
      /\ link \in [Conn -> {"up", "shut", "down"}]
      /\ overflow \in [Conn -> BOOLEAN]
      /\ sock \in [Conn -> {"free", "dialing", "open", "closing"}]
      /\ rest \in [Conn -> Seq(GoodFrame)]
      /\ queue \in [Conn -> Seq(GoodFrame)]
      /\ wire \in [Conn -> Seq(GoodFrame)]
      /\ since \in [Conn -> 0 .. MaxLog]
      /\ missed \in [Conn -> SUBSET (1 .. MaxLog)]
      /\ writer \in [Writer -> WriterStates]
      /\ BaseInv /\ TypeInv /\ SocketInv /\ LogsInv
  BY StreamTypes DEF SyncInv, BaseInv, TypeInv, PlaceInv, WriterInv
<1>1. CoverOK(d)
  BY DEF CoverInv
<1>2. UNCHANGED writer => \A w \in Writer, n \in 1 .. Len(Log) :
                            Sending(w, d, n) => Sending(w, d, n)'
  BY DEF Sending
\* The daemon.
<1>3. ASSUME NEW c \in Conn, UNCHANGED clientVars,
             \/ GetSnapshot(c) \/ GetEventsSince(c) \/ Register(c) \/ EnqueueRest(c)
             \/ WriteFrame(c) \/ CloseOverflown(c), c # d
      PROVE  CoverOK(d)'
  <2>1. /\ client' = client /\ sock' = sock /\ Session' = Session /\ Log' = Log
        /\ writer' = writer /\ since' = since /\ missed' = missed
    BY <1>3 DEF GetSnapshot, GetEventsSince, Register, EnqueueRest, WriteFrame,
                CloseOverflown, clientVars, Session, Log
  <2>2. ASSUME NEW f, Enqueue(c, f)
        PROVE  queue'[d] = queue[d] /\ overflow'[d] = overflow[d]
    BY <1>0, <1>3, <2>2 DEF Enqueue
  <2>3. hub'[d] = hub[d] /\ rest'[d] = rest[d] /\ link'[d] = link[d]
    BY <1>0, <1>3 DEF GetSnapshot, GetEventsSince, Register, EnqueueRest, WriteFrame,
                      CloseOverflown
  <2>4. queue'[d] = queue[d] /\ overflow'[d] = overflow[d] /\ wire'[d] = wire[d]
    BY <1>0, <1>3, <2>2 DEF GetSnapshot, GetEventsSince, Register, EnqueueRest, WriteFrame,
                            CloseOverflown
  <2> QED BY <1>1, <1>2, <2>1, <2>3, <2>4, CoverFrame DEF Fetched
<1>4. ASSUME UNCHANGED clientVars, GetSnapshot(d) \/ CloseOverflown(d)
      PROVE  CoverOK(d)'
  BY <1>0, <1>4 DEF GetSnapshot, CloseOverflown, CoverOK, Fetched
<1>5. ASSUME UNCHANGED clientVars, Register(d)
      PROVE  CoverOK(d)'
  <2>1. /\ client' = client /\ sock' = sock /\ Session' = Session /\ Log' = Log
        /\ writer' = writer /\ since' = since /\ missed' = missed /\ hub[d] = "fetched"
        /\ link' = link /\ rest' = rest /\ queue' = queue /\ overflow' = overflow
        /\ wire' = wire
    BY <1>5 DEF Register, clientVars, Session, Log
  <2> QED BY <1>1, <1>2, <2>1, CoverFrame DEF Fetched
<1>6. ASSUME NEW c \in Conn, Unregister(c), UNCHANGED clientVars
      PROVE  CoverOK(d)'
  <2>1. CASE c = d
    BY <1>0, <1>6, <2>1 DEF Unregister, CoverOK, Fetched
  <2>2. CASE c # d
    <3>1. /\ client' = client /\ sock' = sock /\ Session' = Session /\ Log' = Log
          /\ since'[d] = since[d] /\ missed'[d] = missed[d] /\ hub'[d] = hub[d]
          /\ link' = link /\ rest' = rest /\ queue' = queue /\ overflow' = overflow
          /\ wire' = wire
      BY <1>0, <1>6, <2>2 DEF Unregister, clientVars, Session, Log
    <3>2. ASSUME NEW w \in Writer, NEW n \in 1 .. Len(Log), Sending(w, d, n)
          PROVE  Sending(w, d, n)'
      <4>1. CASE writer[w].pc = "send"
        <5>1. writer'[w] = Sent(writer[w], c)
          BY <1>6, <4>1 DEF Unregister
        <5> QED BY <1>0, <2>2, <3>2, <4>1, <5>1, SentKeeps
      <4>2. CASE writer[w].pc # "send"
        <5>1. writer'[w] = writer[w]
          BY <1>6, <4>2 DEF Unregister
        <5> QED BY <3>2, <5>1 DEF Sending
      <4> QED BY <4>1, <4>2
    <3> QED BY <1>1, <3>1, <3>2, CoverFrame DEF Fetched
  <2> QED BY <2>1, <2>2
<1>7. ASSUME NEW w \in Writer, Append_(w), UNCHANGED clientVars PROVE CoverOK(d)'
  <2>1. PICK ev \in ProperEvent : AppendEvent(w, ev)
    BY <1>7, WriterAssumption DEF Append_
  <2>2. /\ Session' = Session /\ Len(Log') = Len(Log) + 1 /\ Len(Log) \in Nat
    <3>1. Len(logs') = Len(logs) /\ Len(Log') = Len(Log) + 1
      BY <1>0, <2>1, AppendToLogs
    <3> QED BY <1>0, <3>1 DEF Session, Log, LogsInv
  <2>3. /\ client' = client /\ sock' = sock /\ since' = since /\ missed' = missed
        /\ hub' = hub /\ link' = link /\ rest' = rest /\ queue' = queue
        /\ overflow' = overflow /\ wire' = wire
        /\ writer[w].pc = "idle"
        /\ writer' = [writer EXCEPT ![w] = [@ EXCEPT !.pc = "copy", !.seq = Len(Log) + 1]]
    BY <1>7, <2>1 DEF AppendEvent, clientVars
  <2>4. ASSUME NEW n \in 1 .. Len(Log), Covered(d, n) PROVE Covered(d, n)'
    <3>1. \A v \in Writer : Sending(v, d, n) => Sending(v, d, n)'
      BY <1>0, <2>3 DEF Sending
    <3> QED BY <2>2, <2>3, <2>4, <3>1 DEF Covered, OnTheWay
  <2>5. ASSUME NEW n, n = Len(Log) + 1 PROVE Covered(d, n)'
    <3>1. writer[w] \in WriterStates
      BY <1>0
    <3>2. writer'[w] = [writer[w] EXCEPT !.pc = "copy", !.seq = n]
      BY <1>0, <2>3, <2>5
    <3>3. Sending(w, d, n)'
      <4>1. writer'[w].pc = "copy" /\ writer'[w].seq = n
        BY <3>1, <3>2 DEF WriterStates
      <4> QED BY <4>1 DEF Sending
    <3> QED BY <3>3 DEF Covered, OnTheWay
  <2>6. Fetched(d)' => Fetched(d)
    BY <2>3 DEF Fetched
  <2>7. \A n \in 1 .. Len(Log') : n \in 1 .. Len(Log) \/ n = Len(Log) + 1
    BY <2>2
  <2> QED BY <1>1, <2>4, <2>5, <2>6, <2>7 DEF CoverOK
<1>8. ASSUME NEW w \in Writer, CopyClients(w), UNCHANGED clientVars PROVE CoverOK(d)'
  <2>1. /\ client' = client /\ sock' = sock /\ Session' = Session /\ Log' = Log
        /\ since' = since /\ hub' = hub /\ link' = link /\ rest' = rest /\ queue' = queue
        /\ overflow' = overflow /\ wire' = wire
        /\ missed'[d] = IF hub[d] = "fetched" THEN missed[d] \cup {writer[w].seq}
                                              ELSE missed[d]
        /\ hub[d] # "enqueueing"
    BY <1>8 DEF CopyClients, clientVars, Session, Log, MutexFree
  <2>2. ASSUME NEW v \in Writer, NEW n \in 1 .. Len(Log), v # w, Sending(v, d, n)
        PROVE  Sending(v, d, n)'
    BY <1>0, <1>8, <2>2 DEF CopyClients, Sending
  <2>3. ASSUME NEW n \in 1 .. Len(Log), Sending(w, d, n), hub[d] = "serving"
        PROVE  Sending(w, d, n)'
    <3> DEFINE registered == {c \in Conn : hub[c] = "serving"}
               moved == [writer[w] EXCEPT !.pc = "send", !.to = registered]
    <3>1. writer[w] \in WriterStates
      BY <1>0
    <3>2. moved.pc = "send" /\ moved.to = registered /\ moved.seq = writer[w].seq
      BY <3>1 DEF WriterStates
    <3>3. d \in registered
      BY <2>3
    <3>4. writer'[w] = moved
      BY <1>0, <1>8, <3>3 DEF CopyClients
    <3> HIDE DEF moved, registered
    <3> QED BY <2>3, <3>2, <3>3, <3>4 DEF Sending
  <2>4. CASE hub[d] = "serving"
    BY <1>1, <2>1, <2>2, <2>3, <2>4, CoverFrame DEF Fetched
  <2>5. CASE hub[d] = "fetched"
    <3>1. \A n \in 1 .. Len(Log) : Sending(w, d, n) => n \in missed'[d]
      BY <2>1, <2>5 DEF Sending
    <3> QED BY <1>1, <2>1, <2>2, <2>5, <3>1, CoverFrame DEF Fetched
  <2>6. CASE hub[d] \notin {"fetched", "serving"}
    BY <2>1, <2>6 DEF CoverOK, Fetched
  <2> QED BY <2>4, <2>5, <2>6
<1>9. ASSUME NEW w \in Writer, NEW c \in Conn, EnqueueTo(w, c), UNCHANGED clientVars
       PROVE CoverOK(d)'
  BY <1>0, <1>1, <1>9, CoverBroadcast
<1>10. ASSUME Restart PROVE CoverOK(d)'
  BY <1>10 DEF Restart, CoverOK, Fetched
\* The client.
<1>11. ASSUME NEW c \in Conn, ConnectCalled(c) \/ ReconnectTimer(c) PROVE FALSE
  <2>1. sock[d] = "free" /\ sock' = [sock EXCEPT ![c] = "dialing"]
    BY <1>0, <1>11, NoneInUse DEF ConnectCalled, ReconnectTimer, Open
  <2> QED BY <1>0, <2>1
<1>12. ASSUME NEW c \in Conn, OnOpen(c) PROVE CoverOK(d)'
  <2>1. c = d
    BY <1>0, <1>12 DEF OnOpen, SocketInv
  <2>2. hub'[d] = "hello"
    BY <1>0, <1>12, <2>1 DEF OnOpen, ReadHello
  <2> QED BY <2>2 DEF CoverOK, Fetched
<1>13. ASSUME NEW c \in Conn, OnSnapshot(c) \/ OnEvent(c) PROVE CoverOK(d)'
  <2>1. c = d
    BY <1>0, <1>13 DEF OnSnapshot, OnEvent, NextFrame, SocketInv
  <2> QED BY <1>1, <1>13, <2>1, CoverReceived
<1>14. ASSUME NEW c \in Conn, OnGap(c) PROVE FALSE
  BY <1>0, <1>14 DEF OnGap, NextFrame, SocketInv
<1>15. ASSUME NEW c \in Conn, OnClose(c) PROVE FALSE
  BY <1>0, <1>15 DEF OnClose, SocketInv
<1>16. ASSUME NEW c \in Conn, ConnectionLost(c) PROVE CoverOK(d)'
  <2>1. c = d
    BY <1>0, <1>16 DEF ConnectionLost, SocketInv
  <2>2. link'[d] # "up"
    BY <1>0, <1>16, <2>1 DEF ConnectionLost, Cut
  <2> QED BY <2>2 DEF CoverOK, Fetched
<1>17. CASE CloseCalled
  <2>1. sock[d] = "open" /\ client.socket # d
    BY <1>17 DEF CloseCalled
  <2> QED BY <1>0, <2>1 DEF SocketInv
<1>18. CASE UNCHANGED vars
  BY <1>1, <1>2, <1>18, CoverFrame DEF vars, hubVars, Session, Log, Fetched
<1>19. ASSUME NEW c \in Conn, ServeStep(c) \/ WriteStep(c), UNCHANGED clientVars
       PROVE  CoverOK(d)'
  <2>1. CASE c = d
    BY <1>0, <1>1, <1>4, <1>5, <1>6, <1>19, <2>1, CoverServe DEF ServeStep, WriteStep
  <2>2. CASE c # d
    BY <1>3, <1>6, <1>19, <2>2 DEF ServeStep, WriteStep
  <2> QED BY <2>1, <2>2
<1> QED
  BY <1>7, <1>8, <1>9, <1>10, <1>11, <1>12, <1>13, <1>14, <1>15, <1>16, <1>17, <1>18, <1>19
     DEF Next, WriterStep

(***************************************************************************)
(* Queues that overflow, broadcasts out of order, broken connections,      *)
(* restarts and gaps lose no event: a settled client lacks one only if it  *)
(* was broadcast between GetEventsSince and the registration of its        *)
(* connection (serveAuthenticated), or if its hello asked from a seq of an *)
(* earlier session.                                                        *)
(***************************************************************************)
THEOREM OnlyTheWindow ==
  ASSUME OneAtATime
  PROVE  Spec => []OnlyTheWindowLosesEvents
<1>1. Init => CoverInv
  BY DEF Init, HubInit, CoverInv, CoverOK, Fetched
<1>2. SyncInv /\ CoverInv /\ [Next]_vars => CoverInv'
  BY CoverStep
<1>3. Init => ViewInv
  BY DEF Init, ViewInv, ViewOK, NewClient, NewSessionState
<1>4. SyncInv /\ ViewInv /\ [Next]_vars => ViewInv'
  BY ViewStep
<1>5. ASSUME SyncInv, ViewInv, CoverInv PROVE OnlyTheWindowLosesEvents
  <2> DEFINE c == client.socket
             n == client.session.lastSeq + 1
  <2> SUFFICES ASSUME Settled
               PROVE  \/ client.session.lastSeq = Len(Log)
                      \/ n \in missed[c]
                      \/ since[c] > client.session.lastSeq
    BY DEF OnlyTheWindowLosesEvents
  <2>1. /\ c \in Conn /\ BaseInv /\ TypeInv /\ client.session.lastSeq \in Nat
        /\ CopyOK(client.session) /\ Len(Log) \in Nat
    BY <1>5 DEF Settled, SyncInv, BaseInv, TypeInv, Clients, SessionStates, CopyInv,
                LogsInv, Log, Session
  <2>2. /\ hub[c] = "serving" /\ link[c] = "up" /\ wire[c] = <<>> /\ queue[c] = <<>>
        /\ ~overflow[c] /\ client.phase = "live"
        /\ \A w \in Writer : writer[w].pc = "idle"
    BY <2>1 DEF Settled
  <2>3. LinkOK(c) /\ RestOK(c) /\ sock[c] \in {"free", "dialing", "open", "closing"}
    BY <2>1 DEF BaseInv, LinkInv, OrderInv, TypeInv, PlaceInv
  <2>4. sock[c] = "open" /\ rest[c] = <<>>
    BY <2>2, <2>3 DEF LinkOK, RestOK
  <2>5. StreamOK(c) /\ CoverOK(c)
    BY <1>5, <2>1, <2>4 DEF SyncInv, StreamInv, CoverInv
  <2>6. client.session.id = Session
    BY <2>2, <2>5
       DEF StreamOK, Waiting, Queued, Written, SnapshotFirst, Received, Follows
  <2>7. client.session.lastSeq <= Len(Log)
    BY <2>1, <2>5, <2>6, <1>5, <2>2 DEF CopyOK, Log, ViewInv
  <2>8. CASE client.session.lastSeq # Len(Log)
    <3>1. n \in 1 .. Len(Log)
      BY <2>1, <2>7, <2>8
    <3>2. Covered(c, n)
      BY <2>2, <2>4, <2>5, <3>1 DEF CoverOK, Fetched
    <3>3. ~OnTheWay(c, n)
      BY <2>2, <2>4 DEF OnTheWay, Carries, Sending
    <3>4. since[c] \in Nat
      BY <2>1 DEF TypeInv, PlaceInv
    <3> QED BY <2>1, <3>2, <3>3, <3>4 DEF Covered
  <2> QED BY <2>8
<1> QED BY <1>1, <1>2, <1>3, <1>4, <1>5, SyncInvariant, PTL DEF Spec
=============================================================================
