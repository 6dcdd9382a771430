--------------------------- MODULE DeliveryProofs ---------------------------
(***************************************************************************)
(* Theorems about Delivery, for any number of commands, connections and    *)
(* devices, any outboxes and any number of faults of each kind.            *)
(***************************************************************************)
EXTENDS Delivery, SequenceLemmas

-----------------------------------------------------------------------------
(* The inductive invariant *)

Clients(ids, s) ==
  [phase : {"idle", "connecting", "reconnecting", "syncing", "live", "pairing",
            "unauthorized"},
   identity : ids \cup {None}, session : 0 .. s, fullResync : BOOLEAN,
   closedByUser : BOOLEAN, timer : BOOLEAN, pairing : BOOLEAN, again : BOOLEAN,
   overlap : BOOLEAN, resynced : BOOLEAN, socket : Conn \cup {None}]

Frames(ids) ==
  [type : {"hello"}, credential : ids \cup {None}, device : ids \cup {None},
   session : 0 .. MaxEach + 1]
    \cup [type : {"command"}, cmd : Cmd]

Replies(s, n) ==
  [type : {"snapshot"}, session : 1 .. s, behind : BOOLEAN]
    \cup [type : {"ack"}, cmd : Cmd, seq : 0 .. n]
    \cup [type : {"error"}, cmd : Cmd] \cup [type : {"tip", "terminal"}]

Promises(n) == [state : {"unsent", "pending", "resolved", "rejected"}, seq : 0 .. n]

Entries(ids, s) == [session : 1 .. s, dev : ids, cmd : Cmd]

HubTypes ==
  /\ spent \in [Fault -> 0 .. MaxEach]
  /\ session = spent["restart"] + 1
  /\ log \in Seq(Entries(issued, session))
  /\ applied \in SUBSET (issued \X Cmd) /\ refused \in SUBSET (issued \X Cmd)
  /\ cut \in SUBSET (issued \X Cmd) /\ early \in SUBSET Entries(issued, session)
  /\ issued \in SUBSET Dev /\ valid \in SUBSET issued
  /\ server \in [Conn -> issued \cup {None}] /\ busy \in [Conn -> BOOLEAN]

WireTypes ==
  /\ link \in [Conn -> {"up", "shut", "down"}]
  /\ toHub \in [Conn -> Seq(Frames(issued))]
  /\ toClient \in [Conn -> Seq(Replies(session, Len(log)))]

ClientTypes ==
  /\ app \in App
  /\ client \in Clients(issued, session)
  /\ outbox \in Seq(Cmd) /\ Len(outbox) <= MaxOutbox[app]
  /\ promise \in [Cmd -> Promises(Len(log))]
  /\ sock \in [Conn -> {"free", "dialing", "open"}]
  /\ header \in [Conn -> issued \cup {None}]

\* What is under way to the hub: a hello and then commands, of which the hello
\* is gone once the connection is served; nothing before the socket is open.  A
\* handler is at a command that is still there.
HubEnd(c) ==
  /\ busy[c] => server[c] # None /\ toHub[c] # <<>>
  /\ \A i \in DOMAIN toHub[c] : toHub[c][i].type = "hello" <=> server[c] = None /\ i = 1
  /\ sock[c] = "dialing" => server[c] = None /\ toHub[c] = <<>>
  /\ sock[c] = "open" /\ link[c] = "up" => server[c] # None \/ toHub[c] # <<>>

\* Nothing is under way to a client that has let go of the socket.
ClientEnd(c) == sock[c] = "free" => link[c] # "up" /\ toClient[c] = <<>>

Types ==
  /\ HubTypes /\ WireTypes /\ ClientTypes
  /\ \A c \in Conn : HubEnd(c) /\ ClientEnd(c)

\* A command has been executed, or refused, is under way or died with the daemon.
Done(x) ==
  \/ \E i \in DOMAIN log : log[i].cmd = x
  \/ \E d \in issued : <<d, x>> \in refused \cup cut \/ UnderWay(<<d, x>>)

AckIsTrue(m) ==
  m.type = "ack" => IF m.seq > 0 THEN log[m.seq].cmd = m.cmd ELSE Done(m.cmd)

Truth ==
  /\ \A k \in applied : Done(k[2])
  /\ \A c \in Conn : \A i \in DOMAIN toClient[c] : AckIsTrue(toClient[c][i])
  /\ PromisesAreTrue

\* No command is in the outbox twice.
Box ==
  /\ \A i, j \in DOMAIN outbox : outbox[i] = outbox[j] => i = j
  /\ OutboxMatchesPromises

\* A hello with the client's own credential.
OwnHello(m) == m.credential = client.identity /\ m.device = client.identity

\* The client has but one socket, what this carries of a credential is the
\* client's own, and it has been refused only if that is revoked.
OwnSocket(c) ==
  sock[c] # "free" =>
    /\ client.socket = c
    /\ client.phase # "unauthorized"
    /\ app = "mobile" => header[c] = client.identity
    /\ server[c] \in {None, client.identity}
    /\ \A i \in DOMAIN toHub[c] : toHub[c][i].type = "hello" => OwnHello(toHub[c][i])
    /\ \A i \in DOMAIN toClient[c] :
         toClient[c][i].type = "terminal" => client.identity \notin valid

Alone ==
  /\ \A c \in Conn : OwnSocket(c)
  /\ client.phase = "unauthorized" => client.identity \notin valid

\* The browser until the host has revoked a device: it has that device.  Until
\* it is paired again: it has one socket, and none once it has been refused.
Asked == client.phase \in {"unauthorized", "pairing"} \/ client.identity = None
NoSocket == \A c \in Conn : sock[c] = "free"
FirstPairing ==
  /\ ~client.overlap /\ ~client.again
  /\ client.timer \/ client.phase = "idle" => NoSocket
  /\ client.pairing => Asked
  /\ Asked => NoSocket /\ (client.timer => client.closedByUser)
  /\ spent["revoke"] = 0 =>
       ~Asked /\ issued = {client.identity} /\ valid = issued
  /\ spent["revoke"] = 1 => valid = {}

\* From then to the second revocation: it is admitted, on every socket.
SecondPairing ==
  /\ spent["revoke"] = 1 /\ client.identity \in valid
  /\ ~client.pairing /\ client.phase \notin {"unauthorized", "pairing"}
  /\ \A c \in Conn : sock[c] # "free" =>
       /\ \A i \in DOMAIN toHub[c] : toHub[c][i].type = "hello" => OwnHello(toHub[c][i])
       /\ \A i \in DOMAIN toClient[c] : toClient[c][i].type # "terminal"

Prompts ==
  /\ ~client.overlap => Alone
  /\ app = "web" /\ spent["revoke"] <= 1 => FirstPairing \/ SecondPairing

\* A command that has not been sent is nowhere.
Fresh ==
  \A x \in Cmd : promise[x] = Unsent =>
    /\ \A i \in DOMAIN log : log[i].cmd # x
    /\ \A c \in Conn : \A k \in DOMAIN toHub[c] :
         toHub[c][k].type = "command" => toHub[c][k].cmd # x

\* The device whose commands a connection carries.
Bearer(c) == IF server[c] # None THEN server[c]
             ELSE IF toHub[c] # <<>> THEN toHub[c][1].credential ELSE None

\* Nothing that its device has had executed in an earlier session is in the
\* outbox of a client that has met the session of today.
LogMet ==
  \A i \in DOMAIN log : log[i].dev = client.identity =>
    /\ log[i].session <= client.session
    /\ log[i].session < session /\ client.session = session
         => ~Contains(outbox, log[i].cmd)

\* Nor is it under way on a connection of that device.
Carried(c) ==
  \A k \in DOMAIN toHub[c] : toHub[c][k].type = "command" =>
    /\ Bearer(c) # None /\ Bearer(c) = client.identity => client.session = session
    /\ \A i \in DOMAIN log : log[i].dev = Bearer(c) /\ log[i].session < session
         => log[i].cmd # toHub[c][k].cmd

\* A live client has met the session of the hub its socket reaches; a snapshot
\* under way is no older than what the client has met.
IsSnapshot(c, i) == i \in DOMAIN toClient[c] /\ toClient[c][i].type = "snapshot"
Met(c) ==
  sock[c] # "free" =>
    /\ link[c] = "up" /\ client.phase = "live" => client.session = session
    /\ \A i \in DOMAIN toClient[c] : IsSnapshot(c, i) =>
         /\ toClient[c][i].session >= client.session
         /\ link[c] = "up" => toClient[c][i].session = session
         /\ \A j \in DOMAIN toClient[c] : IsSnapshot(c, j) =>
              toClient[c][j].session = toClient[c][i].session
    /\ \A i \in DOMAIN toClient[c] : toClient[c][i].type = "tip" /\ link[c] = "up" =>
         client.session = session \/ \E j \in 1 .. i - 1 : IsSnapshot(c, j)

\* The keys of this session are those of its log.
Known == \A i \in DOMAIN log : log[i].session = session => <<log[i].dev, log[i].cmd>> \in applied

NotAgain ==
  ~client.overlap =>
    /\ \A c \in Conn : Met(c)
    /\ ~client.resynced => ~client.fullResync /\ LogMet /\ \A c \in Conn : Carried(c)

\* The commands handlers are at: each has its key, no two are the same and none
\* is in the log of this session.
Handlers ==
  /\ \A c \in Conn : busy[c] =>
       At(c) \in applied /\ \A i \in DOMAIN log : log[i] # Entry(c)
  /\ \A c, d \in Conn : busy[c] /\ busy[d] /\ At(c) = At(d) => c = d

Keys == Fresh /\ Known /\ Handlers /\ NotAgain /\ OncePerDevice

\* A command of a device is under way.
Carries(c, x) == \E k \in DOMAIN toHub[c] : toHub[c][k] = CommandFrame(x)
OnTheWay(d, x) == \E c \in Conn : Bearer(c) = d /\ Carries(c, x)

\* The device that the client is, or the only one there has been, of the only
\* session: the commands of its connections are those of the outbox.
Only(d) == session = 1 /\ issued = {d}
Active(d) == \/ d = client.identity
             \/ Only(d)

\* No command is executed behind a later one of its device.
Calm == \/ ~client.overlap
        \/ \E d \in Dev : Only(d)

\* A command has its key, and has been overtaken if its handler is at it still.
Settled(d, x) ==
  /\ <<d, x>> \in applied
  /\ UnderWay(<<d, x>>) => [session |-> session, dev |-> d, cmd |-> x] \in early

\* A command will not be executed for a device in this session, or is settled.
Gone(d, x) ==
  /\ promise[x] # Unsent /\ ~OnTheWay(d, x)
  /\ Active(d) => ~Contains(outbox, x)
Over(d, x) == Settled(d, x) \/ Gone(d, x)

\* Commands are issued in their order, and the outbox keeps it.
InTurn == \A x, y \in Cmd : x < y /\ promise[x] = Unsent => promise[y] = Unsent
Sorted(box) == \A i, j \in DOMAIN box : i < j => box[i] < box[j]

\* What is under way and not yet settled is still in the outbox.
Kept ==
  \A d \in issued, x \in Cmd :
    Active(d) /\ OnTheWay(d, x) /\ ~Settled(d, x) => Contains(outbox, x)

\* Every earlier command is over before one that is under way or in the log, or
\* precedes it on its connection.
Turns(c) ==
  Bearer(c) # None =>
    \A k \in DOMAIN toHub[c] : toHub[c][k].type = "command" =>
      \A x \in Cmd : x < toHub[c][k].cmd =>
        \/ Over(Bearer(c), x)
        \/ \E j \in DOMAIN toHub[c] : j < k /\ toHub[c][j] = CommandFrame(x)
LogTurns ==
  \A i \in DOMAIN log : log[i].session = session =>
    \A x \in Cmd : x < log[i].cmd => Over(log[i].dev, x)

\* What the hub has answered is settled, if the answer is of this session.
IsReply(m) == m.type \in {"ack", "error"}
Replied ==
  \A d \in issued : Only(d) =>
    \A c \in Conn : \A i \in DOMAIN toClient[c] :
      IsReply(toClient[c][i]) => Settled(d, toClient[c][i].cmd)

InFlight == client.identity # None /\ \E x \in Cmd : OnTheWay(client.identity, x)
Keyed(c) ==
  /\ sock[c] # "free"
  /\ \/ link[c] = "up"
     \/ InFlight
  => \A i \in DOMAIN toClient[c] :
       /\ IsReply(toClient[c][i]) => Settled(client.identity, toClient[c][i].cmd)
       /\ IsSnapshot(c, i) => toClient[c][i].session = session

Orderly ==
  /\ issued # {} /\ InTurn /\ Sorted(outbox) /\ Replied
  /\ ~client.overlap =>
       /\ \A c \in Conn : Keyed(c)
       /\ InFlight => client.session \in {0, session}
  /\ Calm => Kept /\ LogTurns /\ \A c \in Conn : Turns(c)
  /\ InOrder

-----------------------------------------------------------------------------
(* Frames, replies, and what an operation makes of them *)

\* What a frame to the hub is.
LEMMA FrameFacts ==
  ASSUME NEW ids, NEW m \in Frames(ids)
  PROVE  /\ m.type \in {"hello", "command"}
         /\ m.type = "command" => m.cmd \in Cmd
         /\ m.type = "hello" => m.credential \in ids \cup {None} /\ m.device \in ids \cup {None}
BY DEF Frames

\* What a frame to the client is.
LEMMA ReplyFacts ==
  ASSUME NEW s, NEW n, NEW m \in Replies(s, n)
  PROVE  /\ m.type \in {"snapshot", "ack", "error", "tip", "terminal"}
         /\ m.type = "snapshot" => m.session \in 1 .. s /\ m.behind \in BOOLEAN
         /\ m.type = "ack" => m.cmd \in Cmd /\ m.seq \in 0 .. n
         /\ m.type = "error" => m.cmd \in Cmd
BY DEF Replies

\* The frames the client makes are frames, and read as they were made.
LEMMA FramesMade ==
  ASSUME NEW ids
  PROVE  /\ \A x \in Cmd : CommandFrame(x) \in Frames(ids)
         /\ \A x : CommandFrame(x).type = "command" /\ CommandFrame(x).cmd = x
         /\ \A a, b \in ids \cup {None}, s \in 0 .. MaxEach + 1 : Hello(a, b, s) \in Frames(ids)
         /\ \A a, b, s : /\ Hello(a, b, s).type = "hello"
                         /\ Hello(a, b, s).credential = a /\ Hello(a, b, s).device = b
BY DEF Frames, CommandFrame, Hello

\* The replies the hub makes are replies, and read as they were made.
LEMMA RepliesMade ==
  ASSUME NEW s \in Nat, NEW n \in Nat
  PROVE  /\ \A r \in 1 .. s, b \in BOOLEAN : Snapshot(r, b) \in Replies(s, n)
         /\ \A r, b : Snapshot(r, b).type = "snapshot" /\ Snapshot(r, b).session = r
         /\ \A x \in Cmd, q \in 0 .. n : Ack(x, q) \in Replies(s, n)
         /\ \A x, q : Ack(x, q).type = "ack" /\ Ack(x, q).cmd = x /\ Ack(x, q).seq = q
         /\ \A x \in Cmd : Error(x) \in Replies(s, n)
         /\ \A x : Error(x).type = "error" /\ Error(x).cmd = x
         /\ Tip \in Replies(s, n) /\ Tip.type = "tip"
         /\ Terminal \in Replies(s, n) /\ Terminal.type = "terminal"
BY DEF Replies, Snapshot, Ack, Error, Tip, Terminal

\* A new session or a longer log leaves what is under way well-typed.
LEMMA RepliesGrow ==
  ASSUME NEW s \in Nat, NEW n \in Nat, NEW r \in Nat, NEW k \in Nat, s <= r, n <= k
  PROVE  \A q \in Seq(Replies(s, n)) : q \in Seq(Replies(r, k))
<1>1. Replies(s, n) \subseteq Replies(r, k)
  <2>1. 1 .. s \subseteq 1 .. r /\ 0 .. n \subseteq 0 .. k
    OBVIOUS
  <2> QED BY <2>1, Zenon DEF Replies
<1>2. \A A, B : A \subseteq B => \A q \in Seq(A) : q \in Seq(B)
  OBVIOUS
<1> QED BY <1>1, <1>2

\* So does a new device what is under way to the hub.
LEMMA FramesGrow ==
  ASSUME NEW ids, NEW more, ids \subseteq more
  PROVE  \A q \in Seq(Frames(ids)) : q \in Seq(Frames(more))
<1>1. Frames(ids) \subseteq Frames(more)
  BY DEF Frames
<1>2. \A A, B : A \subseteq B => \A q \in Seq(A) : q \in Seq(B)
  OBVIOUS
<1> QED BY <1>1, <1>2

\* The log stays well-typed as devices and sessions are added,
LEMMA EntriesGrow ==
  ASSUME NEW ids, NEW more, ids \subseteq more, NEW s \in Nat, NEW r \in Nat, s <= r
  PROVE  /\ \A q \in Seq(Entries(ids, s)) : q \in Seq(Entries(more, r))
         /\ Entries(ids, s) \subseteq Entries(more, r)
<1>1. Entries(ids, s) \subseteq Entries(more, r)
  BY DEF Entries
<1>2. \A A, B : A \subseteq B => \A q \in Seq(A) : q \in Seq(B)
  OBVIOUS
<1> QED BY <1>1, <1>2

\* and so does the client,
LEMMA ClientsGrow ==
  ASSUME NEW ids, NEW more, ids \subseteq more, NEW s \in Nat, NEW r \in Nat, s <= r
  PROVE  Clients(ids, s) \subseteq Clients(more, r)
<1>1. 0 .. s \subseteq 0 .. r
  OBVIOUS
<1> QED BY <1>1, Zenon DEF Clients

\* and a promise, as the log grows.
LEMMA PromisesGrow ==
  ASSUME NEW n \in Nat, NEW k \in Nat, n <= k
  PROVE  Promises(n) \subseteq Promises(k)
BY DEF Promises

\* What flushing the outbox adds to what is on the way to the hub.
LEMMA FlushedFacts ==
  ASSUME NEW ids, toHub \in [Conn -> Seq(Frames(ids))], NEW box \in Seq(Cmd),
         NEW cl, cl.socket \in Conn \cup {None}
  PROVE  LET f == Flushed(cl, box)
             sends == cl.phase = "live" /\ cl.socket # None /\ sock[cl.socket] = "open"
                        /\ link[cl.socket] = "up"
         IN  /\ f \in [Conn -> Seq(Frames(ids))]
             /\ \A c \in Conn :
                  /\ DOMAIN toHub[c] \subseteq DOMAIN f[c]
                  /\ \A i \in DOMAIN toHub[c] : f[c][i] = toHub[c][i]
                  /\ \A i \in DOMAIN f[c] : i \notin DOMAIN toHub[c] =>
                       /\ sends /\ c = cl.socket
                       /\ f[c][i].type = "command"
                       /\ \E j \in DOMAIN box : f[c][i].cmd = box[j]
                  /\ f[c] # toHub[c] => sends /\ c = cl.socket
<1> DEFINE new == [i \in DOMAIN box |-> CommandFrame(box[i])]
<1>1. /\ new \in Seq(Frames(ids))
      /\ \A i \in DOMAIN new : new[i].type = "command" /\ new[i].cmd = box[i] /\ i \in DOMAIN box
  <2>1. \A i \in DOMAIN box : box[i] \in Cmd
    OBVIOUS
  <2>2. \A i \in DOMAIN box : CommandFrame(box[i]) \in Frames(ids)
    BY <2>1, FramesMade
  <2>3. \E n \in Nat : DOMAIN box = 1 .. n
    OBVIOUS
  <2>4. new \in Seq(Frames(ids))
    BY <2>2, <2>3
  <2> QED BY <2>4, FramesMade
<1> HIDE DEF new
<1>2. CASE cl.phase = "live" /\ cl.socket # None /\ sock[cl.socket] = "open"
             /\ link[cl.socket] = "up"
  <2>1. Flushed(cl, box) = [toHub EXCEPT ![cl.socket] = @ \o new]
    BY <1>2 DEF Flushed, new
  <2>2. cl.socket \in Conn
    BY <1>2
  <2>3. toHub[cl.socket] \in Seq(Frames(ids))
    BY <2>2
  <2> DEFINE joined == toHub[cl.socket] \o new
  <2>4. /\ joined \in Seq(Frames(ids))
        /\ DOMAIN toHub[cl.socket] \subseteq DOMAIN joined
        /\ \A i \in DOMAIN toHub[cl.socket] : joined[i] = toHub[cl.socket][i]
        /\ \A i \in DOMAIN joined : i \notin DOMAIN toHub[cl.socket] =>
             i - Len(toHub[cl.socket]) \in DOMAIN new
               /\ joined[i] = new[i - Len(toHub[cl.socket])]
    BY <1>1, <2>3, ConcatFacts
  <2>5. Flushed(cl, box) = [toHub EXCEPT ![cl.socket] = joined]
    BY <2>1, <2>2
  <2> HIDE DEF joined
  <2>6. \A i \in DOMAIN joined : i \notin DOMAIN toHub[cl.socket] =>
             /\ joined[i].type = "command"
             /\ \E j \in DOMAIN box : joined[i].cmd = box[j]
    <3> TAKE i \in DOMAIN joined
    <3> HAVE i \notin DOMAIN toHub[cl.socket]
    <3>1. PICK k \in DOMAIN new : joined[i] = new[k]
      BY <2>4
    <3>2. k \in DOMAIN box /\ new[k].type = "command" /\ new[k].cmd = box[k]
      BY <1>1
    <3> QED BY <3>1, <3>2
  <2> QED BY <1>2, <2>2, <2>4, <2>5, <2>6
<1>3. CASE ~(cl.phase = "live" /\ cl.socket # None /\ sock[cl.socket] = "open"
             /\ link[cl.socket] = "up")
  <2>1. Flushed(cl, box) = toHub
    BY <1>3 DEF Flushed
  <2> QED BY <2>1
<1> QED BY <1>2, <1>3

-----------------------------------------------------------------------------
(* What an action makes of the client *)

\* The fields of the client, which an update of some leaves in their types.
Typed(cl, ids, s) ==
  /\ cl.phase \in {"idle", "connecting", "reconnecting", "syncing", "live", "pairing",
                   "unauthorized"}
  /\ cl.identity \in ids \cup {None} /\ cl.session \in 0 .. s
  /\ {cl.fullResync, cl.closedByUser, cl.timer, cl.pairing, cl.again, cl.overlap, cl.resynced}
       \subseteq BOOLEAN
  /\ cl.socket \in Conn \cup {None}

\* The fields of a client have their types.
LEMMA ClientFields ==
  ASSUME NEW ids, NEW s, NEW cl \in Clients(ids, s)
  PROVE  Typed(cl, ids, s)
BY DEF Clients, Typed

\* openNormalSocket
LEMMA OpenFacts ==
  ASSUME NEW ids, NEW s \in Nat, NEW cl \in Clients(ids, s), NEW c \in Conn,
         sock \in [Conn -> {"free", "dialing", "open"}],
         OpenSocket(cl, c)
  PROVE  /\ client' \in Clients(ids, s)
         /\ client'.phase \in {"connecting", "reconnecting"}
         /\ client'.identity = cl.identity
         /\ client'.session = IF cl.fullResync THEN NoSession ELSE cl.session
         /\ client'.fullResync = FALSE /\ client'.timer = FALSE
         /\ client'.closedByUser = cl.closedByUser
         /\ client'.pairing = cl.pairing /\ client'.again = cl.again
         /\ client'.overlap = (cl.overlap \/ \E d \in Conn : sock[d] # "free")
         /\ client'.socket = c /\ client'.resynced = cl.resynced
<1> DEFINE phase == IF cl.session = NoSession THEN "connecting" ELSE "reconnecting"
           id == IF cl.fullResync THEN NoSession ELSE cl.session
           over == cl.overlap \/ \E d \in Conn : sock[d] # "free"
           new == [cl EXCEPT !.phase = phase, !.session = id, !.fullResync = FALSE,
                             !.timer = FALSE, !.socket = c, !.overlap = over]
<1>1. client' = new
  BY DEF OpenSocket
<1>2. phase \in {"connecting", "reconnecting"} /\ id \in 0 .. s /\ over \in BOOLEAN
  BY DEF Clients, NoSession
<1> HIDE DEF phase, id, over
<1>3. new \in Clients(ids, s)
  BY <1>2, Zenon DEF Clients
<1>4. /\ new.phase = phase /\ new.identity = cl.identity /\ new.session = id
      /\ new.fullResync = FALSE /\ new.timer = FALSE
      /\ new.closedByUser = cl.closedByUser
      /\ new.pairing = cl.pairing /\ new.again = cl.again
      /\ new.overlap = over /\ new.socket = c /\ new.resynced = cl.resynced
  BY DEF Clients
<1> HIDE DEF new
<1> QED BY <1>1, <1>2, <1>3, <1>4 DEF phase, id, over

\* connect, and the pairing that ends in it.
LEMMA ConnectedFacts ==
  ASSUME NEW ids, NEW s, NEW cl \in Clients(ids, s)
  PROVE  LET r == Connected(cl)
         IN  /\ r \in Clients(ids, s)
             /\ r.closedByUser = FALSE /\ r.timer = FALSE
             /\ r.phase = cl.phase /\ r.identity = cl.identity /\ r.session = cl.session
             /\ r.fullResync = cl.fullResync /\ r.pairing = cl.pairing
             /\ r.again = cl.again /\ r.overlap = cl.overlap /\ r.socket = cl.socket
             /\ r.resynced = cl.resynced
<1>1. Connected(cl) \in Clients(ids, s)
  BY Zenon DEF Connected, Clients
<1> QED BY <1>1 DEF Connected, Clients

\* scheduleReconnect
LEMMA ReconnectingFacts ==
  ASSUME NEW ids, NEW s, NEW cl \in Clients(ids, s)
  PROVE  LET r == Reconnecting(cl)
         IN  /\ r \in Clients(ids, s)
             /\ r.phase = IF cl.closedByUser THEN cl.phase ELSE "reconnecting"
             /\ r.timer = (cl.timer \/ ~cl.closedByUser)
             /\ r.closedByUser = cl.closedByUser
             /\ r.identity = cl.identity /\ r.session = cl.session
             /\ r.fullResync = cl.fullResync /\ r.pairing = cl.pairing
             /\ r.again = cl.again /\ r.overlap = cl.overlap /\ r.socket = cl.socket
             /\ r.resynced = cl.resynced
BY DEF Reconnecting, Clients

\* What the other actions make of the client.
LEMMA ClientUpdates ==
  ASSUME NEW ids, NEW s \in Nat, NEW cl \in Clients(ids, s)
  PROVE  /\ \A ph \in {"syncing", "live"}, id \in 0 .. s :
              [cl EXCEPT !.session = id, !.phase = ph] \in Clients(ids, s)
         /\ [cl EXCEPT !.phase = "live"] \in Clients(ids, s)
         /\ [cl EXCEPT !.timer = FALSE] \in Clients(ids, s)
         /\ [cl EXCEPT !.again = FALSE] \in Clients(ids, s)
         /\ [cl EXCEPT !.pairing = FALSE] \in Clients(ids, s)
         /\ [cl EXCEPT !.phase = "pairing", !.pairing = TRUE] \in Clients(ids, s)
         /\ \A b \in BOOLEAN :
              [cl EXCEPT !.fullResync = cl.fullResync \/ b, !.resynced = cl.resynced \/ b,
                         !.socket = None] \in Clients(ids, s)
         /\ [cl EXCEPT !.closedByUser = TRUE, !.socket = None, !.phase = "unauthorized"]
              \in Clients(ids, s)
         /\ \A d \in ids, b \in BOOLEAN :
              [cl EXCEPT !.identity = d, !.pairing = FALSE, !.again = b] \in Clients(ids, s)
         /\ [cl EXCEPT !.phase = "idle", !.identity = None, !.session = NoSession,
                       !.socket = None, !.closedByUser = FALSE,
                       !.fullResync = FALSE, !.timer = FALSE] \in Clients(ids, s)
<1>1. NoSession \in 0 .. s
  BY DEF NoSession
<1>2. \A b \in BOOLEAN : (cl.fullResync \/ b) \in BOOLEAN /\ (cl.resynced \/ b) \in BOOLEAN
  OBVIOUS
<1>3. ASSUME NEW f \in BOOLEAN, NEW g \in BOOLEAN
      PROVE  [cl EXCEPT !.fullResync = f, !.resynced = g, !.socket = None] \in Clients(ids, s)
  BY Zenon DEF Clients
<1>4. \A b \in BOOLEAN :
        [cl EXCEPT !.fullResync = cl.fullResync \/ b, !.resynced = cl.resynced \/ b,
                   !.socket = None] \in Clients(ids, s)
  BY <1>2, <1>3
<1>5. /\ \A ph \in {"syncing", "live"}, id \in 0 .. s :
           [cl EXCEPT !.session = id, !.phase = ph] \in Clients(ids, s)
      /\ [cl EXCEPT !.phase = "live"] \in Clients(ids, s)
      /\ [cl EXCEPT !.timer = FALSE] \in Clients(ids, s)
      /\ [cl EXCEPT !.again = FALSE] \in Clients(ids, s)
      /\ [cl EXCEPT !.pairing = FALSE] \in Clients(ids, s)
  BY Zenon DEF Clients
<1>6. /\ [cl EXCEPT !.phase = "pairing", !.pairing = TRUE] \in Clients(ids, s)
      /\ [cl EXCEPT !.closedByUser = TRUE, !.socket = None, !.phase = "unauthorized"]
           \in Clients(ids, s)
      /\ \A d \in ids, b \in BOOLEAN :
           [cl EXCEPT !.identity = d, !.pairing = FALSE, !.again = b] \in Clients(ids, s)
  BY Zenon DEF Clients
<1>7. [cl EXCEPT !.phase = "idle", !.identity = None, !.session = NoSession,
                 !.socket = None, !.closedByUser = FALSE,
                 !.fullResync = FALSE, !.timer = FALSE] \in Clients(ids, s)
  BY <1>1, Zenon DEF Clients
<1> QED BY <1>4, <1>5, <1>6, <1>7

-----------------------------------------------------------------------------
(* The types *)

\* The number of the session and the length of the log are numbers, None is no device.
LEMMA Bounds ==
  ASSUME HubTypes
  PROVE  /\ MaxEach \in Nat /\ session \in Nat /\ session \in 1 .. MaxEach + 1
         /\ Len(log) \in Nat /\ None \notin issued /\ None \notin Conn
BY DeliveryAssumption DEF HubTypes, Fault

\* Every variable has its type at first.
LEMMA TypesInit == Init => Types
<1> SUFFICES ASSUME Init PROVE Types
  OBVIOUS
<1> USE DeliveryAssumption
<1>1. HubTypes
  <2>1. issued \subseteq Dev
    BY DEF Init, FirstDev
  <2> QED BY <2>1 DEF Init, HubTypes, Fault
<1>2. WireTypes
  BY DEF Init, WireTypes
<1>3. ClientTypes
  <2>1. PICK d \in Dev :
          /\ issued = {d} /\ valid = {d}
          /\ client = [phase |-> "idle", identity |-> d, session |-> NoSession,
                       fullResync |-> FALSE, closedByUser |-> FALSE, timer |-> FALSE,
                       pairing |-> FALSE, again |-> FALSE, socket |-> None,
                       overlap |-> FALSE, resynced |-> FALSE]
    BY DEF Init, FirstDev
  <2>2. NoSession \in 0 .. session /\ d \in issued \cup {None} /\ None \in Conn \cup {None}
    BY <2>1 DEF Init, NoSession
  <2>3. client \in Clients(issued, session)
    BY <2>1, <2>2, Zenon DEF Clients
  <2>4. Unsent \in Promises(Len(log))
    BY DEF Init, Unsent, Promises
  <2> QED BY <2>3, <2>4 DEF Init, ClientTypes
<1>4. \A c \in Conn : HubEnd(c) /\ ClientEnd(c)
  BY DEF Init, HubEnd, ClientEnd
<1> QED BY <1>1, <1>2, <1>3, <1>4 DEF Types

\* Commands are added behind what is on the way, on an open connection.
LEMMA FlushKeepsEnds ==
  ASSUME Types, NEW cl, cl.socket \in Conn \cup {None}, NEW box \in Seq(Cmd),
         toHub' = Flushed(cl, box), UNCHANGED <<hubVars, link, sock>>
  PROVE  /\ toHub' \in [Conn -> Seq(Frames(issued))]
         /\ \A c \in Conn : HubEnd(c)'
<1>1. toHub \in [Conn -> Seq(Frames(issued))]
  BY DEF Types, WireTypes
<1>2. toHub' \in [Conn -> Seq(Frames(issued))]
  BY <1>1, FlushedFacts
<1> SUFFICES ASSUME NEW c \in Conn PROVE HubEnd(c)'
  BY <1>2
<1> DEFINE sends == cl.phase = "live" /\ cl.socket # None /\ sock[cl.socket] = "open"
                      /\ link[cl.socket] = "up"
<1>3. /\ DOMAIN toHub[c] \subseteq DOMAIN toHub'[c]
      /\ \A i \in DOMAIN toHub[c] : toHub'[c][i] = toHub[c][i]
      /\ \A i \in DOMAIN toHub'[c] : i \notin DOMAIN toHub[c] =>
           sends /\ c = cl.socket /\ toHub'[c][i].type = "command"
      /\ toHub'[c] # toHub[c] => sends /\ c = cl.socket
  BY <1>1, FlushedFacts
<1>4. HubEnd(c)
  BY DEF Types
<1>5. UNCHANGED <<server[c], busy[c], sock[c], link[c]>>
  BY DEF hubVars
<1>6. CASE toHub'[c] = toHub[c]
  BY <1>4, <1>5, <1>6 DEF HubEnd
<1>7. CASE toHub'[c] # toHub[c]
  <2>1. sock[c] = "open" /\ link[c] = "up"
    BY <1>3, <1>7
  <2>2. server[c] # None \/ toHub[c] # <<>>
    BY <1>4, <2>1 DEF HubEnd
  <2>3. toHub[c] # <<>> => 1 \in DOMAIN toHub[c]
    BY <1>1
  <2>4. toHub[c] # <<>> => toHub'[c] # <<>>
    <3>1. ASSUME 1 \in DOMAIN toHub'[c] PROVE toHub'[c] # <<>>
      BY <3>1
    <3> QED BY <1>3, <2>3, <3>1
  <2>5. \A i \in DOMAIN toHub'[c] : toHub'[c][i].type = "hello" <=> server[c] = None /\ i = 1
    BY <1>3, <1>4, <2>2, <2>3 DEF HubEnd
  <2> QED BY <1>4, <1>5, <2>1, <2>2, <2>4, <2>5 DEF HubEnd
<1> QED BY <1>6, <1>7

\* What sending replies, and reading or taking what has arrived, do to what is
\* under way.
LEMMA SendFacts ==
  ASSUME NEW S, NEW T, S \subseteq T, toClient \in [Conn -> Seq(S)],
         NEW c \in Conn, NEW frames \in Seq(T), Send(c, frames)
  PROVE  /\ toClient' \in [Conn -> Seq(T)]
         /\ \A d \in Conn : d # c \/ link[d] # "up" => toClient'[d] = toClient[d]
         /\ \A d \in Conn :
              /\ DOMAIN toClient[d] \subseteq DOMAIN toClient'[d]
              /\ \A i \in DOMAIN toClient[d] : toClient'[d][i] = toClient[d][i]
              /\ \A i \in DOMAIN toClient'[d] : i \notin DOMAIN toClient[d] =>
                   /\ d = c /\ link[d] = "up"
                   /\ i - Len(toClient[d]) \in DOMAIN frames
                   /\ toClient'[d][i] = frames[i - Len(toClient[d])]
<1>1. toClient[c] \in Seq(T)
  OBVIOUS
<1> DEFINE joined == toClient[c] \o frames
<1>2. /\ joined \in Seq(T)
      /\ DOMAIN toClient[c] \subseteq DOMAIN joined
      /\ \A i \in DOMAIN toClient[c] : joined[i] = toClient[c][i]
      /\ \A i \in DOMAIN joined : i \notin DOMAIN toClient[c] =>
           i - Len(toClient[c]) \in DOMAIN frames /\ joined[i] = frames[i - Len(toClient[c])]
  BY <1>1, ConcatFacts
<1>3. toClient' = [toClient EXCEPT ![c] = IF link[c] = "up" THEN joined ELSE toClient[c]]
  BY DEF Send
<1> HIDE DEF joined
<1>4. \A d \in Conn : toClient[d] \in Seq(T)
  OBVIOUS
<1>5. CASE link[c] = "up"
  <2>1. /\ \A d \in Conn : d # c => toClient'[d] = toClient[d]
        /\ toClient'[c] = joined
    BY <1>3, <1>5
  <2>2. toClient' \in [Conn -> Seq(T)]
    BY <1>2, <1>3, <1>4, <1>5
  <2> QED BY <1>2, <1>5, <2>1, <2>2
<1>6. CASE link[c] # "up"
  <2>1. toClient' = toClient
    BY <1>3, <1>6
  <2> QED BY <1>4, <2>1
<1> QED BY <1>5, <1>6

\* The hub reads the first frame of a connection.
LEMMA ReadFacts ==
  ASSUME NEW S, toHub \in [Conn -> Seq(S)], NEW c \in Conn, toHub[c] # <<>>, Read(c)
  PROVE  /\ toHub' \in [Conn -> Seq(S)]
         /\ \A d \in Conn : d # c => toHub'[d] = toHub[d]
         /\ \A i \in DOMAIN toHub'[c] :
              i \in Nat \ {0} /\ i + 1 \in DOMAIN toHub[c] /\ toHub'[c][i] = toHub[c][i + 1]
         /\ 1 \in DOMAIN toHub[c] /\ Head(toHub[c]) = toHub[c][1] /\ toHub[c][1] \in S
<1>1. toHub[c] \in Seq(S)
  OBVIOUS
<1> DEFINE rest == Tail(toHub[c])
<1>2. /\ rest \in Seq(S)
      /\ \A i \in DOMAIN rest : 
           i \in Nat \ {0} /\ i + 1 \in DOMAIN toHub[c] /\ rest[i] = toHub[c][i + 1]
      /\ 1 \in DOMAIN toHub[c] /\ Head(toHub[c]) = toHub[c][1] /\ toHub[c][1] \in S
  BY <1>1, TailFacts
<1>3. toHub' = [toHub EXCEPT ![c] = rest]
  BY DEF Read
<1> HIDE DEF rest
<1> QED BY <1>2, <1>3

\* The client takes the first reply of a connection.
LEMMA TakenFacts ==
  ASSUME NEW S, toClient \in [Conn -> Seq(S)], NEW c \in Conn, toClient[c] # <<>>, Taken(c)
  PROVE  /\ toClient' \in [Conn -> Seq(S)]
         /\ \A d \in Conn : d # c => toClient'[d] = toClient[d]
         /\ \A i \in DOMAIN toClient'[c] :
              /\ i \in Nat \ {0} /\ i + 1 \in DOMAIN toClient[c]
              /\ toClient'[c][i] = toClient[c][i + 1]
         /\ 1 \in DOMAIN toClient[c] /\ Head(toClient[c]) = toClient[c][1]
         /\ toClient[c][1] \in S
<1>1. toClient[c] \in Seq(S)
  OBVIOUS
<1> DEFINE rest == Tail(toClient[c])
<1>2. /\ rest \in Seq(S)
      /\ \A i \in DOMAIN rest :
           i \in Nat \ {0} /\ i + 1 \in DOMAIN toClient[c] /\ rest[i] = toClient[c][i + 1]
      /\ 1 \in DOMAIN toClient[c] /\ Head(toClient[c]) = toClient[c][1]
      /\ toClient[c][1] \in S
  BY <1>1, TailFacts
<1>3. toClient' = [toClient EXCEPT ![c] = rest]
  BY DEF Taken
<1> HIDE DEF rest
<1> QED BY <1>2, <1>3

\* Replies of an earlier session and a shorter log are replies.
LEMMA RepliesInclude ==
  ASSUME NEW s \in Nat, NEW n \in Nat, NEW r \in Nat, NEW k \in Nat, s <= r, n <= k
  PROVE  Replies(s, n) \subseteq Replies(r, k)
<1>1. 1 .. s \subseteq 1 .. r /\ 0 .. n \subseteq 0 .. k
  OBVIOUS
<1> QED BY <1>1, Zenon DEF Replies

\* The reply a client takes, and what it leaves.
LEMMA ReceivesFacts ==
  ASSUME Types, NEW c \in Conn, NEW type, Receives(c, type)
  PROVE  /\ sock[c] = "open" /\ toClient[c] # <<>>
         /\ toClient[c][1] \in Replies(session, Len(log)) /\ toClient[c][1].type = type
         /\ Head(toClient[c]) = toClient[c][1] /\ 1 \in DOMAIN toClient[c]
         /\ Taken(c) => /\ toClient' \in [Conn -> Seq(Replies(session, Len(log)))]
                        /\ \A d \in Conn : d # c => toClient'[d] = toClient[d]
                        /\ \A i \in DOMAIN toClient'[c] :
                             /\ i \in Nat \ {0} /\ i + 1 \in DOMAIN toClient[c]
                             /\ toClient'[c][i] = toClient[c][i + 1]
<1>1. toClient \in [Conn -> Seq(Replies(session, Len(log)))]
  BY DEF Types, WireTypes
<1>2. sock[c] = "open" /\ toClient[c] # <<>> /\ Head(toClient[c]).type = type
  BY DEF Receives
<1>3. toClient[c] \in Seq(Replies(session, Len(log)))
  BY <1>1
<1>4. /\ Head(toClient[c]) = toClient[c][1] /\ 1 \in DOMAIN toClient[c]
      /\ toClient[c][1] \in Replies(session, Len(log))
  BY <1>2, <1>3, TailFacts
<1>5. Taken(c) => /\ toClient' \in [Conn -> Seq(Replies(session, Len(log)))]
                  /\ \A d \in Conn : d # c => toClient'[d] = toClient[d]
                  /\ \A i \in DOMAIN toClient'[c] :
                       /\ i \in Nat \ {0} /\ i + 1 \in DOMAIN toClient[c]
                       /\ toClient'[c][i] = toClient[c][i + 1]
  BY <1>1, <1>2, TakenFacts
<1> QED BY <1>2, <1>4, <1>5

\* What a step leaves as it is keeps its type.
LEMMA HubSame == HubTypes /\ UNCHANGED <<hubVars, spent>> => HubTypes'
BY DEF HubTypes, hubVars

\* A connection that a step leaves alone keeps its shape.
LEMMA EndsSame ==
  ASSUME Types, NEW c \in Conn,
         UNCHANGED <<server[c], busy[c], sock[c], link[c], toHub[c], toClient[c]>>
  PROVE  HubEnd(c)' /\ ClientEnd(c)'
BY DEF Types, HubEnd, ClientEnd

\* Issuing a command.
LEMMA TypesSendCommand ==
  ASSUME Types, NEW x \in Cmd, SendCommand(x)
  PROVE  Types'
<1> USE DEF SendCommand
<1>1. HubTypes'
  BY HubSame DEF Types
<1>2. client.socket \in Conn \cup {None} /\ client \in Clients(issued, session)
  BY ClientFields DEF Types, ClientTypes, Typed
<1>3. app \in App /\ MaxOutbox[app] \in Nat /\ outbox \in Seq(Cmd) /\ Len(outbox) <= MaxOutbox[app]
  BY DeliveryAssumption DEF Types, ClientTypes
<1>4. promise \in [Cmd -> Promises(Len(log))] /\ Len(log) \in Nat
  BY Bounds DEF Types, ClientTypes
<1>5. {Pending, Rejected} \subseteq Promises(Len(log))
  BY <1>4 DEF Pending, Rejected, Promises
<1>6. UNCHANGED <<log, issued, session, server, busy, link, toClient, client, sock, header, app>>
  BY DEF hubVars
<1>7. CASE OutboxFull
  <2>1. promise' = [promise EXCEPT ![x] = Rejected] /\ UNCHANGED <<outbox, toHub>>
    BY <1>7
  <2>2. promise' \in [Cmd -> Promises(Len(log))]
    BY <1>4, <1>5, <2>1
  <2>3. ClientTypes'
    BY <1>6, <2>1, <2>2 DEF Types, ClientTypes
  <2>4. WireTypes'
    BY <1>6, <2>1 DEF Types, WireTypes
  <2>5. \A c \in Conn : HubEnd(c)' /\ ClientEnd(c)'
    BY <1>6, <2>1, EndsSame
  <2> QED BY <1>1, <2>3, <2>4, <2>5 DEF Types
<1>8. CASE ~OutboxFull
  <2>1. /\ promise' = [promise EXCEPT ![x] = Pending]
        /\ outbox' = Append(outbox, x)
        /\ toHub' = Flushed(client, outbox')
    BY <1>8
  <2>2. outbox' \in Seq(Cmd) /\ Len(outbox') <= MaxOutbox[app]
    BY <1>3, <1>8, <2>1 DEF OutboxFull
  <2>3. promise' \in [Cmd -> Promises(Len(log))]
    BY <1>4, <1>5, <2>1
  <2>4. ClientTypes'
    BY <1>6, <2>2, <2>3 DEF Types, ClientTypes
  <2>5. /\ toHub' \in [Conn -> Seq(Frames(issued))]
        /\ \A c \in Conn : HubEnd(c)'
    BY <1>2, <2>1, <2>2, FlushKeepsEnds
  <2>6. WireTypes'
    BY <1>6, <2>5 DEF Types, WireTypes
  <2>7. \A c \in Conn : ClientEnd(c)'
    BY <1>6 DEF Types, ClientEnd
  <2> QED BY <1>1, <2>4, <2>5, <2>6, <2>7 DEF Types
<1> QED BY <1>7, <1>8

\* The three ways to a new socket.
LEMMA TypesOpenSocket ==
  ASSUME Types, HubTypes', issued \subseteq issued', NEW c \in Conn,
         NEW cl \in Clients(issued', session), OpenSocket(cl, c),
         UNCHANGED <<session, log, server, busy, toHub, toClient, outbox, promise, app>>
  PROVE  Types'
<1> USE DEF OpenSocket
<1>1. session \in Nat /\ sock \in [Conn -> {"free", "dialing", "open"}]
  BY Bounds DEF Types, ClientTypes
<1>2. client' \in Clients(issued', session)
  BY <1>1, OpenFacts
<1>3. cl.identity \in issued' \cup {None}
  BY DEF Clients
<1>4. /\ sock' \in [Conn -> {"free", "dialing", "open"}]
      /\ header' \in [Conn -> issued' \cup {None}]
      /\ link' \in [Conn -> {"up", "shut", "down"}]
  BY <1>3 DEF Types, ClientTypes, WireTypes
<1>5. ClientTypes'
  BY <1>2, <1>4 DEF Types, ClientTypes
<1>6. WireTypes'
  BY <1>4, FramesGrow DEF Types, WireTypes
<1>7. ASSUME NEW d \in Conn PROVE HubEnd(d)' /\ ClientEnd(d)'
  <2>1. CASE d = c
    <3>1. server[c] = None /\ toHub[c] = <<>> /\ sock'[c] = "dialing"
      BY <1>1
    <3>2. ~busy[c]
      BY <3>1 DEF Types, HubEnd
    <3> QED BY <2>1, <3>1, <3>2 DEF HubEnd, ClientEnd
  <2>2. CASE d # c
    <3>1. sock'[d] = sock[d] /\ link'[d] = link[d]
      BY <1>1, <2>2 DEF Types, WireTypes
    <3> QED BY <3>1, EndsSame
  <2> QED BY <2>1, <2>2
<1> QED BY <1>5, <1>6, <1>7 DEF Types

\* The steps that open one of them.
LEMMA TypesSockets ==
  ASSUME Types, NEW c \in Conn,
         ConnectCalled(c) \/ ReconnectTimer(c) \/ \E d \in Dev : PairSucceeds(d, c)
  PROVE  Types'
<1>1. client \in Clients(issued, session) /\ session \in Nat
  BY Bounds DEF Types, ClientTypes
<1>2. CASE ConnectCalled(c)
  <2>1. HubTypes'
         /\ UNCHANGED <<issued, session, log, server, busy, toHub, toClient, outbox, promise, app>>
    BY <1>2, HubSame DEF ConnectCalled, hubVars, Types
  <2> DEFINE cl == Connected([client EXCEPT !.again = FALSE])
  <2>2. cl \in Clients(issued', session) /\ OpenSocket(cl, c)
    BY <1>1, <1>2, <2>1, ClientUpdates, ConnectedFacts DEF ConnectCalled
  <2> HIDE DEF cl
  <2> QED BY <2>1, <2>2, TypesOpenSocket
<1>3. CASE ReconnectTimer(c)
  <2>1. HubTypes'
         /\ UNCHANGED <<issued, session, log, server, busy, toHub, toClient, outbox, promise, app>>
    BY <1>3, HubSame DEF ReconnectTimer, hubVars, Types
  <2>2. CASE client.closedByUser
    <3>1. client' = [client EXCEPT !.timer = FALSE] /\ UNCHANGED <<sock, header, link>>
      BY <1>3, <2>2 DEF ReconnectTimer
    <3>2. client' \in Clients(issued, session)
      BY <1>1, <3>1, ClientUpdates
    <3>3. ClientTypes' /\ WireTypes'
      BY <2>1, <3>1, <3>2 DEF Types, ClientTypes, WireTypes
    <3>4. \A d \in Conn : HubEnd(d)' /\ ClientEnd(d)'
      BY <2>1, <3>1, EndsSame
    <3> QED BY <2>1, <3>3, <3>4 DEF Types
  <2>3. CASE ~client.closedByUser
    <3>1. OpenSocket(client, c)
      BY <1>3, <2>3 DEF ReconnectTimer
    <3> QED BY <1>1, <2>1, <3>1, TypesOpenSocket
  <2> QED BY <2>2, <2>3
<1>4. ASSUME NEW d \in Dev, PairSucceeds(d, c) PROVE Types'
  <2>1. /\ UNCHANGED <<session, log, applied, refused, server, busy, early, cut, toHub, toClient>>
        /\ UNCHANGED <<outbox, promise, app, spent>>
        /\ issued' = issued \cup {d} /\ valid' = valid \cup {d}
    BY <1>4 DEF PairSucceeds
  <2>2. HubTypes'
    <3>1. log \in Seq(Entries(issued', session)) /\ early \in SUBSET Entries(issued', session)
      <4>1. log \in Seq(Entries(issued, session)) /\ early \in SUBSET Entries(issued, session)
        BY DEF Types, HubTypes
      <4>2. issued \subseteq issued'
        BY <2>1
      <4>3. session <= session
        BY <1>1
      <4>4. /\ \A q \in Seq(Entries(issued, session)) : q \in Seq(Entries(issued', session))
            /\ Entries(issued, session) \subseteq Entries(issued', session)
        BY <1>1, <4>2, <4>3, EntriesGrow
      <4> QED BY <4>1, <4>4
    <3> QED BY <2>1, <3>1 DEF Types, HubTypes
  <2> DEFINE told == [client EXCEPT !.identity = d, !.pairing = FALSE, !.again = app = "web"]
             cl == Connected(told)
  <2>3. client \in Clients(issued', session)
    BY <1>1, <2>1, ClientsGrow
  <2>4. d \in issued' /\ (app = "web") \in BOOLEAN
    BY <2>1
  <2>5. told \in Clients(issued', session)
    BY <1>1, <2>3, <2>4, ClientUpdates
  <2>6. OpenSocket(cl, c)
    BY <1>4 DEF PairSucceeds
  <2> HIDE DEF told
  <2>7. cl \in Clients(issued', session)
    BY <2>5, ConnectedFacts
  <2> HIDE DEF cl
  <2> QED BY <2>1, <2>2, <2>6, <2>7, TypesOpenSocket
<1> QED BY <1>2, <1>3, <1>4

\* Deleting a command from the outbox.
LEMMA WithoutFacts ==
  ASSUME NEW box \in Seq(Cmd), NEW x
  PROVE  LET w == Without(box, x)
         IN  /\ w \in Seq(Cmd) /\ Len(w) <= Len(box)
             /\ \A i \in DOMAIN w : \E j \in DOMAIN box : w[i] = box[j]
             /\ \A y : y # x /\ Contains(box, y) => Contains(w, y)
             /\ (\A i, j \in DOMAIN box : box[i] = box[j] => i = j) =>
                  /\ \A i \in DOMAIN w : w[i] # x
                  /\ \A i, j \in DOMAIN w : w[i] = w[j] => i = j
<1>1. Len(box) \in Nat /\ DOMAIN box = 1 .. Len(box)
  OBVIOUS
<1>2. CASE Contains(box, x)
  <2> DEFINE k == CHOOSE i \in DOMAIN box : box[i] = x
  <2>1. k \in DOMAIN box /\ box[k] = x
    BY <1>1, <1>2 DEF Contains
  <2>2. Without(box, x) = RemoveAt(box, k)
    BY <1>2 DEF Without
  <2> HIDE DEF k
  <2> DEFINE w == RemoveAt(box, k)
  <2>3. /\ w \in Seq(Cmd) /\ Len(w) = Len(box) - 1 /\ DOMAIN w = 1 .. (Len(box) - 1)
        /\ \A i \in 1 .. (Len(box) - 1) : w[i] = IF i < k THEN box[i] ELSE box[i + 1]
    BY <2>1, RemoveFacts
  <2> HIDE DEF w
  <2>4. k \in 1 .. Len(box)
    BY <1>1, <2>1
  <2>5. \A i \in DOMAIN w : \E j \in DOMAIN box : w[i] = box[j] /\ j # k
    <3> TAKE i \in DOMAIN w
    <3>1. i \in 1 .. (Len(box) - 1)
      BY <2>3
    <3>2. CASE i < k
      BY <1>1, <2>3, <2>4, <3>1, <3>2
    <3>3. CASE ~(i < k)
      <4>1. i + 1 \in DOMAIN box /\ w[i] = box[i + 1] /\ i + 1 # k
        BY <1>1, <2>3, <2>4, <3>1, <3>3
      <4> QED BY <4>1
    <3> QED BY <3>2, <3>3
  <2>6. ASSUME NEW y, y # x, Contains(box, y) PROVE Contains(w, y)
    <3>1. PICK j \in 1 .. Len(box) : box[j] = y
      BY <2>6 DEF Contains
    <3>2. j # k
      BY <2>1, <2>6, <3>1
    <3>3. CASE j < k
      <4>1. j \in 1 .. Len(w) /\ w[j] = y
        BY <1>1, <2>3, <2>4, <3>1, <3>3
      <4> QED BY <4>1 DEF Contains
    <3>4. CASE j > k
      <4>1. j - 1 \in 1 .. Len(w) /\ w[j - 1] = box[(j - 1) + 1] /\ (j - 1) + 1 = j
        BY <1>1, <2>3, <2>4, <3>1, <3>4
      <4> QED BY <3>1, <4>1 DEF Contains
    <3> QED BY <2>4, <3>1, <3>2, <3>3, <3>4
  <2>7. ASSUME \A i, j \in DOMAIN box : box[i] = box[j] => i = j
        PROVE  /\ \A i \in DOMAIN w : w[i] # x
               /\ \A i, j \in DOMAIN w : w[i] = w[j] => i = j
    <3>1. \A i \in DOMAIN w : w[i] # x
      BY <2>1, <2>5, <2>7
    <3>2. ASSUME NEW i \in DOMAIN w, NEW j \in DOMAIN w, w[i] = w[j] PROVE i = j
      <4> DEFINE at(n) == IF n < k THEN n ELSE n + 1
      <4>1. i \in 1 .. (Len(box) - 1) /\ j \in 1 .. (Len(box) - 1)
        BY <2>3, <3>2
      <4>2. at(i) \in DOMAIN box /\ at(j) \in DOMAIN box
        BY <1>1, <2>4, <4>1
      <4>3. w[i] = box[at(i)] /\ w[j] = box[at(j)]
        BY <2>3, <4>1
      <4>4. at(i) = at(j)
        BY <2>7, <3>2, <4>2, <4>3
      <4> QED BY <2>4, <4>1, <4>4
    <3> QED BY <3>1, <3>2
  <2>8. Len(w) <= Len(box)
    BY <1>1, <2>3
  <2>9. Without(box, x) = w
    BY <2>2 DEF w
  <2> QED BY <2>3, <2>5, <2>6, <2>7, <2>8, <2>9
<1>3. CASE ~Contains(box, x)
  <2>1. Without(box, x) = box
    BY <1>3 DEF Without
  <2>2. \A i \in DOMAIN box : box[i] # x
    BY <1>1, <1>3 DEF Contains
  <2> QED BY <1>1, <2>1, <2>2
<1> QED BY <1>2, <1>3

\* What settling a promise does to the promises and the outbox.
LEMMA SettleFacts ==
  ASSUME Types, NEW x \in Cmd, NEW outcome \in Promises(Len(log)), Settle(x, outcome)
  PROVE  /\ promise' \in [Cmd -> Promises(Len(log))]
         /\ outbox' \in Seq(Cmd) /\ Len(outbox') <= MaxOutbox[app]
         /\ \A y \in Cmd : promise'[y] = IF y = x /\ promise[x] = Pending THEN outcome
                                        ELSE promise[y]
         /\ outbox' = IF promise[x] = Pending THEN Without(outbox, x) ELSE outbox
<1>1. /\ promise \in [Cmd -> Promises(Len(log))]
      /\ outbox \in Seq(Cmd) /\ Len(outbox) <= MaxOutbox[app]
      /\ app \in App /\ MaxOutbox[app] \in Nat
  BY DeliveryAssumption DEF Types, ClientTypes
<1>2. CASE promise[x] # Pending
  BY <1>1, <1>2 DEF Settle
<1>3. CASE promise[x] = Pending
  <2>1. promise' = [promise EXCEPT ![x] = outcome] /\ outbox' = Without(outbox, x)
    BY <1>3 DEF Settle
  <2>2. outbox' \in Seq(Cmd) /\ Len(outbox') <= Len(outbox)
    BY <1>1, <2>1, WithoutFacts
  <2>3. Len(outbox') <= MaxOutbox[app]
    BY <1>1, <2>2
  <2> QED BY <1>1, <1>3, <2>1, <2>2, <2>3
<1> QED BY <1>2, <1>3

\* The replies that leave the sockets as they are.
LEMMA TypesReply ==
  ASSUME Types, NEW c \in Conn, OnSnapshot(c) \/ OnTip(c) \/ OnAck(c) \/ OnError(c)
  PROVE  Types'
<1>1. /\ UNCHANGED <<hubVars, spent, link, sock, header, app>>
      /\ UNCHANGED <<session, log, issued, server, busy>>
  BY DEF OnSnapshot, OnTip, OnAck, OnError, hubVars
<1>2. HubTypes'
  BY <1>1, HubSame DEF Types
<1>3. /\ client \in Clients(issued, session) /\ client.socket \in Conn \cup {None}
      /\ session \in Nat /\ Len(log) \in Nat
      /\ app \in App /\ MaxOutbox[app] \in Nat
      /\ outbox \in Seq(Cmd) /\ Len(outbox) <= MaxOutbox[app]
      /\ promise \in [Cmd -> Promises(Len(log))]
  BY ClientFields, Bounds, DeliveryAssumption DEF Types, ClientTypes, Typed
<1>4. PICK type : Receives(c, type) /\ type \in {"snapshot", "tip", "ack", "error"}
  BY DEF OnSnapshot, OnTip, OnAck, OnError
<1>5. Taken(c)
  BY DEF OnSnapshot, OnTip, OnAck, OnError
<1>6. /\ sock[c] = "open"
      /\ toClient' \in [Conn -> Seq(Replies(session, Len(log)))]
      /\ \A d \in Conn : d # c => toClient'[d] = toClient[d]
  BY <1>4, <1>5, ReceivesFacts
<1>7. \A d \in Conn : ClientEnd(d)'
  BY <1>1, <1>6 DEF Types, ClientEnd
<1>8. ASSUME /\ client' \in Clients(issued, session)
             /\ promise' \in [Cmd -> Promises(Len(log))]
             /\ outbox' \in Seq(Cmd) /\ Len(outbox') <= MaxOutbox[app]
             /\ toHub' \in {toHub, Flushed(client', outbox')}
      PROVE  Types'
  <2>1. ClientTypes'
    BY <1>1, <1>8 DEF Types, ClientTypes
  <2>2. /\ toHub' \in [Conn -> Seq(Frames(issued))]
        /\ \A d \in Conn : HubEnd(d)'
    <3>1. CASE toHub' = toHub
      BY <1>1, <3>1 DEF Types, WireTypes, HubEnd
    <3>2. CASE toHub' = Flushed(client', outbox')
      <4>1. client'.socket \in Conn \cup {None}
        BY <1>8 DEF Clients
      <4> QED BY <1>1, <1>8, <3>2, <4>1, FlushKeepsEnds
    <3> QED BY <1>8, <3>1, <3>2
  <2>3. WireTypes'
    BY <1>1, <1>6, <2>2 DEF Types, WireTypes
  <2> QED BY <1>2, <1>7, <2>1, <2>2, <2>3 DEF Types
<1>9. CASE OnSnapshot(c)
  <2> DEFINE snap == Head(toClient[c])
  <2>1. snap \in Replies(session, Len(log)) /\ snap.type = "snapshot"
    BY <1>9, ReceivesFacts DEF OnSnapshot
  <2>2. snap.session \in 0 .. session
    BY <1>3, <2>1, ReplyFacts
  <2>3. /\ client' = [client EXCEPT !.session = snap.session,
                                    !.phase = IF snap.behind THEN "syncing" ELSE "live"]
        /\ outbox' \in {outbox, <<>>} /\ promise' = promise
        /\ toHub' = Flushed(client', outbox')
    BY <1>9 DEF OnSnapshot
  <2> HIDE DEF snap
  <2>4. (IF snap.behind THEN "syncing" ELSE "live") \in {"syncing", "live"}
    OBVIOUS
  <2>5. client' \in Clients(issued, session)
    BY <1>3, <2>2, <2>3, <2>4, ClientUpdates
  <2>6. outbox' \in Seq(Cmd) /\ Len(outbox') <= MaxOutbox[app]
    <3>1. <<>> \in Seq(Cmd) /\ Len(<<>>) = 0
      OBVIOUS
    <3>2. CASE outbox' = outbox
      BY <1>3, <3>2
    <3>3. CASE outbox' = <<>>
      BY <1>3, <3>1, <3>3
    <3> QED BY <2>3, <3>2, <3>3
  <2> QED BY <1>3, <1>8, <2>3, <2>5, <2>6
<1>10. CASE OnTip(c)
  <2>1. /\ client' = [client EXCEPT !.phase = "live"]
        /\ outbox' = outbox /\ promise' = promise
        /\ toHub' \in {toHub, Flushed(client', outbox')}
    BY <1>10 DEF OnTip
  <2>2. client' \in Clients(issued, session)
    BY <1>3, <2>1, ClientUpdates
  <2> QED BY <1>3, <1>8, <2>1, <2>2
<1>11. CASE OnAck(c) \/ OnError(c)
  <2>1. UNCHANGED <<client, toHub>>
    BY <1>11 DEF OnAck, OnError
  <2>2. PICK x \in Cmd, outcome \in Promises(Len(log)) : Settle(x, outcome)
    <3> DEFINE m == Head(toClient[c])
    <3>1. m \in Replies(session, Len(log)) /\ m.type \in {"ack", "error"}
      BY <1>11, ReceivesFacts DEF OnAck, OnError
    <3>2. m.cmd \in Cmd /\ (m.type = "ack" => m.seq \in 0 .. Len(log))
      BY <3>1, ReplyFacts
    <3>3. CASE OnAck(c)
      <4>1. m.type = "ack" /\ Settle(m.cmd, Resolved(m.seq))
        BY <3>3 DEF OnAck, Receives
      <4>2. Resolved(m.seq) \in Promises(Len(log))
        BY <3>2, <4>1 DEF Resolved, Promises
      <4> QED BY <3>2, <4>1, <4>2
    <3>4. CASE OnError(c)
      <4>1. Settle(m.cmd, Rejected)
        BY <3>4 DEF OnError
      <4>2. Rejected \in Promises(Len(log))
        BY <1>3 DEF Rejected, Promises
      <4> QED BY <3>2, <4>1, <4>2
    <3> QED BY <1>11, <3>3, <3>4
  <2>3. /\ promise' \in [Cmd -> Promises(Len(log))]
        /\ outbox' \in Seq(Cmd) /\ Len(outbox') <= MaxOutbox[app]
    BY <2>2, SettleFacts
  <2> QED BY <1>3, <1>8, <2>1, <2>3
<1> QED BY <1>9, <1>10, <1>11

\* A fault has happened once more.
LEMMA HappensFacts ==
  ASSUME HubTypes, NEW fault \in Fault, Happens(fault)
  PROVE  /\ spent' \in [Fault -> 0 .. MaxEach]
         /\ spent'[fault] = spent[fault] + 1
         /\ \A other \in Fault : other # fault => spent'[other] = spent[other]
BY DeliveryAssumption DEF HubTypes, Happens

\* What a client that gives up its current socket leaves of it.
LEMMA ReleaseFacts ==
  ASSUME Types, NEW c \in Conn, OnGap(c) \/ OnTerminal(c)
  PROVE  /\ sock' \in [Conn -> {"free", "dialing", "open"}]
         /\ link' \in [Conn -> {"up", "shut", "down"}]
         /\ toClient' \in [Conn -> Seq(Replies(session, Len(log)))]
         /\ \A d \in Conn : d = client.socket =>
              sock'[d] = "free" /\ link'[d] = "down" /\ toClient'[d] = <<>>
         /\ \A d \in Conn : d # client.socket =>
              /\ sock'[d] = sock[d] /\ link'[d] = link[d]
              /\ toClient'[d] = toClient[d] \/
                   /\ d = c /\ sock[c] = "open" /\ toClient[c] # <<>>
                   /\ toClient'[c] = Tail(toClient[c])
<1>1. /\ sock \in [Conn -> {"free", "dialing", "open"}]
      /\ link \in [Conn -> {"up", "shut", "down"}]
      /\ toClient \in [Conn -> Seq(Replies(session, Len(log)))]
  BY DEF Types, ClientTypes, WireTypes
<1>2. <<>> \in Seq(Replies(session, Len(log)))
  OBVIOUS
<1>3. CASE OnGap(c)
  <2>1. /\ sock' = [d \in Conn |-> IF d = client.socket THEN "free" ELSE sock[d]]
        /\ link' = [d \in Conn |-> IF d = client.socket THEN "down" ELSE link[d]]
        /\ toClient' = [d \in Conn |-> IF d = client.socket THEN <<>> ELSE toClient[d]]
    BY <1>3 DEF OnGap
  <2>2. toClient' \in [Conn -> Seq(Replies(session, Len(log)))]
    BY <1>1, <1>2, <2>1
  <2>3. /\ sock' \in [Conn -> {"free", "dialing", "open"}]
        /\ link' \in [Conn -> {"up", "shut", "down"}]
    BY <1>1, <2>1
  <2>4. ASSUME NEW d \in Conn
        PROVE  /\ d = client.socket =>
                    sock'[d] = "free" /\ link'[d] = "down" /\ toClient'[d] = <<>>
               /\ d # client.socket =>
                    sock'[d] = sock[d] /\ link'[d] = link[d] /\ toClient'[d] = toClient[d]
    BY <2>1, Zenon
  <2> QED BY <2>2, <2>3, <2>4
<1>4. CASE OnTerminal(c)
  <2> DEFINE rest == Tail(toClient[c])
  <2>1. /\ sock' = [d \in Conn |-> IF d = client.socket THEN "free" ELSE sock[d]]
        /\ link' = [d \in Conn |-> IF d = client.socket THEN "down" ELSE link[d]]
        /\ toClient' = [d \in Conn |-> IF d = client.socket THEN <<>>
                                       ELSE IF d = c THEN rest ELSE toClient[d]]
    <3>1. toClient' = [d \in Conn |-> IF d = client.socket THEN <<>>
                                 ELSE IF d = c THEN Tail(toClient[d]) ELSE toClient[d]]
      BY <1>4 DEF OnTerminal, Detach
    <3> QED BY <1>4, <3>1 DEF OnTerminal, Detach
  <2>2. toClient[c] # <<>> /\ toClient[c] \in Seq(Replies(session, Len(log)))
    BY <1>1, <1>4 DEF OnTerminal, Receives
  <2>3. rest \in Seq(Replies(session, Len(log)))
    BY <2>2, TailFacts
  <2> HIDE DEF rest
  <2>4. toClient' \in [Conn -> Seq(Replies(session, Len(log)))]
    BY <1>1, <1>2, <2>1, <2>3
  <2>5. /\ sock' \in [Conn -> {"free", "dialing", "open"}]
        /\ link' \in [Conn -> {"up", "shut", "down"}]
    BY <1>1, <2>1
  <2>6. ASSUME NEW d \in Conn
        PROVE  /\ d = client.socket =>
                    sock'[d] = "free" /\ link'[d] = "down" /\ toClient'[d] = <<>>
               /\ d # client.socket =>
                    /\ sock'[d] = sock[d] /\ link'[d] = link[d]
                    /\ toClient'[d] = IF d = c THEN rest ELSE toClient[d]
    BY <2>1, Zenon
  <2>7. sock[c] = "open"
    BY <1>4 DEF OnTerminal, Receives
  <2> QED BY <2>2, <2>4, <2>5, <2>6, <2>7 DEF rest
<1> QED BY <1>3, <1>4

\* The two that give up the current socket.
LEMMA TypesRelease ==
  ASSUME Types, NEW c \in Conn, OnGap(c) \/ OnTerminal(c)
  PROVE  Types'
<1>1. UNCHANGED <<hubVars, toHub, outbox, promise, header, app>>
  BY DEF OnGap, OnTerminal
<1>2. UNCHANGED <<session, log, applied, refused, issued, valid, server, busy, early, cut>>
  BY <1>1 DEF hubVars
<1>3. HubTypes'
  <2>1. CASE OnGap(c)
    <3>1. "gap" \in Fault /\ "restart" \in Fault
      BY DEF Fault
    <3>2. HubTypes /\ (Happens("gap") \/ UNCHANGED spent)
      BY <2>1 DEF OnGap, Types
    <3>3. spent' \in [Fault -> 0 .. MaxEach] /\ spent'["restart"] = spent["restart"]
      BY <3>1, <3>2, HappensFacts DEF HubTypes
    <3> QED BY <1>2, <3>2, <3>3 DEF HubTypes
  <2>2. CASE OnTerminal(c)
    BY <1>1, <2>2, HubSame DEF OnTerminal, Types
  <2> QED BY <2>1, <2>2
<1>4. client \in Clients(issued, session) /\ session \in Nat
  BY Bounds DEF Types, ClientTypes
<1>5. client' \in Clients(issued, session)
  <2>1. CASE OnGap(c)
    <3>1. PICK third \in BOOLEAN :
            client' = Reconnecting([client EXCEPT !.fullResync = client.fullResync \/ third,
                                                  !.resynced = client.resynced \/ third,
                                                  !.socket = None])
      BY <2>1 DEF OnGap
    <3> DEFINE told == [client EXCEPT !.fullResync = client.fullResync \/ third,
                                      !.resynced = client.resynced \/ third, !.socket = None]
    <3>2. told \in Clients(issued, session)
      BY <1>4, ClientUpdates
    <3> HIDE DEF told
    <3> QED BY <3>1, <3>2, ReconnectingFacts DEF told
  <2>2. CASE OnTerminal(c)
    BY <1>4, <2>2, ClientUpdates DEF OnTerminal
  <2> QED BY <2>1, <2>2
<1>6. ClientTypes'
  BY <1>1, <1>2, <1>5, ReleaseFacts DEF Types, ClientTypes
<1>7. WireTypes'
  BY <1>1, <1>2, ReleaseFacts DEF Types, WireTypes
<1>8. ASSUME NEW d \in Conn PROVE HubEnd(d)' /\ ClientEnd(d)'
  <2>1. /\ HubEnd(d) /\ ClientEnd(d)
        /\ toHub'[d] = toHub[d] /\ server'[d] = server[d] /\ busy'[d] = busy[d]
    BY <1>1, <1>2 DEF Types
  <2>2. CASE d = client.socket
    <3>1. sock'[d] = "free" /\ link'[d] = "down" /\ toClient'[d] = <<>>
      BY <2>2, ReleaseFacts
    <3> QED BY <2>1, <3>1 DEF HubEnd, ClientEnd
  <2>3. CASE d # client.socket
    <3>1. /\ sock'[d] = sock[d] /\ link'[d] = link[d]
          /\ toClient'[d] = toClient[d] \/ sock[d] = "open"
      BY <2>3, ReleaseFacts
    <3> QED BY <2>1, <3>1 DEF HubEnd, ClientEnd
  <2> QED BY <2>2, <2>3
<1> QED BY <1>3, <1>6, <1>7, <1>8 DEF Types

\* The steps that change little but the client.
LEMMA TypesClient ==
  ASSUME Types, (\E c \in Conn : OnOpen(c) \/ OnClose(c)) \/ PairStarts \/ PairFails \/ Forget
  PROVE  Types'
<1>1. UNCHANGED <<hubVars, link, toClient, outbox, promise, header, app, spent>>
  BY DEF OnOpen, OnClose, PairStarts, PairFails, Forget, netVars
<1>2. UNCHANGED <<session, log, issued, server, busy>> /\ HubTypes'
  BY <1>1, HubSame DEF hubVars, Types
<1>3. client \in Clients(issued, session) /\ session \in Nat
  BY Bounds DEF Types, ClientTypes
<1>4. /\ sock \in [Conn -> {"free", "dialing", "open"}]
      /\ toHub \in [Conn -> Seq(Frames(issued))]
  BY DEF Types, ClientTypes, WireTypes
<1>5. ASSUME client' \in Clients(issued, session),
             sock' \in [Conn -> {"free", "dialing", "open"}],
             toHub' \in [Conn -> Seq(Frames(issued))],
             \A d \in Conn : HubEnd(d)' /\ ClientEnd(d)'
      PROVE  Types'
  <2>1. ClientTypes'
    BY <1>1, <1>2, <1>5 DEF Types, ClientTypes
  <2>2. WireTypes'
    BY <1>1, <1>2, <1>5 DEF Types, WireTypes
  <2> QED BY <1>2, <1>5, <2>1, <2>2 DEF Types
<1>6. ASSUME NEW c \in Conn, OnOpen(c) PROVE Types'
  <2> DEFINE hello == Hello(IF HeaderAuth THEN header[c] ELSE client.identity, client.identity,
                    client.session)
  <2>1. /\ sock[c] = "dialing" /\ link[c] = "up" /\ sock' = [sock EXCEPT ![c] = "open"]
        /\ toHub' = [toHub EXCEPT ![c] = <<hello>>]
        /\ client' = client
    BY <1>6 DEF OnOpen
  <2>2. hello \in Frames(issued) /\ hello.type = "hello"
    <3>1. client.identity \in issued \cup {None} /\ header[c] \in issued \cup {None}
      BY DEF Types, ClientTypes, Clients
    <3>2. client.session \in 0 .. MaxEach + 1
      <4>1. client.session \in 0 .. session
        BY <1>3, ClientFields DEF Typed
      <4> QED BY <4>1, Bounds DEF Types
    <3> DEFINE cred == IF HeaderAuth THEN header[c] ELSE client.identity
    <3>3. cred \in issued \cup {None}
      BY <3>1
    <3> HIDE DEF cred
    <3>4. Hello(cred, client.identity, client.session) \in Frames(issued)
      BY <3>1, <3>2, <3>3, FramesMade
    <3> QED BY <3>4, FramesMade DEF cred
  <2> HIDE DEF hello
  <2>3. <<hello>> \in Seq(Frames(issued)) /\ DOMAIN <<hello>> = {1} /\ <<hello>>[1] = hello
    BY <2>2
  <2>4. /\ sock' \in [Conn -> {"free", "dialing", "open"}]
        /\ toHub' \in [Conn -> Seq(Frames(issued))]
    BY <1>4, <2>1, <2>3
  <2>5. ASSUME NEW d \in Conn PROVE HubEnd(d)' /\ ClientEnd(d)'
    <3>1. CASE d # c
      <4>1. sock'[d] = sock[d] /\ toHub'[d] = toHub[d]
        BY <1>4, <2>1, <3>1
      <4> QED BY <1>1, <1>2, <4>1, EndsSame
    <3>2. CASE d = c
      <4>1. server[c] = None /\ ~busy[c]
        BY <2>1 DEF Types, HubEnd
      <4>2. sock'[c] = "open" /\ toHub'[c] = <<hello>> /\ <<hello>> # <<>>
        BY <1>4, <2>1
      <4> QED BY <1>2, <2>2, <2>3, <3>2, <4>1, <4>2 DEF HubEnd, ClientEnd
    <3> QED BY <3>1, <3>2
  <2> QED BY <1>3, <1>5, <2>1, <2>4, <2>5
<1>7. ASSUME NEW c \in Conn, OnClose(c) PROVE Types'
  <2>1. /\ link[c] # "up" /\ toClient[c] = <<>> /\ sock' = [sock EXCEPT ![c] = "free"]
        /\ toHub' = toHub
        /\ client' \in {client, Reconnecting(client)}
    BY <1>7 DEF OnClose, netVars
  <2>2. client' \in Clients(issued, session)
    BY <1>3, <2>1, ReconnectingFacts
  <2>3. sock' \in [Conn -> {"free", "dialing", "open"}]
    BY <1>4, <2>1
  <2>4. ASSUME NEW d \in Conn PROVE HubEnd(d)' /\ ClientEnd(d)'
    <3>1. CASE d # c
      <4>1. sock'[d] = sock[d]
        BY <1>4, <2>1, <3>1
      <4> QED BY <1>1, <1>2, <2>1, <4>1, EndsSame
    <3>2. CASE d = c
      <4>1. sock'[c] = "free"
        BY <1>4, <2>1
      <4>2. HubEnd(c)
        BY DEF Types
      <4> QED BY <1>1, <1>2, <2>1, <3>2, <4>1, <4>2 DEF HubEnd, ClientEnd
    <3> QED BY <3>1, <3>2
  <2> QED BY <1>4, <1>5, <2>1, <2>2, <2>3, <2>4
<1>8. CASE PairStarts \/ PairFails \/ Forget
  <2>1. UNCHANGED <<sock, toHub>>
    BY <1>8 DEF PairStarts, PairFails, Forget, netVars
  <2>2. client' \in Clients(issued, session)
    <3>1. CASE PairStarts
      BY <1>3, <3>1, ClientUpdates DEF PairStarts
    <3>2. CASE PairFails
      BY <1>3, <3>2, ClientUpdates DEF PairFails
    <3>3. CASE Forget
      BY <1>3, <3>3, ClientUpdates DEF Forget
    <3> QED BY <1>8, <3>1, <3>2, <3>3
  <2>3. \A d \in Conn : HubEnd(d)' /\ ClientEnd(d)'
    BY <1>1, <1>2, <2>1, EndsSame
  <2> QED BY <1>4, <1>5, <2>1, <2>2, <2>3
<1> QED BY <1>6, <1>7, <1>8

\* The command that a connection being served is at.
LEMMA CommandFacts ==
  ASSUME Types, NEW c \in Conn, NextCommand(c) \/ busy[c]
  PROVE  /\ server[c] \in issued /\ server[c] # None
         /\ toHub[c] # <<>> /\ 1 \in DOMAIN toHub[c]
         /\ Head(toHub[c]) = toHub[c][1]
         /\ toHub[c][1].type = "command" /\ toHub[c][1].cmd \in Cmd
         /\ At(c) = <<server[c], toHub[c][1].cmd>> /\ At(c) \in issued \X Cmd
         /\ Entry(c) = [session |-> session, dev |-> server[c], cmd |-> toHub[c][1].cmd]
         /\ Entry(c) \in Entries(issued, session)
<1>1. server[c] # None /\ toHub[c] # <<>> /\ toHub[c] \in Seq(Frames(issued))
  BY DEF NextCommand, Types, WireTypes, HubEnd
<1>2. server[c] \in issued
  BY <1>1 DEF Types, HubTypes
<1>3. /\ 1 \in DOMAIN toHub[c] /\ Head(toHub[c]) = toHub[c][1]
      /\ toHub[c][1] \in Frames(issued)
  BY <1>1, TailFacts
<1>4. toHub[c][1].type # "hello"
  BY <1>1, <1>3 DEF Types, HubEnd
<1>5. toHub[c][1].type = "command" /\ toHub[c][1].cmd \in Cmd
  BY <1>3, <1>4, FrameFacts
<1>6. session \in 1 .. session
  BY Bounds DEF Types
<1> QED BY <1>1, <1>2, <1>3, <1>5, <1>6 DEF At, Entry, Entries

\* A handler has recorded the key of its command.
LEMMA TypesRecordKey ==
  ASSUME Types, NEW c \in Conn, RecordKey(c)
  PROVE  Types'
<1>1. /\ UNCHANGED <<session, log, refused, issued, valid, server, early, cut, link, toHub>>
      /\ UNCHANGED <<toClient, client, outbox, promise, sock, header, app, spent>>
      /\ applied' = applied \cup {At(c)} /\ busy' = [busy EXCEPT ![c] = TRUE]
  BY DEF RecordKey, netVars, clientVars
<1>2. At(c) \in issued \X Cmd /\ server[c] # None /\ toHub[c] # <<>>
  BY CommandFacts DEF RecordKey
<1>3. HubTypes'
  BY <1>1, <1>2 DEF Types, HubTypes
<1>4. WireTypes' /\ ClientTypes'
  BY <1>1 DEF Types, WireTypes, ClientTypes
<1>5. ASSUME NEW d \in Conn PROVE HubEnd(d)' /\ ClientEnd(d)'
  <2>1. HubEnd(d) /\ ClientEnd(d) /\ (d # c => busy'[d] = busy[d])
    BY <1>1 DEF Types, HubTypes
  <2> QED BY <1>1, <1>2, <2>1 DEF HubEnd, ClientEnd
<1> QED BY <1>3, <1>4, <1>5 DEF Types

\* A served connection has read a command and replied.
LEMMA TypesCommand ==
  ASSUME Types, NEW c \in Conn, AckReplay(c) \/ Execute(c) \/ Refuse(c)
  PROVE  Types'
<1>1. /\ UNCHANGED <<session, issued, valid, server, cut, link, clientVars, spent>>
      /\ NextCommand(c) \/ busy[c]
      /\ Read(c)
  BY DEF AckReplay, Execute, Refuse, hubVars
<1>2. UNCHANGED <<client, outbox, promise, sock, header, app>>
  BY <1>1 DEF clientVars
<1> DEFINE x == Head(toHub[c]).cmd
<1>3. x \in Cmd /\ server[c] \in issued /\ toHub[c] # <<>> /\ server[c] # None
  BY <1>1, CommandFacts
<1>4. /\ toHub \in [Conn -> Seq(Frames(issued))]
      /\ toClient \in [Conn -> Seq(Replies(session, Len(log)))]
      /\ session \in Nat /\ session \in 1 .. session /\ Len(log) \in Nat
  BY Bounds DEF Types, WireTypes
<1>5. log' = log \/ log' = Append(log, Entry(c))
  BY DEF AckReplay, Execute, Refuse
<1>6. /\ log' \in Seq(Entries(issued, session))
      /\ Len(log') \in Nat /\ Len(log) <= Len(log') /\ Len(log') <= Len(log) + 1
  <2>1. log \in Seq(Entries(issued, session))
    BY DEF Types, HubTypes
  <2>2. Entry(c) \in Entries(issued, session)
    BY <1>1, CommandFacts
  <2>3. CASE log' = log
    BY <1>4, <2>1, <2>3
  <2>4. CASE log' = Append(log, Entry(c))
    <3>1. log' \in Seq(Entries(issued, session)) /\ Len(log') = Len(log) + 1
      BY <2>1, <2>2, <2>4, AppendFacts
    <3> QED BY <1>4, <3>1
  <2> QED BY <1>5, <2>3, <2>4
<1>7. /\ applied' = applied /\ refused' \in SUBSET (issued \X Cmd)
      /\ early' \in SUBSET Entries(issued, session)
      /\ busy' \in {busy, [busy EXCEPT ![c] = FALSE]}
  <2>1. At(c) \in issued \X Cmd /\ Entry(c) \in Entries(issued, session)
    BY <1>1, CommandFacts
  <2>2. /\ applied' = applied /\ refused' \in {refused, refused \cup {At(c)}}
        /\ early' \in {early, early \cup {Entry(c)}}
        /\ busy' \in {busy, [busy EXCEPT ![c] = FALSE]}
    BY DEF AckReplay, Execute, Refuse
  <2> QED BY <2>1, <2>2 DEF Types, HubTypes
<1>8. HubTypes'
  BY <1>1, <1>6, <1>7 DEF Types, HubTypes
<1>9. PICK frames \in Seq(Replies(session, Len(log'))) : Send(c, frames)
  <2> HIDE DEF x
  <2>1. /\ Ack(x, 0) \in Replies(session, Len(log'))
        /\ Error(x) \in Replies(session, Len(log'))
    BY <1>3, <1>4, <1>6, RepliesMade
  <2>2. CASE AckReplay(c)
    <3>1. Send(c, <<Ack(x, 0)>>)
      BY <2>2 DEF AckReplay, x
    <3> QED BY <2>1, <3>1, ShortFacts
  <2>3. CASE Refuse(c)
    <3>1. Send(c, <<Error(x)>>)
      BY <2>3 DEF Refuse, RefusalReply, x
    <3> QED BY <2>1, <3>1, ShortFacts
  <2>4. CASE Execute(c)
    <3>1. PICK late \in {<<>>, <<Error(x)>>} : Send(c, <<Ack(x, Len(log) + 1)>> \o late)
      BY <2>4 DEF Execute, x
    <3>2. log' = Append(log, Entry(c))
      BY <2>4 DEF Execute
    <3>3. Len(log') = Len(log) + 1
      <4>1. Entry(c) \in Entries(issued, session)
        BY <1>1, CommandFacts
      <4> QED BY <3>2, <4>1, AppendFacts DEF Types, HubTypes
    <3>4. Len(log) + 1 \in 0 .. Len(log')
      BY <1>4, <3>3
    <3>5. Ack(x, Len(log) + 1) \in Replies(session, Len(log'))
      BY <1>3, <1>4, <1>6, <3>4, RepliesMade
    <3>6. late \in Seq(Replies(session, Len(log')))
            /\ <<Ack(x, Len(log) + 1)>> \in Seq(Replies(session, Len(log')))
      <4> DEFINE R == Replies(session, Len(log'))
      <4>1. Error(x) \in R /\ Ack(x, Len(log) + 1) \in R
        BY <2>1, <3>5
      <4> HIDE DEF R
      <4>2. <<>> \in Seq(R) /\ <<Error(x)>> \in Seq(R) /\ <<Ack(x, Len(log) + 1)>> \in Seq(R)
        BY <4>1, ShortFacts
      <4>3. late = <<>> \/ late = <<Error(x)>>
        OBVIOUS
      <4> QED BY <4>2, <4>3, Zenon DEF R
    <3>7. <<Ack(x, Len(log) + 1)>> \o late \in Seq(Replies(session, Len(log')))
      BY <3>6, ConcatFacts
    <3> QED BY <3>1, <3>7
  <2> QED BY <2>2, <2>3, <2>4
<1>10. /\ toClient' \in [Conn -> Seq(Replies(session, Len(log')))]
       /\ \A d \in Conn : d # c \/ link[d] # "up" => toClient'[d] = toClient[d]
  <2>1. Replies(session, Len(log)) \subseteq Replies(session, Len(log'))
    BY <1>4, <1>6, RepliesInclude
  <2> QED BY <1>4, <1>9, <2>1, SendFacts
<1>11. /\ toHub' \in [Conn -> Seq(Frames(issued))]
       /\ \A d \in Conn : d # c => toHub'[d] = toHub[d]
       /\ \A i \in DOMAIN toHub'[c] :
            i \in Nat \ {0} /\ i + 1 \in DOMAIN toHub[c] /\ toHub'[c][i] = toHub[c][i + 1]
  BY <1>1, <1>3, <1>4, ReadFacts
<1>12. WireTypes'
  BY <1>1, <1>10, <1>11 DEF Types, WireTypes
<1>13. ClientTypes'
  <2>1. Promises(Len(log)) \subseteq Promises(Len(log'))
    BY <1>4, <1>6, PromisesGrow
  <2> QED BY <1>1, <1>2, <2>1 DEF Types, ClientTypes
<1>14. ASSUME NEW d \in Conn PROVE HubEnd(d)' /\ ClientEnd(d)'
  <2>1. HubEnd(d) /\ ClientEnd(d)
    BY DEF Types
  <2>2. ClientEnd(d)'
    BY <1>1, <1>2, <1>10, <2>1 DEF ClientEnd
  <2>3. CASE d # c
    <3>1. toHub'[d] = toHub[d] /\ busy'[d] = busy[d]
      BY <1>7, <1>11, <2>3 DEF Types, HubTypes
    <3> QED BY <1>1, <1>2, <2>1, <2>2, <3>1 DEF HubEnd
  <2>4. CASE d = c
    <3>4. ~busy'[c]
      BY DEF AckReplay, Execute, Refuse, NextCommand, Types, HubTypes
    <3>1. \A i \in DOMAIN toHub[c] : toHub[c][i].type # "hello"
      BY <1>3, <2>1, <2>4 DEF HubEnd
    <3>2. \A i \in DOMAIN toHub'[c] : toHub'[c][i].type # "hello"
      BY <1>11, <3>1
    <3>3. sock[c] # "dialing"
      BY <1>3, <2>1, <2>4 DEF HubEnd
    <3> QED BY <1>1, <1>2, <1>3, <2>2, <2>4, <3>2, <3>3, <3>4 DEF HubEnd
  <2> QED BY <2>3, <2>4
<1> QED BY <1>8, <1>12, <1>13, <1>14 DEF Types

\* The first frame of a connection is its hello.
LEMMA HelloFacts ==
  ASSUME Types, NEW c \in Conn, server[c] = None, toHub[c] # <<>>
  PROVE  /\ 1 \in DOMAIN toHub[c] /\ Head(toHub[c]) = toHub[c][1]
         /\ toHub[c][1].type = "hello"
         /\ toHub[c][1].credential \in issued \cup {None}
         /\ sock[c] # "dialing"
<1>1. toHub[c] \in Seq(Frames(issued))
  BY DEF Types, WireTypes
<1>2. /\ 1 \in DOMAIN toHub[c] /\ Head(toHub[c]) = toHub[c][1]
      /\ toHub[c][1] \in Frames(issued)
  BY <1>1, TailFacts
<1> QED BY <1>2, FrameFacts DEF Types, HubEnd

\* The hub admits or refuses a connection.
LEMMA TypesHandleConnection ==
  ASSUME Types, NEW c \in Conn, HandleConnection(c)
  PROVE  Types'
<1>1. /\ UNCHANGED <<session, log, applied, refused, issued, valid, busy, early, cut>>
      /\ UNCHANGED <<clientVars, spent>>
      /\ server[c] = None /\ toHub[c] # <<>>
  BY DEF HandleConnection
<1>2. UNCHANGED <<client, outbox, promise, sock, header, app>>
  BY <1>1 DEF clientVars
<1>3. ClientTypes'
  BY <1>1, <1>2 DEF Types, ClientTypes
<1>4. /\ toHub \in [Conn -> Seq(Frames(issued))]
      /\ toClient \in [Conn -> Seq(Replies(session, Len(log)))]
      /\ link \in [Conn -> {"up", "shut", "down"}]
      /\ server \in [Conn -> issued \cup {None}]
      /\ session \in Nat /\ session \in 1 .. session /\ Len(log) \in Nat
  BY Bounds DEF Types, WireTypes, HubTypes
<1>5. /\ 1 \in DOMAIN toHub[c] /\ Head(toHub[c]) = toHub[c][1]
      /\ sock[c] # "dialing"
  BY <1>1, HelloFacts
<1> DEFINE hello == Head(toHub[c])
<1>6. ASSUME NEW frames \in Seq(Replies(session, Len(log))), Send(c, frames)
      PROVE  /\ toClient' \in [Conn -> Seq(Replies(session, Len(log)))]
             /\ \A d \in Conn : d # c \/ link[d] # "up" => toClient'[d] = toClient[d]
  BY <1>4, <1>6, SendFacts
<1>7. CASE Admits(hello)
  <2>1. /\ server' = [server EXCEPT ![c] = hello.credential]
        /\ \/ \E behind \in BOOLEAN : Send(c, <<Snapshot(session, behind)>>)
           \/ Send(c, <<Snapshot(session, TRUE), Tip>>)
        /\ Read(c) /\ link' = link
    BY <1>7 DEF HandleConnection
  <2>2. hello.credential \in issued /\ hello.credential # None
    <3>1. hello.credential \in valid
      BY <1>7 DEF Admits
    <3> QED BY <3>1, Bounds DEF Types, HubTypes
  <2>3. /\ \A behind \in BOOLEAN : <<Snapshot(session, behind)>> \in Seq(Replies(session, Len(log)))
        /\ <<Snapshot(session, TRUE), Tip>> \in Seq(Replies(session, Len(log)))
    <3>1. /\ \A behind \in BOOLEAN : Snapshot(session, behind) \in Replies(session, Len(log))
          /\ Tip \in Replies(session, Len(log))
      BY <1>4, RepliesMade
    <3> QED BY <3>1, ShortFacts
  <2>4. /\ toClient' \in [Conn -> Seq(Replies(session, Len(log)))]
        /\ \A d \in Conn : d # c \/ link[d] # "up" => toClient'[d] = toClient[d]
    <3>1. ASSUME NEW behind \in BOOLEAN, Send(c, <<Snapshot(session, behind)>>)
          PROVE  /\ toClient' \in [Conn -> Seq(Replies(session, Len(log)))]
                 /\ \A d \in Conn : d # c \/ link[d] # "up" => toClient'[d] = toClient[d]
      BY <1>6, <2>3, <3>1
    <3>2. CASE Send(c, <<Snapshot(session, TRUE), Tip>>)
      BY <1>6, <2>3, <3>2
    <3> QED BY <2>1, <3>1, <3>2
  <2>5. /\ toHub' \in [Conn -> Seq(Frames(issued))]
        /\ \A d \in Conn : d # c => toHub'[d] = toHub[d]
        /\ \A i \in DOMAIN toHub'[c] :
             i \in Nat \ {0} /\ i + 1 \in DOMAIN toHub[c] /\ toHub'[c][i] = toHub[c][i + 1]
    BY <1>1, <1>4, <2>1, ReadFacts
  <2> HIDE DEF hello
  <2>6. HubTypes'
    BY <1>1, <1>4, <2>1, <2>2 DEF Types, HubTypes
  <2>7. WireTypes'
    BY <1>1, <2>1, <2>4, <2>5 DEF Types, WireTypes
  <2>8. ASSUME NEW d \in Conn PROVE HubEnd(d)' /\ ClientEnd(d)'
    <3>1. HubEnd(d) /\ ClientEnd(d)
      BY DEF Types
    <3>2. ClientEnd(d)'
      BY <1>2, <2>1, <2>4, <3>1 DEF ClientEnd
    <3>3. CASE d # c
      <4>1. toHub'[d] = toHub[d] /\ server'[d] = server[d]
        BY <1>4, <2>1, <2>5, <3>3
      <4> QED BY <1>1, <1>2, <2>1, <3>1, <3>2, <4>1 DEF HubEnd
    <3>4. CASE d = c
      <4>3. ~busy[c]
        BY <1>1, <3>1, <3>4 DEF HubEnd
      <4>1. \A i \in DOMAIN toHub'[c] : toHub'[c][i].type # "hello"
        <5>1. \A i \in DOMAIN toHub[c] : i # 1 => toHub[c][i].type # "hello"
          BY <3>1, <3>4 DEF HubEnd
        <5> QED BY <2>5, <5>1
      <4>2. server'[c] # None
        BY <1>4, <2>1, <2>2
      <4> QED BY <1>1, <1>2, <1>5, <3>2, <3>4, <4>1, <4>2, <4>3 DEF HubEnd
    <3> QED BY <3>3, <3>4
  <2> QED BY <1>3, <2>6, <2>7, <2>8 DEF Types
<1>8. CASE ~Admits(hello)
  <2>1. /\ Send(c, <<Terminal>>) /\ server' = server
        /\ link' = [link EXCEPT ![c] = IF link[c] = "up" THEN "shut" ELSE link[c]]
        /\ toHub' = [toHub EXCEPT ![c] = <<>>]
    BY <1>8 DEF HandleConnection
  <2>2. <<Terminal>> \in Seq(Replies(session, Len(log)))
    BY <1>4, RepliesMade
  <2>3. /\ toClient' \in [Conn -> Seq(Replies(session, Len(log)))]
        /\ \A d \in Conn : d # c \/ link[d] # "up" => toClient'[d] = toClient[d]
    BY <1>6, <2>1, <2>2
  <2>4. HubTypes'
    BY <1>1, <2>1 DEF Types, HubTypes
  <2>5. /\ toHub' \in [Conn -> Seq(Frames(issued))]
        /\ link' \in [Conn -> {"up", "shut", "down"}]
        /\ link'[c] # "up"
    BY <1>4, <2>1
  <2>6. WireTypes'
    BY <1>1, <2>3, <2>5 DEF Types, WireTypes
  <2>7. ASSUME NEW d \in Conn PROVE HubEnd(d)' /\ ClientEnd(d)'
    <3>1. HubEnd(d) /\ ClientEnd(d)
      BY DEF Types
    <3>2. CASE d # c
      <4>1. toHub'[d] = toHub[d] /\ link'[d] = link[d] /\ toClient'[d] = toClient[d]
        BY <1>4, <2>1, <2>3, <3>2
      <4> QED BY <1>1, <1>2, <2>1, <4>1, EndsSame
    <3>3. CASE d = c
      <4>1. toHub'[c] = <<>> /\ ~busy[c]
        BY <1>1, <1>4, <2>1, <3>1, <3>3 DEF HubEnd
      <4>2. sock[c] = "free" => toClient'[c] = <<>>
        BY <2>3, <3>1, <3>3 DEF ClientEnd
      <4> QED BY <1>1, <1>2, <1>5, <2>5, <3>3, <4>1, <4>2 DEF HubEnd, ClientEnd
    <3> QED BY <3>2, <3>3
  <2> QED BY <1>3, <2>4, <2>6, <2>7 DEF Types
<1> QED BY <1>7, <1>8

\* The hub lets a connection or a device go, or goes itself; a connection
\* breaks.
LEMMA TypesLoss ==
  ASSUME Types,
         \/ Restart \/ (\E c \in Conn : Unregister(c) \/ ConnectionLost(c))
         \/ \E d \in Dev : RevokeDevice(d)
  PROVE  Types'
<1>1. UNCHANGED <<log, refused, issued, clientVars>>
      /\ UNCHANGED <<client, outbox, promise, sock, header, app>>
  BY DEF Restart, Unregister, ConnectionLost, RevokeDevice, hubVars, clientVars
<1>2. /\ toHub \in [Conn -> Seq(Frames(issued))]
      /\ toClient \in [Conn -> Seq(Replies(session, Len(log)))]
      /\ link \in [Conn -> {"up", "shut", "down"}]
      /\ server \in [Conn -> issued \cup {None}]
      /\ session \in Nat /\ Len(log) \in Nat
  BY Bounds DEF Types, WireTypes, HubTypes
<1>3. Fault = {"restart", "drop", "revoke", "gap"} /\ HubTypes
  BY DEF Fault, Types
<1>4. ASSUME NEW c \in Conn, Unregister(c) PROVE Types'
  <2>1. /\ server' = [server EXCEPT ![c] = None] /\ link[c] # "up" /\ toHub[c] = <<>>
        /\ UNCHANGED <<session, applied, valid, busy, early, cut, link, toHub, toClient, spent>>
    BY <1>4 DEF Unregister, netVars
  <2>2. HubTypes'
    BY <1>1, <1>2, <2>1 DEF Types, HubTypes
  <2>3. WireTypes' /\ ClientTypes'
    BY <1>1, <2>1 DEF Types, WireTypes, ClientTypes
  <2>4. ASSUME NEW d \in Conn PROVE HubEnd(d)' /\ ClientEnd(d)'
    <3>1. HubEnd(d) /\ ClientEnd(d)
      BY DEF Types
    <3>2. CASE d = c
      <4>1. server'[c] = None
        BY <1>2, <2>1
      <4>2. DOMAIN toHub[c] = {}
        BY <2>1
      <4> QED BY <1>1, <2>1, <3>1, <3>2, <4>1, <4>2 DEF HubEnd, ClientEnd
    <3>3. CASE d # c
      <4>1. server'[d] = server[d]
        BY <1>2, <2>1, <3>3
      <4> QED BY <1>1, <2>1, <4>1, EndsSame
    <3> QED BY <3>2, <3>3
  <2> QED BY <2>2, <2>3, <2>4 DEF Types
<1>5. ASSUME NEW c \in Conn, ConnectionLost(c) PROVE Types'
  <2>1. /\ UNCHANGED <<hubVars, session, applied, valid, server, busy, early, cut>>
        /\ Happens("drop") /\ sock[c] # "free"
        /\ link' = [link EXCEPT ![c] = "down"]
        /\ toClient' = [toClient EXCEPT ![c] = <<>>]
    BY <1>5 DEF ConnectionLost, hubVars
  <2>3. toHub[c] \in Seq(Frames(issued))
    BY <1>2
  <2>2. PICK n \in 0 .. Len(toHub[c]) :
          toHub' = [toHub EXCEPT ![c] = SubSeq(toHub[c], 1, n)] /\ (busy[c] => n # 0)
    <3>1. PICK k \in (IF busy[c] THEN 1 ELSE 0) .. Len(toHub[c]) :
            toHub' = [toHub EXCEPT ![c] = SubSeq(toHub[c], 1, k)]
      BY <1>5 DEF ConnectionLost
    <3>2. k \in 0 .. Len(toHub[c]) /\ (busy[c] => k # 0)
      BY <2>3, <3>1
    <3> QED BY <3>1, <3>2
  <2> DEFINE part == SubSeq(toHub[c], 1, n)
  <2>4. /\ part \in Seq(Frames(issued))
        /\ \A i \in DOMAIN part : i \in DOMAIN toHub[c] /\ part[i] = toHub[c][i]
        /\ toHub[c] = <<>> => part = <<>>
        /\ busy[c] => part # <<>>
    <3>1. /\ part \in Seq(Frames(issued)) /\ DOMAIN part = 1 .. n
          /\ \A i \in 1 .. n : i \in DOMAIN toHub[c] /\ part[i] = toHub[c][i]
      BY <2>3, PrefixFacts
    <3>2. toHub[c] = <<>> => part = <<>>
      <4> HAVE toHub[c] = <<>>
      <4>1. n = 0
        OBVIOUS
      <4> QED BY <2>3, <4>1
    <3>3. busy[c] => part # <<>>
      <4> HAVE busy[c]
      <4>1. 1 \in 1 .. n
        BY <2>2, <2>3
      <4> QED BY <3>1, <4>1
    <3> QED BY <3>1, <3>2, <3>3
  <2>5. toHub' = [toHub EXCEPT ![c] = part]
    BY <2>2
  <2> HIDE DEF part
  <2>6. HubTypes'
    <3>1. spent' \in [Fault -> 0 .. MaxEach] /\ spent'["restart"] = spent["restart"]
      BY <1>3, <2>1, HappensFacts
    <3> QED BY <1>1, <2>1, <3>1 DEF Types, HubTypes
  <2>7. WireTypes'
    <3>1. <<>> \in Seq(Replies(session, Len(log)))
      OBVIOUS
    <3> QED BY <1>1, <1>2, <2>1, <2>4, <2>5, <3>1 DEF WireTypes
  <2>8. ClientTypes'
    BY <1>1, <2>1 DEF Types, ClientTypes
  <2>9. ASSUME NEW d \in Conn PROVE HubEnd(d)' /\ ClientEnd(d)'
    <3>1. CASE d # c
      <4>1. toHub'[d] = toHub[d] /\ link'[d] = link[d] /\ toClient'[d] = toClient[d]
        BY <1>2, <2>1, <2>5, <3>1
      <4> QED BY <1>1, <2>1, <4>1, EndsSame
    <3>2. CASE d = c
      <4>1. toHub'[c] = part /\ link'[c] = "down"
        BY <1>2, <2>1, <2>5
      <4>2. HubEnd(c)
        BY DEF Types
      <4> QED BY <1>1, <2>1, <2>4, <3>2, <4>1, <4>2 DEF HubEnd, ClientEnd
    <3> QED BY <3>1, <3>2
  <2> QED BY <2>6, <2>7, <2>8, <2>9 DEF Types
<1>6. ASSUME NEW d \in Dev, RevokeDevice(d) PROVE Types'
  <2>1. /\ valid' = valid \ {d} /\ Happens("revoke")
        /\ UNCHANGED <<session, applied, server, busy, early, cut, link, toHub, toClient>>
    BY <1>6 DEF RevokeDevice, netVars
  <2>2. HubTypes'
    <3>1. spent' \in [Fault -> 0 .. MaxEach] /\ spent'["restart"] = spent["restart"]
      BY <1>3, <2>1, HappensFacts
    <3> QED BY <1>1, <2>1, <3>1 DEF Types, HubTypes
  <2>3. WireTypes' /\ ClientTypes'
    BY <1>1, <2>1 DEF Types, WireTypes, ClientTypes
  <2>4. \A c \in Conn : HubEnd(c)' /\ ClientEnd(c)'
    BY <1>1, <2>1, EndsSame
  <2> QED BY <2>2, <2>3, <2>4 DEF Types
<1>7. CASE Restart
  <2>1. /\ Happens("restart") /\ session' = session + 1 /\ applied' = {}
        /\ server' = [c \in Conn |-> None]
        /\ link' = [c \in Conn |-> IF link[c] = "up" THEN "shut" ELSE link[c]]
        /\ toHub' = [c \in Conn |-> <<>>]
        /\ toClient' \in {toClient, [c \in Conn |-> <<>>]}
        /\ UNCHANGED <<valid, early>> /\ busy' = [c \in Conn |-> FALSE]
    BY <1>7 DEF Restart
  <2>8. cut' \in SUBSET (issued \X Cmd)
    <3>1. cut' = cut \cup {At(c) : c \in {d \in Conn : busy[d]}}
      BY <1>7 DEF Restart
    <3>2. \A c \in {d \in Conn : busy[d]} : At(c) \in issued \X Cmd
      BY CommandFacts
    <3> QED BY <3>1, <3>2 DEF Types, HubTypes
  <2>2. spent' \in [Fault -> 0 .. MaxEach] /\ spent'["restart"] = spent["restart"] + 1
    BY <1>3, <2>1, HappensFacts
  <2>3. HubTypes'
    <3>1. /\ log \in Seq(Entries(issued, session + 1))
          /\ early \in SUBSET Entries(issued, session + 1)
      BY <1>2, EntriesGrow DEF Types, HubTypes
    <3>2. spent["restart"] \in Nat /\ session = spent["restart"] + 1
      BY <1>3, DeliveryAssumption DEF HubTypes
    <3> QED BY <1>1, <2>1, <2>2, <2>8, <3>1, <3>2 DEF Types, HubTypes
  <2>4. toClient' \in [Conn -> Seq(Replies(session + 1, Len(log)))]
    <3>1. <<>> \in Seq(Replies(session + 1, Len(log)))
      OBVIOUS
    <3>2. CASE toClient' = toClient
      BY <1>2, <3>2, RepliesGrow
    <3>3. CASE toClient' = [c \in Conn |-> <<>>]
      BY <3>1, <3>3
    <3> QED BY <2>1, <3>2, <3>3
  <2>5. WireTypes'
    <3>1. <<>> \in Seq(Frames(issued))
      OBVIOUS
    <3>2. toHub' \in [Conn -> Seq(Frames(issued))]
      BY <2>1, <3>1
    <3>3. link' \in [Conn -> {"up", "shut", "down"}]
      BY <1>2, <2>1
    <3> QED BY <1>1, <2>1, <2>4, <3>2, <3>3 DEF WireTypes
  <2>6. ClientTypes'
    <3>1. Clients(issued, session) \subseteq Clients(issued, session + 1)
      BY <1>2, ClientsGrow
    <3> QED BY <1>1, <2>1, <3>1 DEF Types, ClientTypes
  <2>7. ASSUME NEW c \in Conn PROVE HubEnd(c)' /\ ClientEnd(c)'
    <3>1. /\ toHub'[c] = <<>> /\ server'[c] = None /\ link'[c] # "up" /\ ~busy'[c]
          /\ toClient'[c] \in {toClient[c], <<>>}
      BY <2>1
    <3>2. DOMAIN toHub'[c] = {}
      BY <3>1
    <3>3. ClientEnd(c)
      BY DEF Types
    <3> QED BY <1>1, <3>1, <3>2, <3>3 DEF HubEnd, ClientEnd
  <2> QED BY <2>3, <2>5, <2>6, <2>7 DEF Types
<1> QED BY <1>4, <1>5, <1>6, <1>7

\* The actions, one by one.
LEMMA Steps ==
  ASSUME Next
  PROVE  \/ \E x \in Cmd : SendCommand(x)
         \/ \E c \in Conn :
              \/ HandleConnection(c) \/ RecordKey(c) \/ AckReplay(c) \/ Execute(c)
              \/ Refuse(c) \/ Unregister(c) \/ OnOpen(c) \/ OnClose(c) \/ OnSnapshot(c) \/ OnTip(c)
              \/ OnAck(c) \/ OnError(c) \/ OnTerminal(c) \/ ReconnectTimer(c)
              \/ ConnectCalled(c) \/ OnGap(c) \/ ConnectionLost(c)
              \/ \E d \in Dev : PairSucceeds(d, c)
         \/ PairStarts \/ PairFails \/ Forget \/ Restart
         \/ \E d \in Dev : RevokeDevice(d)
BY DEF Next, HubStep, ClientStep

\* Every step keeps the types.
LEMMA TypesStep == Types /\ [Next]_vars => Types'
<1> SUFFICES ASSUME Types, [Next]_vars PROVE Types'
  OBVIOUS
<1>1. CASE UNCHANGED vars
  <2>1. /\ UNCHANGED <<session, log, applied, refused, issued, valid, server, busy, early, cut>>
        /\ UNCHANGED <<link, toHub, toClient, client, outbox, promise, sock, header, app, spent>>
    BY <1>1 DEF vars, hubVars, netVars, clientVars
  <2> QED BY <2>1 DEF Types, HubTypes, WireTypes, ClientTypes, HubEnd, ClientEnd
<1>2. CASE Next
  BY <1>2, Steps, TypesSendCommand, TypesHandleConnection, TypesRecordKey, TypesCommand,
     TypesLoss, TypesClient, TypesReply, TypesRelease, TypesSockets
<1> QED BY <1>1, <1>2

\* The invariant of the types has what the runs check.
LEMMA TypesImply == Types => TypeOK
<1> SUFFICES ASSUME Types PROVE TypeOK
  OBVIOUS
<1>1. session \in 1 .. MaxEach + 1 /\ session \in Nat /\ Len(log) \in Nat
  BY Bounds DEF Types
<1>2. Entries(issued, session) = [session : 1 .. session, dev : issued, cmd : Cmd]
  BY DEF Entries
<1>3. Frames(issued) \subseteq Frame
  BY DEF Frames, Frame, Types, HubTypes
<1>4. Replies(session, Len(log)) \subseteq Reply
  <2>1. 1 .. session \subseteq 1 .. MaxEach + 1
    BY <1>1, DeliveryAssumption
  <2> QED BY <2>1, Zenon DEF Replies, Reply
<1>5. \A A, B : A \subseteq B => \A q \in Seq(A) : q \in Seq(B)
  OBVIOUS
<1>6. toHub \in [Conn -> Seq(Frame)] /\ toClient \in [Conn -> Seq(Reply)]
  BY <1>3, <1>4, <1>5 DEF Types, WireTypes
<1>7. \A x \in Cmd : promise[x].seq \in 0 .. Len(log)
  BY DEF Types, ClientTypes, Promises
<1> QED
  BY <1>1, <1>2, <1>6, <1>7 DEF TypeOK, Types, HubTypes, WireTypes, ClientTypes, Clients

\* Every variable always has its type, of which the bound of the outbox is a part.
THEOREM TypeCorrect == Spec => []TypeOK
<1>1. Spec => []Types
  BY TypesInit, TypesStep, PTL DEF Spec
<1> QED BY <1>1, TypesImply, PTL

-----------------------------------------------------------------------------
(* What the steps of the hub do to its keys and its replies *)

\* Replies have been sent on a connection, behind those under way.
Sent(c) ==
  \A d \in Conn :
    /\ DOMAIN toClient[d] \subseteq DOMAIN toClient'[d]
    /\ \A i \in DOMAIN toClient[d] : toClient'[d][i] = toClient[d][i]
    /\ \A i \in DOMAIN toClient'[d] : i \notin DOMAIN toClient[d] => d = c /\ link[d] = "up"

\* A command has been read from a connection.
ReadOne(c) ==
  /\ \A d \in Conn : d # c => toHub'[d] = toHub[d]
  /\ \A i \in DOMAIN toHub'[c] :
       i \in Nat \ {0} /\ i + 1 \in DOMAIN toHub[c] /\ toHub'[c][i] = toHub[c][i + 1]

New(c, i) == i \in DOMAIN toClient'[c] /\ i \notin DOMAIN toClient[c]

\* What the hub makes of a command: it replays an ack, or executes, or refuses.
LEMMA CommandEffects ==
  ASSUME Types, NEW c \in Conn, AckReplay(c) \/ Execute(c) \/ Refuse(c)
  PROVE  LET x == toHub[c][1].cmd
             key == <<server[c], x>>
         IN  /\ x \in Cmd /\ server[c] \in issued /\ toHub[c][1].type = "command"
             /\ 1 \in DOMAIN toHub[c]
             /\ Sent(c) /\ ReadOne(c) /\ applied' = applied
             /\ \/ /\ key \in applied /\ ~busy[c]
                   /\ UNCHANGED <<log, refused>>
                   /\ \A i : New(c, i) => toClient'[c][i] = Ack(x, 0)
                \/ /\ busy[c] /\ refused' = refused
                   /\ log' = Append(log, [session |-> session, dev |-> server[c], cmd |-> x])
                   /\ \A i : New(c, i) => toClient'[c][i] \in {Ack(x, Len(log) + 1), Error(x)}
                \/ /\ busy[c] /\ refused' = refused \cup {key}
                   /\ log' = log
                   /\ \A i : New(c, i) => toClient'[c][i] = Error(x)
<1> DEFINE x == toHub[c][1].cmd
<1>1. (NextCommand(c) \/ busy[c]) /\ Read(c)
  BY DEF AckReplay, Execute, Refuse
<1>2. /\ x \in Cmd /\ server[c] \in issued /\ toHub[c] # <<>>
      /\ Head(toHub[c]) = toHub[c][1] /\ toHub[c][1].type = "command"
      /\ 1 \in DOMAIN toHub[c]
      /\ At(c) = <<server[c], x>>
      /\ Entry(c) = [session |-> session, dev |-> server[c], cmd |-> x]
  BY <1>1, CommandFacts
<1>3. ReadOne(c)
  BY <1>1, <1>2, ReadFacts DEF ReadOne, Types, WireTypes
<1>4. /\ toClient \in [Conn -> Seq(Replies(session, Len(log)))]
      /\ session \in Nat /\ Len(log) \in Nat
  BY Bounds DEF Types, WireTypes
<1> DEFINE R == Replies(session, Len(log) + 1)
<1>5. Replies(session, Len(log)) \subseteq R
  BY <1>4, RepliesInclude
<1>6. Ack(x, 0) \in R /\ Ack(x, Len(log) + 1) \in R /\ Error(x) \in R
  BY <1>2, <1>4, RepliesMade
<1> HIDE DEF R, x
<1>7. ASSUME NEW frames \in Seq(R), Send(c, frames)
      PROVE  /\ Sent(c)
             /\ \A i : New(c, i) => \E j \in DOMAIN frames : toClient'[c][i] = frames[j]
  <2>1. \A d \in Conn :
          /\ DOMAIN toClient[d] \subseteq DOMAIN toClient'[d]
          /\ \A i \in DOMAIN toClient[d] : toClient'[d][i] = toClient[d][i]
          /\ \A i \in DOMAIN toClient'[d] : i \notin DOMAIN toClient[d] =>
               /\ d = c /\ link[d] = "up"
               /\ i - Len(toClient[d]) \in DOMAIN frames
               /\ toClient'[d][i] = frames[i - Len(toClient[d])]
    BY <1>4, <1>5, <1>7, SendFacts
  <2> QED BY <2>1 DEF Sent, New
<1>8. CASE AckReplay(c)
  <2>1. /\ <<server[c], x>> \in applied /\ ~busy[c] /\ Send(c, <<Ack(x, 0)>>)
        /\ UNCHANGED <<log, applied, refused>>
    BY <1>2, <1>8 DEF AckReplay, Seen, NextCommand, x
  <2>2. /\ <<Ack(x, 0)>> \in Seq(R) /\ DOMAIN <<Ack(x, 0)>> = {1}
        /\ <<Ack(x, 0)>>[1] = Ack(x, 0)
    BY <1>6, ShortFacts
  <2>3. Sent(c) /\ \A i : New(c, i) => toClient'[c][i] = Ack(x, 0)
    <3> DEFINE frames == <<Ack(x, 0)>>
    <3>1. frames \in Seq(R) /\ \A j \in DOMAIN frames : frames[j] = Ack(x, 0)
      BY <2>2
    <3>2. Send(c, frames)
      BY <2>1
    <3> HIDE DEF frames
    <3> QED BY <1>7, <3>1, <3>2
  <2> QED BY <1>2, <1>3, <2>1, <2>3 DEF x
<1>9. CASE Refuse(c)
  <2>1. /\ busy[c] /\ Send(c, <<Error(x)>>) /\ UNCHANGED <<log, applied>>
        /\ refused' = refused \cup {<<server[c], x>>}
    BY <1>2, <1>9 DEF Refuse, RefusalReply, x
  <2>2. <<Error(x)>> \in Seq(R) /\ DOMAIN <<Error(x)>> = {1} /\ <<Error(x)>>[1] = Error(x)
    BY <1>6, ShortFacts
  <2>3. Sent(c) /\ \A i : New(c, i) => toClient'[c][i] = Error(x)
    <3> DEFINE frames == <<Error(x)>>
    <3>1. frames \in Seq(R) /\ \A j \in DOMAIN frames : frames[j] = Error(x)
      BY <2>2
    <3>2. Send(c, frames)
      BY <2>1
    <3> HIDE DEF frames
    <3> QED BY <1>7, <3>1, <3>2
  <2> QED BY <1>2, <1>3, <2>1, <2>3 DEF x
<1>10. CASE Execute(c)
  <2>1. /\ busy[c] /\ UNCHANGED <<refused, applied>>
        /\ log' = Append(log, [session |-> session, dev |-> server[c], cmd |-> x])
    BY <1>2, <1>10 DEF Execute
  <2>2. PICK late \in {<<>>, <<Error(x)>>} : Send(c, <<Ack(x, Len(log) + 1)>> \o late)
    BY <1>2, <1>10 DEF Execute, x
  <2> DEFINE ack == <<Ack(x, Len(log) + 1)>>
             frames == ack \o late
  <2>3. /\ ack \in Seq(R) /\ \A j \in DOMAIN ack : ack[j] = Ack(x, Len(log) + 1)
    BY <1>6, ShortFacts
  <2>4. late \in Seq(R) /\ \A j \in DOMAIN late : late[j] = Error(x)
    <3>1. CASE late = <<>>
      BY <3>1, ShortFacts
    <3>2. CASE late = <<Error(x)>>
      BY <1>6, <3>2, ShortFacts
    <3> QED BY <3>1, <3>2
  <2>5. Send(c, frames)
    BY <2>2
  <2> HIDE DEF ack
  <2>6. /\ frames \in Seq(R)
        /\ \A j \in DOMAIN ack : frames[j] = ack[j]
        /\ \A j \in DOMAIN frames : j \notin DOMAIN ack =>
             j - Len(ack) \in DOMAIN late /\ frames[j] = late[j - Len(ack)]
    BY <2>3, <2>4, ConcatFacts
  <2> HIDE DEF frames
  <2>7. \A j \in DOMAIN frames : frames[j] \in {Ack(x, Len(log) + 1), Error(x)}
    BY <2>3, <2>4, <2>6
  <2>8. Sent(c) /\ \A i : New(c, i) => toClient'[c][i] \in {Ack(x, Len(log) + 1), Error(x)}
    BY <1>7, <2>5, <2>6, <2>7
  <2> QED BY <1>2, <1>3, <2>1, <2>8 DEF x
<1> QED BY <1>8, <1>9, <1>10

\* Replies that are under way after a step were so before it.
OldReplies ==
  \A d \in Conn : \A i \in DOMAIN toClient'[d] :
    \E j \in DOMAIN toClient[d] : toClient'[d][i] = toClient[d][j]

\* The steps that neither reply nor execute.
Quiet ==
  \/ \E x \in Cmd : SendCommand(x)
  \/ \E c \in Conn :
       \/ Unregister(c) \/ OnOpen(c) \/ OnClose(c) \/ OnSnapshot(c) \/ OnTip(c)
       \/ OnAck(c) \/ OnError(c) \/ OnTerminal(c) \/ ReconnectTimer(c)
       \/ ConnectCalled(c) \/ OnGap(c) \/ ConnectionLost(c)
       \/ \E d \in Dev : PairSucceeds(d, c)
  \/ PairStarts \/ PairFails \/ Forget \/ Restart
  \/ \E d \in Dev : RevokeDevice(d)

\* The other steps but the first frame add neither entries, nor keys, nor replies.
LEMMA QuietEffects ==
  ASSUME Types, Quiet
  PROVE  /\ UNCHANGED <<log, refused>> /\ applied' \subseteq applied
         /\ OldReplies
<1>1. UNCHANGED <<log, refused>> /\ applied' \subseteq applied
  BY DEF Quiet, SendCommand, Unregister, OnOpen, OnClose, OnSnapshot, OnTip, OnAck, OnError,
         OnTerminal, ReconnectTimer, ConnectCalled, OnGap, ConnectionLost, PairSucceeds,
         PairStarts, PairFails, Forget, Restart, RevokeDevice, hubVars
<1>2. toClient \in [Conn -> Seq(Replies(session, Len(log)))]
  BY DEF Types, WireTypes
<1>3. ASSUME \A d \in Conn : toClient'[d] \in {toClient[d], <<>>}
      PROVE  OldReplies
  BY <1>3 DEF OldReplies
<1>4. ASSUME NEW c \in Conn, OnSnapshot(c) \/ OnTip(c) \/ OnAck(c) \/ OnError(c)
      PROVE  OldReplies
  <2>1. PICK type : Receives(c, type)
    BY <1>4 DEF OnSnapshot, OnTip, OnAck, OnError
  <2>2. Taken(c)
    BY <1>4 DEF OnSnapshot, OnTip, OnAck, OnError
  <2> QED BY <2>1, <2>2, ReceivesFacts DEF OldReplies
<1>5. ASSUME NEW c \in Conn, OnGap(c) \/ OnTerminal(c)
      PROVE  OldReplies
  <2> SUFFICES ASSUME NEW d \in Conn, NEW i \in DOMAIN toClient'[d]
               PROVE  \E j \in DOMAIN toClient[d] : toClient'[d][i] = toClient[d][j]
    BY DEF OldReplies
  <2>1. CASE d = client.socket
    BY <1>5, <2>1, ReleaseFacts
  <2>2. CASE d # client.socket /\ toClient'[d] = toClient[d]
    BY <2>2
  <2>3. CASE d # client.socket /\ toClient'[d] # toClient[d]
    <3>1. toClient[d] # <<>> /\ toClient'[d] = Tail(toClient[d])
      BY <1>5, <2>3, ReleaseFacts
    <3>2. toClient[d] \in Seq(Replies(session, Len(log)))
      BY <1>2
    <3>3. i \in DOMAIN Tail(toClient[d])
      BY <3>1
    <3> QED BY <3>1, <3>2, <3>3, TailFacts
  <2> QED BY <2>1, <2>2, <2>3
<1>6. ASSUME NEW c \in Conn, ConnectionLost(c) PROVE OldReplies
  <2>1. toClient' = [toClient EXCEPT ![c] = <<>>]
    BY <1>6 DEF ConnectionLost
  <2> QED BY <1>2, <1>3, <2>1
<1>7. CASE Restart
  <2>1. toClient' \in {toClient, [c \in Conn |-> <<>>]}
    BY <1>7 DEF Restart
  <2>2. \A d \in Conn : toClient'[d] \in {toClient[d], <<>>}
    BY <2>1
  <2> QED BY <1>1, <1>3, <2>2
<1>8. CASE \/ \E x \in Cmd : SendCommand(x)
           \/ \E c \in Conn :
                \/ Unregister(c) \/ OnOpen(c) \/ OnClose(c) \/ ReconnectTimer(c)
                \/ ConnectCalled(c) \/ \E d \in Dev : PairSucceeds(d, c)
           \/ PairStarts \/ PairFails \/ Forget
           \/ \E d \in Dev : RevokeDevice(d)
  <2>1. toClient' = toClient
    BY <1>8 DEF SendCommand, Unregister, OnOpen, OnClose, ReconnectTimer, ConnectCalled,
         PairSucceeds, PairStarts, PairFails, Forget, RevokeDevice, netVars
  <2>2. \A d \in Conn : toClient'[d] \in {toClient[d], <<>>}
    BY <2>1
  <2> QED BY <1>1, <1>3, <2>2
<1> QED BY <1>1, <1>4, <1>5, <1>6, <1>7, <1>8 DEF Quiet

\* What the hub makes of the first frame of a connection.
LEMMA HelloEffects ==
  ASSUME Types, NEW c \in Conn, HandleConnection(c)
  PROVE  /\ UNCHANGED <<log, applied, refused>>
         /\ Sent(c)
         /\ \/ /\ Admits(toHub[c][1]) /\ ReadOne(c) /\ link' = link
               /\ server' = [server EXCEPT ![c] = toHub[c][1].credential]
               /\ \A i : New(c, i) =>
                    \/ /\ toClient'[c][i].type = "snapshot"
                       /\ toClient'[c][i].session = session
                    \/ /\ toClient'[c][i].type = "tip"
                       /\ New(c, i - 1) /\ toClient'[c][i - 1].type = "snapshot"
            \/ /\ ~Admits(toHub[c][1]) /\ server' = server
               /\ toHub' = [toHub EXCEPT ![c] = <<>>]
               /\ link' = [link EXCEPT ![c] = IF link[c] = "up" THEN "shut" ELSE link[c]]
               /\ \A i : New(c, i) => toClient'[c][i].type = "terminal"
<1>1. /\ UNCHANGED <<session, log, applied, refused, issued, valid, busy, early, cut>>
      /\ UNCHANGED <<clientVars, spent>>
      /\ server[c] = None /\ toHub[c] # <<>>
  BY DEF HandleConnection
<1>2. Head(toHub[c]) = toHub[c][1]
  BY <1>1, HelloFacts
<1>3. /\ toClient \in [Conn -> Seq(Replies(session, Len(log)))]
      /\ session \in Nat /\ session \in 1 .. session /\ Len(log) \in Nat
  BY Bounds DEF Types, WireTypes
<1> DEFINE R == Replies(session, Len(log))
<1>4. /\ Snapshot(session, FALSE) \in R /\ Snapshot(session, TRUE) \in R
      /\ Tip \in R /\ Terminal \in R
      /\ \A b : Snapshot(session, b).type = "snapshot" /\ Snapshot(session, b).session = session
      /\ Tip.type = "tip" /\ Terminal.type = "terminal"
  BY <1>3, RepliesMade
<1>5. ASSUME NEW frames \in Seq(R), Send(c, frames)
      PROVE  /\ Sent(c)
             /\ \A i : New(c, i) =>
                  /\ i - Len(toClient[c]) \in DOMAIN frames
                  /\ toClient'[c][i] = frames[i - Len(toClient[c])]
  BY <1>3, <1>5, SendFacts DEF Sent, New
<1> HIDE DEF R
<1>7. CASE Admits(Head(toHub[c]))
  <2>1. /\ server' = [server EXCEPT ![c] = Head(toHub[c]).credential]
        /\ \/ \E behind \in BOOLEAN : Send(c, <<Snapshot(session, behind)>>)
           \/ Send(c, <<Snapshot(session, TRUE), Tip>>)
        /\ Read(c) /\ link' = link
    BY <1>7 DEF HandleConnection
  <2>2. ReadOne(c)
    BY <1>1, <2>1, ReadFacts DEF ReadOne, Types, WireTypes
  <2>3. Sent(c) /\ \A i : New(c, i) =>
                    \/ /\ toClient'[c][i].type = "snapshot"
                       /\ toClient'[c][i].session = session
                    \/ /\ toClient'[c][i].type = "tip"
                       /\ New(c, i - 1) /\ toClient'[c][i - 1].type = "snapshot"
    <3>1. ASSUME NEW behind \in BOOLEAN, Send(c, <<Snapshot(session, behind)>>)
          PROVE  Sent(c) /\ \A i : New(c, i) => /\ toClient'[c][i].type = "snapshot"
                                               /\ toClient'[c][i].session = session
      <4> DEFINE frames == <<Snapshot(session, behind)>>
      <4>1. frames \in Seq(R) /\ \A j \in DOMAIN frames : frames[j] = Snapshot(session, behind)
        <5>1. Snapshot(session, behind) \in R
          BY <1>4
        <5>2. /\ <<Snapshot(session, behind)>> \in Seq(R)
              /\ DOMAIN <<Snapshot(session, behind)>> = {1}
              /\ <<Snapshot(session, behind)>>[1] = Snapshot(session, behind)
          BY <5>1, ShortFacts
        <5> QED BY <5>2
      <4>2. Send(c, frames)
        BY <3>1
      <4> HIDE DEF frames
      <4>3. Sent(c) /\ \A i : New(c, i) => toClient'[c][i] = Snapshot(session, behind)
        BY <1>5, <4>1, <4>2
      <4> QED BY <1>4, <4>3
    <3>2. CASE Send(c, <<Snapshot(session, TRUE), Tip>>)
      <4> DEFINE frames == <<Snapshot(session, TRUE), Tip>>
                 n == Len(toClient[c])
      <4>1. /\ frames \in Seq(R) /\ DOMAIN frames = {1, 2}
            /\ frames[1] = Snapshot(session, TRUE) /\ frames[2] = Tip
        BY <1>4, ShortFacts
      <4>2. Send(c, frames)
        BY <3>2
      <4> HIDE DEF frames
      <4>3. n \in Nat /\ DOMAIN toClient[c] = 1 .. n
        BY <1>3
      <4>4. Sent(c) /\ \A i : New(c, i) =>
                         i - n \in {1, 2} /\ toClient'[c][i] = frames[i - n]
        BY <1>5, <4>1, <4>2
      <4>5. \E k \in Nat : DOMAIN toClient'[c] = 1 .. k
        <5>1. Replies(session, Len(log)) \subseteq Replies(session, Len(log))
          OBVIOUS
        <5>2. toClient'[c] \in Seq(R)
          BY <1>3, <4>1, <4>2, <5>1, SendFacts DEF R
        <5> QED BY <5>2
      <4>6. ASSUME NEW i, New(c, i)
            PROVE  \/ /\ toClient'[c][i].type = "snapshot"
                      /\ toClient'[c][i].session = session
                   \/ /\ toClient'[c][i].type = "tip"
                      /\ New(c, i - 1) /\ toClient'[c][i - 1].type = "snapshot"
        <5> HIDE DEF n
        <5>1. i \in Nat /\ i - n \in {1, 2} /\ toClient'[c][i] = frames[i - n]
          BY <4>4, <4>5, <4>6 DEF New
        <5>2. CASE i - n = 1
          BY <1>4, <4>1, <5>1, <5>2
        <5>3. CASE i - n = 2
          <6>1. New(c, i - 1) /\ (i - 1) - n = 1
            BY <4>3, <4>5, <4>6, <5>1, <5>3 DEF New
          <6>2. toClient'[c][i - 1] = frames[1] /\ toClient'[c][i] = frames[2]
            BY <4>4, <5>1, <5>3, <6>1
          <6> QED BY <1>4, <4>1, <6>1, <6>2
        <5> QED BY <5>1, <5>2, <5>3
      <4> QED BY <4>4, <4>6
    <3> QED BY <2>1, <3>1, <3>2
  <2> QED BY <1>1, <1>2, <1>7, <2>1, <2>2, <2>3
<1>8. CASE ~Admits(Head(toHub[c]))
  <2>1. /\ Send(c, <<Terminal>>) /\ server' = server
        /\ link' = [link EXCEPT ![c] = IF link[c] = "up" THEN "shut" ELSE link[c]]
        /\ toHub' = [toHub EXCEPT ![c] = <<>>]
    BY <1>8 DEF HandleConnection
  <2> DEFINE frames == <<Terminal>>
  <2>2. frames \in Seq(R) /\ \A j \in DOMAIN frames : frames[j] = Terminal
    BY <1>4, ShortFacts
  <2>3. Send(c, frames)
    BY <2>1
  <2> HIDE DEF frames
  <2>4. Sent(c) /\ \A i : New(c, i) => toClient'[c][i].type = "terminal"
    BY <1>4, <1>5, <2>2, <2>3
  <2> QED BY <1>1, <1>2, <1>8, <2>1, <2>4
<1> QED BY <1>7, <1>8

-----------------------------------------------------------------------------
(* The handlers, and what is remembered *)

\* A handler stays at its command until it executes or refuses it.
LEMMA HandlersMove ==
  ASSUME Types, [Next]_vars, ~Restart, NEW d \in Conn
  PROVE  /\ busy'[d] => (busy[d] \/ RecordKey(d)) /\ At(d)' = At(d) /\ Entry(d)' = Entry(d)
         /\ busy[d] => busy'[d] \/ Execute(d) \/ Refuse(d)
<1> DEFINE Stays == At(d)' = At(d) /\ Entry(d)' = Entry(d)
           Goal == /\ busy'[d] => (busy[d] \/ RecordKey(d)) /\ Stays
                   /\ busy[d] => busy'[d] \/ Execute(d) \/ Refuse(d)
<1> SUFFICES Goal
  OBVIOUS
<1>1. /\ toHub \in [Conn -> Seq(Frames(issued))] /\ toHub[d] \in Seq(Frames(issued))
      /\ busy \in [Conn -> BOOLEAN] /\ server \in [Conn -> issued \cup {None}]
      /\ busy[d] => server[d] # None /\ toHub[d] # <<>>
  BY DEF Types, WireTypes, HubTypes, HubEnd
<1>2. ASSUME busy[d] => /\ session' = session /\ server'[d] = server[d]
                       /\ Head(toHub'[d]) = Head(toHub[d]),
             busy'[d] = busy[d]
      PROVE  Goal
  BY <1>2 DEF At, Entry
<1>3. ASSUME NEW cl, cl.socket \in Conn \cup {None}, NEW box \in Seq(Cmd),
             toHub' \in {toHub, Flushed(cl, box)}, UNCHANGED <<session, server, busy>>
      PROVE  Goal
  <2>1. CASE toHub' = toHub
    BY <1>2, <1>3, <2>1
  <2>2. CASE toHub' = Flushed(cl, box)
    <3>1. /\ toHub' \in [Conn -> Seq(Frames(issued))]
          /\ DOMAIN toHub[d] \subseteq DOMAIN toHub'[d]
          /\ \A i \in DOMAIN toHub[d] : toHub'[d][i] = toHub[d][i]
      BY <1>1, <1>3, <2>2, FlushedFacts
    <3>2. busy[d] => Head(toHub'[d]) = Head(toHub[d])
      <4> HAVE busy[d]
      <4>1. 1 \in DOMAIN toHub[d] /\ Head(toHub[d]) = toHub[d][1]
        BY <1>1, TailFacts
      <4>2. toHub'[d] \in Seq(Frames(issued)) /\ 1 \in DOMAIN toHub'[d]
        BY <3>1, <4>1
      <4>3. Head(toHub'[d]) = toHub'[d][1]
        BY <4>2
      <4> QED BY <3>1, <4>1, <4>3
    <3> QED BY <1>2, <1>3, <3>2
  <2> QED BY <1>3, <2>1, <2>2
<1>4. client \in Clients(issued, session) /\ outbox \in Seq(Cmd)
  BY DEF Types, ClientTypes
<1>5. ASSUME NEW x \in Cmd, SendCommand(x) PROVE Goal
  <2>1. toHub' \in {toHub, Flushed(client, outbox')} /\ UNCHANGED <<session, server, busy>>
    BY <1>5 DEF SendCommand, hubVars
  <2>2. outbox' \in {outbox, Append(outbox, x)}
    BY <1>5 DEF SendCommand
  <2>3. outbox' \in Seq(Cmd) /\ client.socket \in Conn \cup {None}
    BY <1>4, <2>2, ClientFields DEF Typed
  <2> QED BY <1>3, <2>1, <2>3
<1>6. ASSUME NEW c \in Conn, OnSnapshot(c) \/ OnTip(c) PROVE Goal
  <2>1. toHub' \in {toHub, Flushed(client', outbox')} /\ UNCHANGED <<session, server, busy>>
    BY <1>6 DEF OnSnapshot, OnTip, hubVars
  <2>2. outbox' \in {outbox, <<>>} /\ Types'
    BY <1>6, TypesReply DEF OnSnapshot, OnTip
  <2>3. outbox' \in Seq(Cmd) /\ client'.socket \in Conn \cup {None}
    BY <2>2 DEF Types, ClientTypes, Clients
  <2> QED BY <1>3, <2>1, <2>3
<1>7. ASSUME NEW c \in Conn, OnOpen(c) PROVE Goal
  <2>1. sock[c] = "dialing" /\ UNCHANGED <<session, server, busy>>
    BY <1>7 DEF OnOpen, hubVars
  <2>2. d # c => toHub'[d] = toHub[d]
    BY <1>1, <1>7 DEF OnOpen
  <2>3. busy[d] => d # c
    BY <1>1, <2>1 DEF Types, HubEnd
  <2> QED BY <1>2, <2>1, <2>2, <2>3
<1>8. ASSUME NEW c \in Conn, ConnectionLost(c) PROVE Goal
  <2>1. UNCHANGED <<session, server, busy>>
    BY <1>8 DEF ConnectionLost, hubVars
  <2>2. PICK n \in (IF busy[c] THEN 1 ELSE 0) .. Len(toHub[c]) :
          toHub' = [toHub EXCEPT ![c] = SubSeq(toHub[c], 1, n)]
    BY <1>8 DEF ConnectionLost
  <2>3. busy[d] => Head(toHub'[d]) = Head(toHub[d])
    <3>1. CASE d # c
      BY <1>1, <2>2, <3>1
    <3>2. CASE d = c /\ busy[c]
      <4> DEFINE part == SubSeq(toHub[c], 1, n)
      <4>1. toHub'[c] = part /\ toHub[c] \in Seq(Frames(issued))
        BY <1>1, <2>2
      <4>2. n \in 1 .. Len(toHub[c]) /\ n \in 0 .. Len(toHub[c]) /\ 1 \in 1 .. n
        BY <2>2, <3>2, <4>1
      <4>3. part \in Seq(Frames(issued)) /\ DOMAIN part = 1 .. n /\ part[1] = toHub[c][1]
        BY <4>1, <4>2, PrefixFacts
      <4> HIDE DEF part
      <4>4. Head(part) = part[1] /\ Head(toHub[c]) = toHub[c][1]
        BY <4>1, <4>3
      <4> QED BY <3>2, <4>1, <4>3, <4>4
    <3> QED BY <3>1, <3>2
  <2> QED BY <1>2, <2>1, <2>3
<1>9. ASSUME NEW c \in Conn, HandleConnection(c) \/ Unregister(c) PROVE Goal
  <2>1. ~busy[c] /\ UNCHANGED <<session, busy>>
    BY <1>9 DEF HandleConnection, Unregister, Types, HubEnd
  <2>2. /\ server' = server \/ \E e : server' = [server EXCEPT ![c] = e]
        /\ \/ toHub' = toHub \/ toHub' = [toHub EXCEPT ![c] = Tail(@)]
           \/ toHub' = [toHub EXCEPT ![c] = <<>>]
    BY <1>9 DEF HandleConnection, Unregister, Read, netVars
  <2>3. d # c => server'[d] = server[d] /\ toHub'[d] = toHub[d]
    BY <1>1, <2>2
  <2> QED BY <1>2, <2>1, <2>3
<1>10. ASSUME NEW c \in Conn, AckReplay(c) \/ Execute(c) \/ Refuse(c) PROVE Goal
  <2>1. /\ UNCHANGED <<session, server>> /\ toHub' = [toHub EXCEPT ![c] = Tail(@)]
        /\ d # c => busy'[d] = busy[d]
        /\ ~busy'[c]
    BY <1>1, <1>10 DEF AckReplay, Execute, Refuse, NextCommand, Read
  <2>2. CASE d # c
    <3>1. toHub'[d] = toHub[d]
      BY <1>1, <2>1, <2>2
    <3> QED BY <1>2, <2>1, <2>2, <3>1
  <2>3. CASE d = c
    BY <1>10, <2>1, <2>3 DEF AckReplay, NextCommand
  <2> QED BY <2>2, <2>3
<1>11. ASSUME NEW c \in Conn, RecordKey(c) PROVE Goal
  <2>1. UNCHANGED <<session, server, toHub>> /\ busy' = [busy EXCEPT ![c] = TRUE]
    BY <1>11 DEF RecordKey, netVars
  <2>2. Stays /\ (d # c => busy'[d] = busy[d]) /\ busy'[c]
    BY <1>1, <2>1 DEF At, Entry
  <2> QED BY <1>11, <2>2
<1>12. CASE UNCHANGED <<session, server, busy, toHub>>
  BY <1>2, <1>12
<1> QED
  <2>1. CASE UNCHANGED vars
    BY <1>12, <2>1 DEF vars, hubVars, netVars
  <2>2. CASE Next
    <3>1. ASSUME NEW c \in Conn,
                 \/ OnClose(c) \/ OnAck(c) \/ OnError(c) \/ OnTerminal(c)
                 \/ ReconnectTimer(c) \/ ConnectCalled(c) \/ OnGap(c)
          PROVE  UNCHANGED <<session, server, busy, toHub>>
      BY <3>1 DEF OnClose, OnAck, OnError, OnTerminal, ReconnectTimer, ConnectCalled, OnGap,
                  hubVars, netVars
    <3>2. ASSUME NEW c \in Conn, NEW e \in Dev, PairSucceeds(e, c)
          PROVE  UNCHANGED <<session, server, busy, toHub>>
      BY <3>2 DEF PairSucceeds
    <3>3. ASSUME PairStarts \/ PairFails \/ Forget \/ \E e \in Dev : RevokeDevice(e)
          PROVE  UNCHANGED <<session, server, busy, toHub>>
      BY <3>3 DEF PairStarts, PairFails, Forget, RevokeDevice, hubVars, netVars
    <3> HIDE DEF Goal
    <3>4. ASSUME NEW c \in Conn,
                 \/ HandleConnection(c) \/ RecordKey(c) \/ AckReplay(c) \/ Execute(c)
                 \/ Refuse(c) \/ Unregister(c) \/ OnOpen(c) \/ OnClose(c) \/ OnSnapshot(c)
                 \/ OnTip(c) \/ OnAck(c) \/ OnError(c) \/ OnTerminal(c)
                 \/ ReconnectTimer(c) \/ ConnectCalled(c) \/ OnGap(c) \/ ConnectionLost(c)
                 \/ \E e \in Dev : PairSucceeds(e, c)
          PROVE  Goal
      BY <1>6, <1>7, <1>8, <1>9, <1>10, <1>11, <1>12, <3>1, <3>2, <3>4
    <3> QED BY <1>5, <1>12, <2>2, <3>3, <3>4, Steps
  <2> QED BY <2>1, <2>2

\* What happened stays remembered.
LEMMA HistoryGrows ==
  ASSUME [Next]_vars
  PROVE  refused \subseteq refused' /\ cut \subseteq cut' /\ early \subseteq early'
           /\ issued \subseteq issued'
<1>1. CASE UNCHANGED vars
  BY <1>1 DEF vars, hubVars
<1>2. ASSUME NEW c \in Conn,
             \/ HandleConnection(c) \/ RecordKey(c) \/ AckReplay(c) \/ Execute(c)
             \/ Refuse(c) \/ Unregister(c)
      PROVE  refused \subseteq refused' /\ cut \subseteq cut' /\ early \subseteq early'
               /\ issued \subseteq issued'
  BY <1>2 DEF HandleConnection, RecordKey, AckReplay, Execute, Refuse, Unregister
<1>3. ASSUME NEW c \in Conn, NEW d \in Dev, PairSucceeds(d, c)
      PROVE  UNCHANGED <<refused, cut, early>> /\ issued \subseteq issued'
  BY <1>3 DEF PairSucceeds
<1>4. CASE Restart
  BY <1>4 DEF Restart
<1>5. ASSUME NEW d \in Dev, RevokeDevice(d)
      PROVE  UNCHANGED <<refused, cut, early, issued>>
  BY <1>5 DEF RevokeDevice
<1>6. ASSUME \/ \E x \in Cmd : SendCommand(x)
             \/ \E c \in Conn :
                  \/ OnOpen(c) \/ OnClose(c) \/ OnSnapshot(c) \/ OnTip(c) \/ OnAck(c)
                  \/ OnError(c) \/ OnTerminal(c) \/ ReconnectTimer(c) \/ ConnectCalled(c)
                  \/ OnGap(c) \/ ConnectionLost(c)
             \/ PairStarts \/ PairFails \/ Forget
      PROVE  UNCHANGED <<refused, cut, early, issued>>
  BY <1>6 DEF SendCommand, OnOpen, OnClose, OnSnapshot, OnTip, OnAck, OnError, OnTerminal,
              ReconnectTimer, ConnectCalled, OnGap, ConnectionLost, PairStarts, PairFails,
              Forget, hubVars
<1> QED BY <1>1, <1>2, <1>3, <1>4, <1>5, <1>6, Steps

-----------------------------------------------------------------------------
(* What a resolved promise says is so *)

LogGrows == log' = log \/ \E e : log' = Append(log, e)

\* Entries stay where they are.
LEMMA GrowthFacts ==
  ASSUME Types, LogGrows
  PROVE  /\ Len(log) \in Nat /\ DOMAIN log = 1 .. Len(log)
         /\ Len(log') \in {Len(log), Len(log) + 1}
         /\ DOMAIN log' = 1 .. Len(log')
         /\ \A i \in DOMAIN log : i \in DOMAIN log' /\ log'[i] = log[i]
         /\ \A e : log' = Append(log, e) =>
              Len(log) + 1 \in DOMAIN log' /\ log'[Len(log) + 1] = e
<1>1. log \in Seq(Entries(issued, session)) /\ Len(log) \in Nat /\ DOMAIN log = 1 .. Len(log)
  BY DEF Types, HubTypes
<1>2. log' = log =>
        /\ Len(log') = Len(log) /\ DOMAIN log' = 1 .. Len(log)
        /\ \A i \in DOMAIN log : i \in DOMAIN log' /\ log'[i] = log[i]
  BY <1>1
<1>3. ASSUME NEW e, log' = Append(log, e)
      PROVE  /\ Len(log') = Len(log) + 1 /\ DOMAIN log' = 1 .. (Len(log) + 1)
             /\ \A i \in DOMAIN log : i \in DOMAIN log' /\ log'[i] = log[i]
             /\ Len(log) + 1 \in DOMAIN log' /\ log'[Len(log) + 1] = e
  <2>1. \A q \in Seq(Entries(issued, session)) : q \in Seq(Entries(issued, session) \cup {e})
    OBVIOUS
  <2>2. log \in Seq(Entries(issued, session) \cup {e}) /\ e \in Entries(issued, session) \cup {e}
    BY <1>1, <2>1
  <2>3. /\ Len(Append(log, e)) = Len(log) + 1
        /\ DOMAIN Append(log, e) = 1 .. (Len(log) + 1)
        /\ \A i \in DOMAIN log : Append(log, e)[i] = log[i]
        /\ Append(log, e)[Len(log) + 1] = e
    BY <2>2, AppendFacts
  <2>4. 1 .. Len(log) \subseteq 1 .. (Len(log) + 1) /\ Len(log) + 1 \in 1 .. (Len(log) + 1)
    BY <1>1
  <2> QED BY <1>1, <1>3, <2>3, <2>4
<1> QED BY <1>1, <1>2, <1>3 DEF LogGrows

\* Everything that has been done is done after the step.
Lasts == \A x : Done(x) => Done(x)'

\* What has been done stays done: the log and the histories only grow.
LEMMA DoneLasts == Types /\ [Next]_vars /\ LogGrows => Lasts
<1> SUFFICES ASSUME Types, [Next]_vars, LogGrows, NEW x, Done(x) PROVE Done(x)'
  BY DEF Lasts
<1>1. ASSUME NEW i \in DOMAIN log, log[i].cmd = x PROVE Done(x)'
  BY <1>1, GrowthFacts DEF Done
<1>2. ASSUME NEW d \in issued, <<d, x>> \in refused \cup cut PROVE Done(x)'
  BY <1>2, HistoryGrows DEF Done
<1>3. ASSUME NEW d \in issued, UnderWay(<<d, x>>) PROVE Done(x)'
  <2>1. PICK c \in Conn : busy[c] /\ At(c) = <<d, x>>
    BY <1>3 DEF UnderWay
  <2>2. d \in issued'
    BY HistoryGrows
  <2>3. /\ At(c) = <<server[c], toHub[c][1].cmd>>
        /\ Entry(c) = [session |-> session, dev |-> server[c], cmd |-> toHub[c][1].cmd]
    BY <2>1, CommandFacts
  <2>4. Entry(c).cmd = x
    BY <2>1, <2>3
  <2>5. CASE Restart
    <3>1. <<d, x>> \in cut'
      BY <2>1, <2>5 DEF Restart
    <3> QED BY <2>2, <3>1 DEF Done
  <2>6. CASE Execute(c)
    <3>1. log' = Append(log, Entry(c))
      BY <2>6 DEF Execute
    <3>2. Len(log) + 1 \in DOMAIN log' /\ log'[Len(log) + 1] = Entry(c)
      BY <3>1, GrowthFacts
    <3> QED BY <2>4, <3>2 DEF Done
  <2>7. CASE Refuse(c)
    <3>1. <<d, x>> \in refused'
      BY <2>1, <2>7 DEF Refuse
    <3> QED BY <2>2, <3>1 DEF Done
  <2>8. CASE ~Restart /\ busy'[c]
    <3>1. busy'[c] /\ At(c)' = <<d, x>>
      BY <2>1, <2>8, HandlersMove
    <3>2. UnderWay(<<d, x>>)'
      BY <3>1 DEF UnderWay
    <3> QED BY <2>2, <3>2 DEF Done
  <2> QED BY <2>1, <2>5, <2>6, <2>7, <2>8, HandlersMove
<1> QED BY <1>1, <1>2, <1>3 DEF Done

\* A true ack stays true,
LEMMA AckStaysTrue ==
  ASSUME Types, LogGrows, Lasts,
         NEW m \in Replies(session, Len(log)), AckIsTrue(m)
  PROVE  AckIsTrue(m)'
<1>1. m.type = "ack" => m.seq \in 0 .. Len(log)
  BY ReplyFacts
<1>2. CASE m.type = "ack" /\ m.seq > 0
  <2>1. m.seq \in DOMAIN log
    <3>1. Len(log) \in Nat /\ DOMAIN log = 1 .. Len(log)
      BY GrowthFacts
    <3> QED BY <1>1, <1>2, <3>1
  <2>2. log'[m.seq].cmd = log[m.seq].cmd
    BY <2>1, GrowthFacts
  <2> QED BY <1>2, <2>2 DEF AckIsTrue
<1>3. CASE m.type = "ack" /\ ~(m.seq > 0)
  <2>1. Done(m.cmd)'
    BY <1>3 DEF AckIsTrue, Lasts
  <2> QED BY <1>3, <2>1 DEF AckIsTrue
<1>4. CASE m.type # "ack"
  BY <1>4 DEF AckIsTrue
<1> QED BY <1>2, <1>3, <1>4

\* What a promise that is resolved says is true.
PromiseIsTrue(x) ==
  promise[x].state = "resolved" =>
    IF promise[x].seq > 0 THEN log[promise[x].seq].cmd = x ELSE Done(x)

\* The promises, one at a time.
LEMMA PromisesByOne == PromisesAreTrue <=> \A x \in Cmd : PromiseIsTrue(x)
BY DEF PromisesAreTrue, PromiseIsTrue, Done

\* and so does a promise.
LEMMA PromiseStaysTrue ==
  ASSUME Types, LogGrows, Lasts,
         NEW x \in Cmd, PromiseIsTrue(x), promise'[x] = promise[x]
  PROVE  PromiseIsTrue(x)'
<1>1. promise[x].seq \in 0 .. Len(log)
  BY DEF Types, ClientTypes, Promises
<1>2. CASE promise[x].seq > 0
  <2>1. promise[x].seq \in DOMAIN log
    <3>1. Len(log) \in Nat /\ DOMAIN log = 1 .. Len(log)
      BY GrowthFacts
    <3> QED BY <1>1, <1>2, <3>1
  <2>2. log'[promise[x].seq].cmd = log[promise[x].seq].cmd
    BY <2>1, GrowthFacts
  <2> QED BY <1>2, <2>2 DEF PromiseIsTrue
<1>3. CASE ~(promise[x].seq > 0)
  <2>1. Done(x) => Done(x)'
    BY DEF Lasts
  <2> QED BY <1>3, <2>1 DEF PromiseIsTrue
<1> QED BY <1>2, <1>3

\* The steps of the hub add keys and replies that are true.
LEMMA TruthOfHub ==
  ASSUME Types, Truth, [Next]_vars, NEW c \in Conn,
         HandleConnection(c) \/ RecordKey(c) \/ AckReplay(c) \/ Execute(c) \/ Refuse(c)
  PROVE  Truth'
<1>0. PICK x, key, entry :
        /\ x = toHub[c][1].cmd /\ key = <<server[c], x>>
        /\ entry = [session |-> session, dev |-> server[c], cmd |-> x]
  OBVIOUS
<1>1. promise' = promise
  BY DEF HandleConnection, RecordKey, AckReplay, Execute, Refuse, clientVars
<1>2. /\ Sent(c)
      /\ \A i : New(c, i) =>
           \/ toClient'[c][i].type # "ack"
           \/ x \in Cmd /\ toClient'[c][i] = Ack(x, 0) /\ key \in applied
           \/ x \in Cmd /\ toClient'[c][i] = Ack(x, Len(log) + 1) /\ log' = Append(log, entry)
      /\ log' = log \/ log' = Append(log, entry)
      /\ applied' = applied \/ RecordKey(c)
  <2>1. CASE HandleConnection(c)
    BY <2>1, HelloEffects
  <2>2. CASE AckReplay(c) \/ Execute(c) \/ Refuse(c)
    <3>1. \A y : Error(y).type = "error"
      BY DEF Error
    <3> QED BY <1>0, <2>2, <3>1, CommandEffects
  <2>3. CASE RecordKey(c)
    <3>1. UNCHANGED <<log, toClient>>
      BY <2>3 DEF RecordKey, netVars
    <3> QED BY <2>3, <3>1 DEF Sent, New
  <2> QED BY <2>1, <2>2, <2>3
<1>3. LogGrows /\ Lasts
  BY <1>2, DoneLasts DEF LogGrows
<1>7. key[2] = x /\ entry.cmd = x
  BY <1>0
<1>9. ASSUME log' = Append(log, entry)
      PROVE  Len(log) + 1 \in DOMAIN log' /\ log'[Len(log) + 1].cmd = x
  BY <1>3, <1>7, <1>9, GrowthFacts
<1>4. \A k \in applied' : Done(k[2])'
  <2>1. \A k \in applied : Done(k[2])'
    BY <1>3 DEF Truth, Lasts
  <2>2. CASE applied' = applied
    BY <2>1, <2>2
  <2>3. CASE RecordKey(c)
    <3>1. /\ At(c) = key /\ server[c] \in issued
          /\ applied' = applied \cup {key}
      BY <1>0, <2>3, CommandFacts DEF RecordKey
    <3>2. busy'[c] /\ At(c)' = key /\ issued' = issued
      BY <2>3, <3>1 DEF RecordKey, netVars, At, Types, HubTypes
    <3>3. UnderWay(key)'
      BY <3>2 DEF UnderWay
    <3>4. Done(x)'
      BY <1>0, <3>1, <3>2, <3>3 DEF Done
    <3> QED BY <1>7, <2>1, <3>1, <3>4
  <2> QED BY <1>2, <2>2, <2>3
<1>5. ASSUME NEW d \in Conn, NEW i \in DOMAIN toClient'[d] PROVE AckIsTrue(toClient[d][i])'
  <2>1. CASE i \in DOMAIN toClient[d]
    <3>1. toClient'[d][i] = toClient[d][i] /\ AckIsTrue(toClient[d][i])
      BY <1>2, <2>1 DEF Sent, Truth
    <3>2. toClient[d][i] \in Replies(session, Len(log))
      BY <2>1 DEF Types, WireTypes
    <3> DEFINE m == toClient[d][i]
    <3>3. \A r \in Replies(session, Len(log)) : AckIsTrue(r) => AckIsTrue(r)'
      BY <1>3, AckStaysTrue
    <3> QED BY <3>1, <3>2, <3>3 DEF AckIsTrue
  <2>2. CASE i \notin DOMAIN toClient[d]
    <3>1. d = c /\ New(c, i)
      BY <1>2, <2>2 DEF Sent, New
    <3>2. CASE toClient'[c][i].type # "ack"
      BY <3>1, <3>2 DEF AckIsTrue
    <3>3. CASE x \in Cmd /\ toClient'[c][i] = Ack(x, 0) /\ key \in applied
      <4>1. Done(x)'
        BY <1>3, <1>7, <3>3 DEF Truth, Lasts
      <4>2. Ack(x, 0).seq = 0 /\ Ack(x, 0).cmd = x
        BY DEF Ack
      <4> QED BY <3>1, <3>3, <4>1, <4>2 DEF AckIsTrue
    <3>4. CASE toClient'[c][i] = Ack(x, Len(log) + 1) /\ log' = Append(log, entry)
      <4>1. Ack(x, Len(log) + 1).seq = Len(log) + 1 /\ Ack(x, Len(log) + 1).cmd = x
        BY DEF Ack
      <4>2. log'[Len(log) + 1].cmd = x
        BY <1>9, <3>4
      <4>3. Len(log) + 1 > 0
        BY Bounds DEF Types
      <4> QED BY <3>1, <3>4, <4>1, <4>2, <4>3 DEF AckIsTrue
    <3> QED BY <1>2, <3>1, <3>2, <3>3, <3>4
  <2> QED BY <2>1, <2>2
<1>6. PromisesAreTrue'
  <2>1. \A y \in Cmd : PromiseIsTrue(y)'
    BY <1>1, <1>3, PromiseStaysTrue, PromisesByOne DEF Truth
  <2> QED BY <2>1 DEF PromisesAreTrue, PromiseIsTrue, Done
<1> QED BY <1>4, <1>5, <1>6 DEF Truth
\* A promise is resolved by the ack of its command.
LEMMA PromiseEffects ==
  ASSUME Types, Quiet, NEW y \in Cmd
  PROVE  \/ promise'[y] = promise[y]
         \/ promise'[y].state # "resolved"
         \/ \E c \in Conn :
              /\ 1 \in DOMAIN toClient[c] /\ toClient[c][1].type = "ack"
              /\ toClient[c][1].cmd = y /\ promise'[y] = Resolved(toClient[c][1].seq)
<1>1. promise \in [Cmd -> Promises(Len(log))]
  BY DEF Types, ClientTypes
<1>2. Rejected.state # "resolved" /\ Pending.state # "resolved"
  BY DEF Rejected, Pending
<1>3. ASSUME NEW x \in Cmd, SendCommand(x)
      PROVE  promise'[y] = promise[y] \/ promise'[y].state # "resolved"
  <2>1. PICK p \in {Rejected, Pending} : promise' = [promise EXCEPT ![x] = p]
    BY <1>3 DEF SendCommand
  <2> QED BY <1>1, <1>2, <2>1
<1>4. ASSUME NEW c \in Conn, OnAck(c)
      PROVE  \/ promise'[y] = promise[y]
             \/ /\ 1 \in DOMAIN toClient[c] /\ toClient[c][1].type = "ack"
                /\ toClient[c][1].cmd = y /\ promise'[y] = Resolved(toClient[c][1].seq)
  <2>1. /\ 1 \in DOMAIN toClient[c] /\ Head(toClient[c]) = toClient[c][1]
        /\ toClient[c][1] \in Replies(session, Len(log)) /\ toClient[c][1].type = "ack"
    BY <1>4, ReceivesFacts DEF OnAck
  <2>2. Settle(toClient[c][1].cmd, Resolved(toClient[c][1].seq))
    BY <1>4, <2>1 DEF OnAck
  <2>3. toClient[c][1].cmd \in Cmd /\ toClient[c][1].seq \in 0 .. Len(log)
    BY <2>1, ReplyFacts
  <2>4. Resolved(toClient[c][1].seq) \in Promises(Len(log))
    BY <2>3 DEF Resolved, Promises
  <2> QED BY <2>1, <2>2, <2>3, <2>4, SettleFacts
<1>5. ASSUME NEW c \in Conn, OnError(c)
      PROVE  promise'[y] = promise[y] \/ promise'[y].state # "resolved"
  <2>1. /\ Head(toClient[c]) = toClient[c][1]
        /\ toClient[c][1] \in Replies(session, Len(log)) /\ toClient[c][1].type = "error"
    BY <1>5, ReceivesFacts DEF OnError
  <2>2. Settle(toClient[c][1].cmd, Rejected)
    BY <1>5, <2>1 DEF OnError
  <2>3. toClient[c][1].cmd \in Cmd
    BY <2>1, ReplyFacts
  <2>4. Rejected \in Promises(Len(log))
    BY Bounds DEF Rejected, Promises, Types
  <2> QED BY <1>2, <2>2, <2>3, <2>4, SettleFacts
<1>6. CASE promise' = promise
  BY <1>6
<1> QED
  BY <1>3, <1>4, <1>5, <1>6
  DEF Quiet, Unregister, OnOpen, OnClose, OnSnapshot, OnTip, OnTerminal, ReconnectTimer,
      ConnectCalled, OnGap, ConnectionLost, PairSucceeds, PairStarts, PairFails, Forget,
      Restart, RevokeDevice, clientVars

\* The other steps add neither, and resolve a promise by what an ack says.
LEMMA TruthOfQuiet == Types /\ Truth /\ [Next]_vars /\ Quiet => Truth'
<1> SUFFICES ASSUME Types, Truth, [Next]_vars, Quiet PROVE Truth'
  OBVIOUS
<1>1. UNCHANGED <<log, refused>> /\ applied' \subseteq applied /\ OldReplies
  BY QuietEffects
<1>2. LogGrows /\ Lasts
  BY <1>1, DoneLasts DEF LogGrows
<1>3. \A k \in applied' : Done(k[2])'
  BY <1>1, <1>2 DEF Truth, Lasts
<1>4. \A m \in Replies(session, Len(log)) : AckIsTrue(m) => AckIsTrue(m)'
  BY <1>2, AckStaysTrue
<1>5. ASSUME NEW d \in Conn, NEW i \in DOMAIN toClient'[d] PROVE AckIsTrue(toClient[d][i])'
  <2>1. PICK j \in DOMAIN toClient[d] : toClient'[d][i] = toClient[d][j]
    BY <1>1 DEF OldReplies
  <2>2. PICK m : m = toClient[d][j]
    OBVIOUS
  <2>3. m \in Replies(session, Len(log)) /\ AckIsTrue(m)
    BY <2>2 DEF Types, WireTypes, Truth
  <2>4. AckIsTrue(m)' /\ toClient'[d][i] = m
    BY <1>4, <2>1, <2>2, <2>3
  <2> QED BY <2>4 DEF AckIsTrue
<1>6. ASSUME NEW y \in Cmd PROVE PromiseIsTrue(y)'
  <2>1. PromiseIsTrue(y)
    BY PromisesByOne DEF Truth
  <2>2. CASE promise'[y] = promise[y]
    BY <1>2, <2>1, <2>2, PromiseStaysTrue
  <2>3. CASE promise'[y].state # "resolved"
    BY <2>3 DEF PromiseIsTrue
  <2>4. ASSUME NEW c \in Conn, 1 \in DOMAIN toClient[c], toClient[c][1].type = "ack",
               toClient[c][1].cmd = y, promise'[y] = Resolved(toClient[c][1].seq)
        PROVE  PromiseIsTrue(y)'
    <3>1. PICK m : m = toClient[c][1]
      OBVIOUS
    <3>2. m \in Replies(session, Len(log)) /\ AckIsTrue(m)
      BY <2>4, <3>1 DEF Types, WireTypes, Truth
    <3>3. AckIsTrue(m)'
      BY <1>4, <3>2
    <3>4. promise'[y].seq = m.seq /\ m.cmd = y /\ m.type = "ack"
      BY <2>4, <3>1 DEF Resolved
    <3> QED BY <3>3, <3>4 DEF AckIsTrue, PromiseIsTrue
  <2> QED BY <2>2, <2>3, <2>4, PromiseEffects
<1>7. PromisesAreTrue'
  BY <1>6 DEF PromisesAreTrue, PromiseIsTrue, Done
<1> QED BY <1>3, <1>5, <1>7 DEF Truth

\* Nothing is promised at first.
LEMMA TruthInit == Init => Truth
BY DEF Init, Truth, PromisesAreTrue, Unsent, AckIsTrue, Done

\* Every step keeps acks and promises true.
LEMMA TruthStep == Types /\ Truth /\ [Next]_vars => Truth'
<1> SUFFICES ASSUME Types, Truth, [Next]_vars PROVE Truth'
  OBVIOUS
<1>1. CASE UNCHANGED vars
  <2>1. UNCHANGED <<log, applied, refused, cut, issued, busy, server, toHub, toClient, promise>>
    BY <1>1 DEF vars, hubVars, netVars, clientVars
  <2>2. \A x : Done(x)' <=> Done(x)
    BY <2>1 DEF Done, UnderWay, At
  <2> QED BY <2>1, <2>2 DEF Truth, PromisesAreTrue, AckIsTrue, Done
<1>2. CASE Quiet
  BY <1>2, TruthOfQuiet
<1>3. ASSUME NEW c \in Conn,
             HandleConnection(c) \/ RecordKey(c) \/ AckReplay(c) \/ Execute(c) \/ Refuse(c)
      PROVE  Truth'
  BY <1>3, TruthOfHub
<1> QED BY <1>1, <1>2, <1>3, Steps DEF Quiet

\* What a resolved promise tells its caller is so: the seq that the promise
\* carries is the place of its command in the log, and a replayed ack is for a
\* command that was executed or refused before, whose first attempt is under
\* way, or whose attempt died with the daemon.
THEOREM PromisesCorrect == Spec => []PromisesAreTrue
<1>1. Init => Types /\ Truth
  BY TypesInit, TruthInit
<1>2. Types /\ Truth /\ [Next]_vars => (Types /\ Truth)'
  BY TypesStep, TruthStep
<1>3. Types /\ Truth => PromisesAreTrue
  BY DEF Truth
<1> QED BY <1>1, <1>2, <1>3, PTL DEF Spec

-----------------------------------------------------------------------------
(* The outbox has the commands whose promises are pending *)

\* Its two parts, for any outbox and promises.
Distinct(box) == \A i, j \in DOMAIN box : box[i] = box[j] => i = j
Matches(box, p) ==
  /\ \A i \in DOMAIN box : p[box[i]] = Pending
  /\ session = 1 => \A x \in Cmd : p[x] = Pending => Contains(box, x)

\* The invariant of the outbox in its two parts.
LEMMA BoxParts ==
  /\ Box <=> Distinct(outbox) /\ Matches(outbox, promise)
  /\ (Distinct(outbox') /\ Matches(outbox', promise') /\ session' = session) => Box'
BY DEF Box, Distinct, Matches, OutboxMatchesPromises

\* A command enters the outbox as its promise is made.
LEMMA BoxSendCommand ==
  ASSUME Types, Box, NEW x \in Cmd, SendCommand(x)
  PROVE  Box'
<1>1. /\ outbox \in Seq(Cmd) /\ promise \in [Cmd -> Promises(Len(log))]
      /\ Distinct(outbox) /\ Matches(outbox, promise)
  BY BoxParts DEF Types, ClientTypes
<1>2. promise[x] = Unsent /\ session' = session
  BY DEF SendCommand, hubVars
<1>3. Unsent # Pending /\ Rejected # Pending
  BY DEF Unsent, Pending, Rejected
<1>4. CASE OutboxFull
  <2>1. promise' = [promise EXCEPT ![x] = Rejected] /\ outbox' = outbox
    BY <1>4 DEF SendCommand
  <2>2. \A i \in DOMAIN outbox : outbox[i] \in Cmd
    BY <1>1
  <2>3. \A y \in Cmd : promise'[y] = IF y = x THEN Rejected ELSE promise[y]
    BY <1>1, <2>1
  <2>4. Matches(outbox', promise')
    BY <1>1, <1>2, <1>3, <2>1, <2>2, <2>3 DEF Matches
  <2> QED BY <1>1, <1>2, <2>1, <2>4, BoxParts
<1>5. CASE ~OutboxFull
  <2>1. promise' = [promise EXCEPT ![x] = Pending] /\ outbox' = Append(outbox, x)
    BY <1>5 DEF SendCommand
  <2>2. /\ outbox' \in Seq(Cmd) /\ Len(outbox) \in Nat /\ DOMAIN outbox = 1 .. Len(outbox)
        /\ DOMAIN outbox' = 1 .. (Len(outbox) + 1) /\ Len(outbox') = Len(outbox) + 1
        /\ \A i \in DOMAIN outbox : outbox'[i] = outbox[i]
        /\ outbox'[Len(outbox) + 1] = x
    BY <1>1, <2>1, AppendFacts
  <2>3. \A y \in Cmd : promise'[y] = IF y = x THEN Pending ELSE promise[y]
    BY <1>1, <2>1
  <2>4. \A i \in DOMAIN outbox : outbox[i] \in Cmd /\ outbox[i] # x
    BY <1>1, <1>2, <1>3 DEF Matches
  <2>5. \A i \in DOMAIN outbox' : i \in DOMAIN outbox \/ i = Len(outbox) + 1
    BY <2>2
  <2>6. Distinct(outbox')
    <3> SUFFICES ASSUME NEW i \in DOMAIN outbox', NEW j \in DOMAIN outbox',
                        outbox'[i] = outbox'[j]
                 PROVE  i = j
      BY DEF Distinct
    <3>1. i \in DOMAIN outbox /\ j \in DOMAIN outbox => outbox[i] = outbox[j]
      BY <2>2
    <3> QED BY <1>1, <2>2, <2>4, <2>5, <3>1 DEF Distinct
  <2>7. \A i \in DOMAIN outbox' : promise'[outbox'[i]] = Pending
    BY <1>1, <2>2, <2>3, <2>4, <2>5 DEF Matches
  <2>8. ASSUME session = 1, NEW y \in Cmd, promise'[y] = Pending PROVE Contains(outbox', y)
    <3>1. CASE y = x
      BY <2>2, <3>1 DEF Contains
    <3>2. CASE y # x
      <4>1. Contains(outbox, y)
        BY <1>1, <2>3, <2>8, <3>2 DEF Matches
      <4>2. PICK i \in 1 .. Len(outbox) : outbox[i] = y
        BY <4>1 DEF Contains
      <4>3. i \in 1 .. Len(outbox') /\ outbox'[i] = y
        BY <2>2, <4>2
      <4> QED BY <4>3 DEF Contains
    <3> QED BY <3>1, <3>2
  <2>9. Matches(outbox', promise')
    BY <2>7, <2>8 DEF Matches
  <2> QED BY <1>2, <2>6, <2>9, BoxParts
<1> QED BY <1>4, <1>5

\* A command leaves the outbox as its promise is settled.
LEMMA BoxSettle ==
  ASSUME Types, Box, NEW x \in Cmd, NEW outcome \in Promises(Len(log)),
         outcome # Pending, Settle(x, outcome), session' = session
  PROVE  Box'
<1>1. /\ outbox \in Seq(Cmd) /\ Distinct(outbox) /\ Matches(outbox, promise)
  BY BoxParts DEF Types, ClientTypes
<1>2. CASE promise[x] # Pending
  <2>1. promise' = promise /\ outbox' = outbox
    BY <1>2 DEF Settle
  <2>2. Distinct(outbox') /\ Matches(outbox', promise')
    BY <1>1, <2>1
  <2> QED BY <2>2, BoxParts
<1>3. CASE promise[x] = Pending
  <2>1. /\ outbox' = Without(outbox, x)
        /\ \A y \in Cmd : promise'[y] = IF y = x THEN outcome ELSE promise[y]
    BY <1>3, SettleFacts
  <2>2. \A i, j \in DOMAIN outbox : outbox[i] = outbox[j] => i = j
    BY <1>1 DEF Distinct
  <2>3. /\ outbox' \in Seq(Cmd)
        /\ \A i \in DOMAIN outbox' : \E j \in DOMAIN outbox : outbox'[i] = outbox[j]
        /\ \A y : y # x /\ Contains(outbox, y) => Contains(outbox', y)
        /\ \A i \in DOMAIN outbox' : outbox'[i] # x
        /\ \A i, j \in DOMAIN outbox' : outbox'[i] = outbox'[j] => i = j
    BY <1>1, <2>1, <2>2, WithoutFacts
  <2>4. \A i \in DOMAIN outbox' : promise'[outbox'[i]] = Pending
    <3> TAKE i \in DOMAIN outbox'
    <3>1. PICK j \in DOMAIN outbox : outbox'[i] = outbox[j]
      BY <2>3
    <3>2. promise[outbox'[i]] = Pending /\ outbox'[i] \in Cmd /\ outbox'[i] # x
      BY <1>1, <2>3, <3>1 DEF Matches
    <3> QED BY <2>1, <3>2
  <2>5. Matches(outbox', promise')
    BY <1>1, <2>1, <2>3, <2>4 DEF Matches
  <2> QED BY <2>3, <2>5, BoxParts DEF Distinct
<1> QED BY <1>2, <1>3

\* A client of the only session there has been drops nothing.
LEMMA BoxSnapshot ==
  ASSUME Types, Box, NEW c \in Conn, OnSnapshot(c)
  PROVE  Box'
<1>1. Head(toClient[c]) \in Replies(session, Len(log)) /\ Head(toClient[c]).type = "snapshot"
  BY ReceivesFacts DEF OnSnapshot
<1>2. Head(toClient[c]).session \in 1 .. session
  BY <1>1, ReplyFacts
<1>3. client.session \in 0 .. session
  BY DEF Types, ClientTypes, Clients
<1>4. session = 1 => ~ForgetsOutbox(client, Head(toClient[c]).session)
  BY <1>2, <1>3 DEF ForgetsOutbox, NoSession
<1>5. /\ outbox' = IF ForgetsOutbox(client, Head(toClient[c]).session) THEN <<>> ELSE outbox
      /\ promise' = promise /\ session' = session
  BY DEF OnSnapshot, hubVars
<1>6. Distinct(outbox) /\ Matches(outbox, promise)
  BY BoxParts
<1>7. CASE outbox' = outbox
  BY <1>5, <1>6, <1>7, BoxParts
<1>8. CASE outbox' = <<>> /\ session # 1
  <2>1. Distinct(outbox') /\ Matches(outbox', promise')
    BY <1>8 DEF Distinct, Matches
  <2> QED BY <1>5, <2>1, BoxParts
<1> QED BY <1>4, <1>5, <1>7, <1>8

\* The outbox is empty at first.
LEMMA BoxInit == Init => Box
BY DEF Init, Box, OutboxMatchesPromises, Unsent, Pending

\* Every step keeps the outbox as the promises have it.
LEMMA BoxStep == Types /\ Box /\ [Next]_vars => Box'
<1> SUFFICES ASSUME Types, Box, [Next]_vars PROVE Box'
  OBVIOUS
<1>1. CASE UNCHANGED <<outbox, promise, session>>
  BY <1>1 DEF Box, OutboxMatchesPromises
<1>2. CASE Restart
  <2>1. outbox' = outbox /\ promise' = promise
    BY <1>2 DEF Restart, clientVars
  <2>2. session' # 1
    BY <1>2, Bounds DEF Restart, Types
  <2> QED BY <2>1, <2>2 DEF Box, OutboxMatchesPromises
<1>3. ASSUME NEW c \in Conn, OnAck(c) PROVE Box'
  <2>1. /\ Head(toClient[c]) = toClient[c][1] /\ toClient[c][1].type = "ack"
        /\ toClient[c][1] \in Replies(session, Len(log))
    BY <1>3, ReceivesFacts DEF OnAck
  <2>2. toClient[c][1].cmd \in Cmd /\ toClient[c][1].seq \in 0 .. Len(log)
    BY <2>1, ReplyFacts
  <2>3. /\ Settle(toClient[c][1].cmd, Resolved(toClient[c][1].seq)) /\ session' = session
    BY <1>3, <2>1 DEF OnAck, hubVars
  <2>4. /\ Resolved(toClient[c][1].seq) \in Promises(Len(log))
        /\ Resolved(toClient[c][1].seq) # Pending
    BY <2>2 DEF Resolved, Pending, Promises
  <2> QED BY <2>2, <2>3, <2>4, BoxSettle
<1>4. ASSUME NEW c \in Conn, OnError(c) PROVE Box'
  <2>1. /\ Head(toClient[c]) = toClient[c][1] /\ toClient[c][1].type = "error"
        /\ toClient[c][1] \in Replies(session, Len(log))
    BY <1>4, ReceivesFacts DEF OnError
  <2>2. toClient[c][1].cmd \in Cmd
    BY <2>1, ReplyFacts
  <2>3. /\ Settle(toClient[c][1].cmd, Rejected) /\ session' = session
    BY <1>4, <2>1 DEF OnError, hubVars
  <2>4. Rejected \in Promises(Len(log)) /\ Rejected # Pending
    BY Bounds DEF Rejected, Pending, Promises, Types
  <2> QED BY <2>2, <2>3, <2>4, BoxSettle
<1>5. CASE Next /\ ~UNCHANGED <<outbox, promise, session>>
  <2>1. \/ \E x \in Cmd : SendCommand(x)
        \/ \E c \in Conn : OnSnapshot(c) \/ OnAck(c) \/ OnError(c)
        \/ Restart
    BY <1>5, Steps
    DEF HandleConnection, RecordKey, AckReplay, Execute, Refuse, Unregister, OnOpen, OnClose,
        OnTip, OnTerminal, ReconnectTimer, ConnectCalled, OnGap, ConnectionLost, PairSucceeds,
        PairStarts, PairFails, Forget, RevokeDevice, hubVars, clientVars
  <2> QED BY <1>2, <1>3, <1>4, <2>1, BoxSendCommand, BoxSnapshot
<1>6. UNCHANGED vars => UNCHANGED <<outbox, promise, session>>
  BY DEF vars, hubVars, clientVars
<1> QED BY <1>1, <1>5, <1>6

\* What is in the outbox has a promise to settle, and in the daemon's first
\* session a promise that nothing will settle does not exist.
THEOREM OutboxCorrect == Spec => []OutboxMatchesPromises
<1>1. Init => Types /\ Box
  BY TypesInit, BoxInit
<1>2. Types /\ Box /\ [Next]_vars => (Types /\ Box)'
  BY TypesStep, BoxStep
<1>3. Types /\ Box => OutboxMatchesPromises
  BY DEF Box
<1> QED BY <1>1, <1>2, <1>3, PTL DEF Spec

-----------------------------------------------------------------------------
(* What the steps of the client make of it and of its sockets *)

\* An update that leaves who the client is and what it has seen of sockets.
Keeps ==
  /\ client'.identity = client.identity /\ client'.pairing = client.pairing
  /\ client'.again = client.again /\ client'.overlap = client.overlap

Freed(c) ==
  /\ sock'[c] = "free"
  /\ \A d \in Conn : d # c => sock'[d] = sock[d]

\* Every socket but the client's own stays as it is.
Released ==
  \A d \in Conn : sock'[d] = IF d = client.socket THEN "free" ELSE sock[d]

\* scheduleReconnect has been called, unless the user closed the client.
Retries ==
  /\ client'.closedByUser = client.closedByUser
  /\ client'.session = client.session
  /\ IF client.closedByUser THEN client'.phase = client.phase /\ client'.timer = client.timer
                            ELSE client'.phase = "reconnecting" /\ client'.timer = TRUE

\* A socket has been opened for the client as it is now.
Opened(c) ==
  /\ sock[c] = "free" /\ server[c] = None /\ toHub[c] = <<>> /\ toClient[c] = <<>>
  /\ sock'[c] = "dialing" /\ link'[c] = "up"
  /\ \A d \in Conn : d # c => UNCHANGED <<sock[d], header[d], link[d]>>
  /\ app = "mobile" => header'[c] = client'.identity
  /\ client'.phase \in {"connecting", "reconnecting"}
  /\ client'.timer = FALSE /\ client'.fullResync = FALSE /\ client'.socket = c
  /\ client'.session = IF client.fullResync THEN NoSession ELSE client.session
  /\ client'.overlap = (client.overlap \/ \E d \in Conn : sock[d] # "free")
  /\ client'.resynced = client.resynced
  /\ UNCHANGED <<session, log, applied, server, toHub, toClient, outbox, app, spent>>

\* openNormalSocket, whoever calls it.
LEMMA OpenedFacts ==
  ASSUME Types, NEW ids, issued \subseteq ids, NEW cl \in Clients(ids, session), NEW c \in Conn,
         OpenSocket(cl, c), cl.session = client.session, cl.fullResync = client.fullResync,
         cl.overlap = client.overlap, cl.resynced = client.resynced,
         UNCHANGED <<session, log, applied, server, toHub, toClient, outbox, app, spent>>
  PROVE  /\ Opened(c)
         /\ client'.identity = cl.identity /\ client'.closedByUser = cl.closedByUser
         /\ client'.pairing = cl.pairing /\ client'.again = cl.again
<1>1. /\ session \in Nat /\ sock \in [Conn -> {"free", "dialing", "open"}]
      /\ header \in [Conn -> issued \cup {None}] /\ link \in [Conn -> {"up", "shut", "down"}]
  BY Bounds DEF Types, ClientTypes, WireTypes
<1>2. /\ client'.phase \in {"connecting", "reconnecting"}
      /\ client'.identity = cl.identity
      /\ client'.session = IF cl.fullResync THEN NoSession ELSE cl.session
      /\ client'.fullResync = FALSE /\ client'.timer = FALSE
      /\ client'.closedByUser = cl.closedByUser
      /\ client'.pairing = cl.pairing /\ client'.again = cl.again
      /\ client'.overlap = (cl.overlap \/ \E d \in Conn : sock[d] # "free")
      /\ client'.socket = c /\ client'.resynced = cl.resynced
  <2>1. \A i, s : cl \in Clients(i, s) => Typed(cl, i, s)
    BY ClientFields
  <2>2. cl.overlap \in BOOLEAN
    BY <2>1 DEF Typed
  <2> DEFINE over == cl.overlap \/ \E d \in Conn : sock[d] # "free"
  <2>3. over \in BOOLEAN
    BY <2>2
  <2>4. client' = [cl EXCEPT !.phase = IF cl.session = NoSession THEN "connecting" ELSE "reconnecting",
                             !.session = IF cl.fullResync THEN NoSession ELSE cl.session,
                             !.fullResync = FALSE, !.timer = FALSE, !.socket = c,
                             !.overlap = over]
    BY DEF OpenSocket
  <2> HIDE DEF over
  <2>5. client'.overlap = over
    BY <2>4 DEF Clients
  <2> QED BY <2>4, <2>5 DEF Clients, over
<1>3. /\ sock[c] = "free" /\ server[c] = None /\ toHub[c] = <<>>
      /\ sock' = [sock EXCEPT ![c] = "dialing"] /\ link' = [link EXCEPT ![c] = "up"]
      /\ header' = [header EXCEPT ![c] = IF HeaderAuth THEN cl.identity ELSE None]
  BY DEF OpenSocket
<1>4. toClient[c] = <<>>
  BY <1>3 DEF Types, ClientEnd
<1>5. /\ sock'[c] = "dialing" /\ link'[c] = "up"
      /\ header'[c] = IF HeaderAuth THEN cl.identity ELSE None
      /\ \A d \in Conn : d # c => UNCHANGED <<sock[d], header[d], link[d]>>
  BY <1>1, <1>3
<1> QED BY <1>2, <1>3, <1>4, <1>5 DEF Opened, HeaderAuth

\* connect
LEMMA ConnectCalledFacts ==
  ASSUME Types, NEW c \in Conn, ConnectCalled(c)
  PROVE  /\ Opened(c) /\ UNCHANGED <<issued, valid>>
         /\ client'.identity = client.identity /\ client'.pairing = client.pairing
         /\ client'.again = FALSE /\ client'.closedByUser = FALSE
<1>1. client \in Clients(issued, session) /\ session \in Nat
  BY Bounds DEF Types, ClientTypes
<1> DEFINE told == [client EXCEPT !.again = FALSE]
           cl == Connected(told)
<1>2. /\ told \in Clients(issued, session)
      /\ told.again = FALSE /\ told.identity = client.identity /\ told.pairing = client.pairing
      /\ told.session = client.session /\ told.fullResync = client.fullResync
      /\ told.overlap = client.overlap /\ told.resynced = client.resynced
  <2>1. told \in Clients(issued, session)
    BY <1>1, ClientUpdates
  <2> QED BY <1>1, <2>1 DEF Clients
<1>3. OpenSocket(cl, c) /\ UNCHANGED <<hubVars, toHub, toClient, outbox, app, spent>>
  BY DEF ConnectCalled
<1> HIDE DEF told
<1>4. /\ cl \in Clients(issued, session) /\ cl.closedByUser = FALSE
      /\ cl.identity = told.identity /\ cl.pairing = told.pairing /\ cl.again = told.again
      /\ cl.session = told.session /\ cl.fullResync = told.fullResync
      /\ cl.overlap = told.overlap /\ cl.resynced = told.resynced
  <2>1. cl \in Clients(issued, session)
    BY <1>2, ConnectedFacts
  <2>2. told \in Clients(issued, session)
    BY <1>2
  <2> QED BY <2>1, <2>2 DEF Connected, Clients
<1> HIDE DEF cl
<1>5. UNCHANGED <<session, log, applied, server, toHub, toClient, outbox, app, spent, issued, valid>>
  BY <1>3 DEF hubVars
<1>6. issued \subseteq issued
  OBVIOUS
<1> QED BY <1>2, <1>3, <1>4, <1>5, <1>6, OpenedFacts

\* The timer fires: a client told to close opens nothing.
LEMMA ReconnectTimerFacts ==
  ASSUME Types, NEW c \in Conn, ReconnectTimer(c)
  PROVE  /\ client.timer /\ UNCHANGED <<issued, valid>>
         /\ client'.identity = client.identity /\ client'.pairing = client.pairing
         /\ client'.again = client.again /\ client'.closedByUser = client.closedByUser
         /\ IF client.closedByUser
            THEN /\ Keeps /\ client'.timer = FALSE /\ client'.phase = client.phase
                 /\ client'.socket = client.socket /\ client'.session = client.session
                 /\ client'.fullResync = client.fullResync
                 /\ client'.resynced = client.resynced
                 /\ UNCHANGED <<sock, header, link, hubVars, toHub, toClient, outbox, app, spent>>
            ELSE Opened(c)
<1>1. client \in Clients(issued, session) /\ session \in Nat
  BY Bounds DEF Types, ClientTypes
<1>2. /\ client.timer /\ UNCHANGED <<hubVars, toHub, toClient, outbox, app, spent>>
      /\ UNCHANGED <<session, log, applied, server, issued, valid>>
  BY DEF ReconnectTimer, hubVars
<1>3. CASE client.closedByUser
  <2>1. client' = [client EXCEPT !.timer = FALSE] /\ UNCHANGED <<sock, header, link>>
    BY <1>3 DEF ReconnectTimer
  <2> QED BY <1>1, <1>2, <1>3, <2>1 DEF Keeps, Clients
<1>4. CASE ~client.closedByUser
  <2>1. OpenSocket(client, c) /\ issued \subseteq issued
    BY <1>4 DEF ReconnectTimer
  <2> QED BY <1>1, <1>2, <1>4, <2>1, OpenedFacts
<1> QED BY <1>3, <1>4

\* A pairing makes the client the new device and opens a socket for it.
LEMMA PairSucceedsFacts ==
  ASSUME Types, NEW d \in Dev, NEW c \in Conn, PairSucceeds(d, c)
  PROVE  /\ Opened(c) /\ client.pairing /\ d \notin issued
         /\ issued' = issued \cup {d} /\ valid' = valid \cup {d}
         /\ client'.identity = d /\ client'.pairing = FALSE
         /\ client'.again = (app = "web") /\ client'.closedByUser = FALSE
<1>1. client \in Clients(issued, session) /\ session \in Nat
  BY Bounds DEF Types, ClientTypes
<1>2. /\ UNCHANGED <<session, log, applied, refused, server, toHub, toClient, outbox, app, spent>>
      /\ issued' = issued \cup {d} /\ valid' = valid \cup {d}
      /\ client.pairing /\ d \notin issued
  BY DEF PairSucceeds
<1> DEFINE ids == issued \cup {d}
           told == [client EXCEPT !.identity = d, !.pairing = FALSE, !.again = app = "web"]
           cl == Connected(told)
<1>3. client \in Clients(ids, session)
  BY <1>1, ClientsGrow
<1>4. d \in ids /\ (app = "web") \in BOOLEAN
  OBVIOUS
<1>5. told \in Clients(ids, session)
  BY <1>1, <1>3, <1>4, ClientUpdates
<1>6. /\ told.identity = d /\ told.pairing = FALSE /\ told.again = (app = "web")
      /\ told.session = client.session /\ told.fullResync = client.fullResync
      /\ told.overlap = client.overlap /\ told.resynced = client.resynced
  BY <1>1 DEF Clients
<1>7. OpenSocket(cl, c)
  BY DEF PairSucceeds
<1> HIDE DEF told
<1>8. /\ cl \in Clients(ids, session) /\ cl.closedByUser = FALSE
      /\ cl.identity = told.identity /\ cl.pairing = told.pairing /\ cl.again = told.again
      /\ cl.session = told.session /\ cl.fullResync = told.fullResync
      /\ cl.overlap = told.overlap /\ cl.resynced = told.resynced
  <2>1. cl \in Clients(ids, session)
    BY <1>5, ConnectedFacts
  <2> HIDE DEF ids
  <2>2. told \in Clients(ids, session)
    BY <1>5
  <2> QED BY <2>1, <2>2 DEF Connected, Clients
<1> HIDE DEF cl
<1>9. issued \subseteq ids
  OBVIOUS
<1> HIDE DEF ids
<1> QED BY <1>2, <1>6, <1>7, <1>8, <1>9, OpenedFacts

\* A closed socket is free, and its client tries again.
LEMMA OnCloseFacts ==
  ASSUME Types, NEW c \in Conn, OnClose(c)
  PROVE  /\ Keeps /\ Freed(c) /\ sock[c] # "free" /\ client'.resynced = client.resynced
         /\ client'.socket = client.socket /\ client'.fullResync = client.fullResync
         /\ \/ Retries
            \/ client.phase = "unauthorized" /\ client' = client
<1>1. client \in Clients(issued, session) /\ sock \in [Conn -> {"free", "dialing", "open"}]
  BY DEF Types, ClientTypes
<1>2. /\ sock[c] # "free" /\ sock' = [sock EXCEPT ![c] = "free"]
      /\ client' = IF client.phase = "unauthorized" THEN client ELSE Reconnecting(client)
  BY DEF OnClose
<1>3. Freed(c)
  BY <1>1, <1>2 DEF Freed
<1>4. CASE client.phase = "unauthorized"
  BY <1>2, <1>3, <1>4 DEF Keeps
<1>5. CASE client.phase # "unauthorized"
  <2>1. client' = Reconnecting(client)
    BY <1>2, <1>5
  <2> QED BY <1>1, <1>2, <1>3, <2>1, ReconnectingFacts DEF Keeps, Retries, Clients
<1> QED BY <1>4, <1>5

\* A snapshot and the event of the tip change phase and session.
LEMMA CaughtUpFacts ==
  ASSUME Types, NEW c \in Conn, OnSnapshot(c) \/ OnTip(c)
  PROVE  /\ Keeps /\ sock' = sock /\ sock[c] = "open"
         /\ client'.phase \in {"syncing", "live"} /\ client'.resynced = client.resynced
         /\ client'.socket = client.socket /\ client'.fullResync = client.fullResync
         /\ client'.closedByUser = client.closedByUser /\ client'.timer = client.timer
         /\ OnSnapshot(c) => client'.session = toClient[c][1].session
         /\ OnTip(c) => client'.session = client.session
<1>1. client \in Clients(issued, session) 
  BY DEF Types, ClientTypes
<1>2. sock' = sock
  BY DEF OnSnapshot, OnTip
<1>3. CASE OnTip(c)
  <2>1. client' = [client EXCEPT !.phase = "live"] /\ Receives(c, "tip")
    BY <1>3 DEF OnTip
  <2>2. ~OnSnapshot(c)
    BY <2>1 DEF OnSnapshot, Receives
  <2>3. sock[c] = "open"
    BY <2>1 DEF Receives
  <2> QED BY <1>1, <1>2, <2>1, <2>2, <2>3 DEF Keeps, Clients
<1>4. CASE OnSnapshot(c)
  <2>1. PICK ph \in {"syncing", "live"} :
          client' = [client EXCEPT !.session = Head(toClient[c]).session, !.phase = ph]
    BY <1>4 DEF OnSnapshot
  <2>2. Receives(c, "snapshot")
    BY <1>4 DEF OnSnapshot
  <2>3. ~OnTip(c)
    BY <2>2 DEF OnTip, Receives
  <2>4. Head(toClient[c]) = toClient[c][1] /\ sock[c] = "open"
    BY <2>2, ReceivesFacts
  <2> QED BY <1>1, <1>2, <2>1, <2>3, <2>4 DEF Keeps, Clients
<1> QED BY <1>3, <1>4

\* A gap costs the client its socket.
LEMMA OnGapFacts ==
  ASSUME Types, NEW c \in Conn, OnGap(c)
  PROVE  /\ Keeps /\ Released /\ Retries
         /\ client'.socket = None
         /\ sock[c] = "open" /\ server[c] # None
         /\ \E third \in BOOLEAN : /\ client'.fullResync = (client.fullResync \/ third)
                                  /\ client'.resynced = (client.resynced \/ third)
<1>1. client \in Clients(issued, session) /\ session \in Nat
  BY Bounds DEF Types, ClientTypes
<1>2. PICK b \in BOOLEAN :
        client' = Reconnecting([client EXCEPT !.fullResync = client.fullResync \/ b,
                                              !.resynced = client.resynced \/ b, !.socket = None])
  BY DEF OnGap
<1> DEFINE f == client.fullResync \/ b
           g == client.resynced \/ b
           cl == [client EXCEPT !.fullResync = f, !.resynced = g, !.socket = None]
<1>3. /\ cl \in Clients(issued, session) /\ cl.identity = client.identity
      /\ cl.pairing = client.pairing /\ cl.again = client.again /\ cl.overlap = client.overlap
      /\ cl.closedByUser = client.closedByUser /\ cl.session = client.session
      /\ cl.phase = client.phase /\ cl.timer = client.timer /\ cl.socket = None
      /\ cl.fullResync = f /\ cl.resynced = g
  <2>1. cl \in Clients(issued, session)
    BY <1>1, ClientUpdates
  <2> HIDE DEF f, g
  <2> QED BY <1>1, <2>1 DEF Clients
<1>4. client' = Reconnecting(cl)
  BY <1>2
<1> HIDE DEF cl
<1>5. /\ Keeps /\ Retries /\ client'.socket = None
      /\ client'.fullResync = f /\ client'.resynced = g
  <2> HIDE DEF f, g
  <2> QED BY <1>1, <1>3, <1>4, ReconnectingFacts DEF Keeps, Retries, Clients
<1>6. sock' = [d \in Conn |-> IF d = client.socket THEN "free" ELSE sock[d]]
  BY DEF OnGap
<1>7. Released
  BY <1>6 DEF Released
<1> QED BY <1>5, <1>7 DEF OnGap

\* So does a refusal, and the client waits for its user.
LEMMA OnTerminalFacts ==
  ASSUME Types, NEW c \in Conn, OnTerminal(c)
  PROVE  /\ Keeps /\ Released
         /\ client'.phase = "unauthorized" /\ client'.socket = None
         /\ client'.closedByUser = TRUE /\ client'.timer = client.timer
         /\ client'.session = client.session /\ client'.fullResync = client.fullResync
         /\ client'.resynced = client.resynced
         /\ sock[c] = "open" /\ 1 \in DOMAIN toClient[c] /\ toClient[c][1].type = "terminal"
<1>1. client \in Clients(issued, session)
  BY DEF Types, ClientTypes
<1>2. client' = [client EXCEPT !.closedByUser = TRUE, !.socket = None, !.phase = "unauthorized"]
  BY DEF OnTerminal
<1>3. sock' = [d \in Conn |-> IF d = client.socket THEN "free" ELSE sock[d]]
  BY DEF OnTerminal, Detach
<1>4. Released
  BY <1>3 DEF Released
<1>5. sock[c] = "open" /\ 1 \in DOMAIN toClient[c] /\ toClient[c][1].type = "terminal"
  BY ReceivesFacts DEF OnTerminal
<1> QED BY <1>1, <1>2, <1>4, <1>5 DEF Keeps, Clients

\* The pair screen opens no socket before the host has issued a credential.
LEMMA PairScreenFacts ==
  ASSUME Types
  PROVE  /\ PairStarts =>
              /\ client'.identity = client.identity /\ client'.again = client.again
              /\ client'.overlap = client.overlap /\ client'.socket = client.socket
              /\ client'.closedByUser = client.closedByUser /\ client'.timer = client.timer
              /\ client'.session = client.session /\ client'.fullResync = client.fullResync
              /\ client'.phase = "pairing" /\ client'.pairing = TRUE
              /\ client'.resynced = client.resynced
         /\ PairFails =>
              /\ client'.identity = client.identity /\ client'.again = client.again
              /\ client'.overlap = client.overlap /\ client'.socket = client.socket
              /\ client'.closedByUser = client.closedByUser /\ client'.timer = client.timer
              /\ client'.session = client.session /\ client'.fullResync = client.fullResync
              /\ client'.phase = client.phase /\ client'.pairing = FALSE
              /\ client'.resynced = client.resynced
         /\ Forget =>
              /\ client'.identity = None /\ client'.again = client.again
              /\ client'.overlap = client.overlap /\ client'.socket = None
              /\ client'.closedByUser = FALSE /\ client'.timer = FALSE
              /\ client'.session = NoSession /\ client'.fullResync = FALSE
              /\ client'.phase = "idle" /\ client'.pairing = client.pairing
              /\ client'.resynced = client.resynced
<1>1. client \in Clients(issued, session)
  BY DEF Types, ClientTypes
<1> QED BY <1>1 DEF PairStarts, PairFails, Forget, Clients

-----------------------------------------------------------------------------
(* What is under way, after a step *)

\* No hello has been sent, and none has been changed.
OldHellos ==
  \A d \in Conn : \A i \in DOMAIN toHub'[d] : toHub'[d][i].type = "hello" =>
    \E j \in DOMAIN toHub[d] : toHub'[d][i] = toHub[d][j]

\* No connection has been refused.
OldTerminals ==
  \A d \in Conn : \A i \in DOMAIN toClient'[d] : toClient'[d][i].type = "terminal" =>
    \E j \in DOMAIN toClient[d] : toClient'[d][i] = toClient[d][j]

\* A flush sends no hello.
LEMMA HellosOfFlush ==
  ASSUME Types, NEW cl, cl.socket \in Conn \cup {None}, NEW box \in Seq(Cmd),
         toHub' = Flushed(cl, box)
  PROVE  OldHellos
<1>1. toHub \in [Conn -> Seq(Frames(issued))]
  BY DEF Types, WireTypes
<1>2. \A d \in Conn :
        /\ \A i \in DOMAIN toHub[d] : toHub'[d][i] = toHub[d][i]
        /\ \A i \in DOMAIN toHub'[d] : i \notin DOMAIN toHub[d] => toHub'[d][i].type = "command"
  BY <1>1, FlushedFacts
<1> QED BY <1>2 DEF OldHellos

\* Nor does the hub, which reads one.
LEMMA HellosOfHello ==
  ASSUME Types, NEW c \in Conn, HandleConnection(c)
  PROVE  OldHellos
<1>1. toHub \in [Conn -> Seq(Frames(issued))]
  BY DEF Types, WireTypes
<1>2. ReadOne(c) \/ toHub' = [toHub EXCEPT ![c] = <<>>]
  BY HelloEffects
<1>3. CASE toHub' = [toHub EXCEPT ![c] = <<>>]
  BY <1>1, <1>3 DEF OldHellos
<1>4. CASE ReadOne(c)
  <2>1. \A d \in Conn : \A i \in DOMAIN toHub'[d] :
          \E j \in DOMAIN toHub[d] : toHub'[d][i] = toHub[d][j]
    BY <1>4 DEF ReadOne
  <2> QED BY <2>1 DEF OldHellos
<1> QED BY <1>2, <1>3, <1>4

\* A hello under way was so before, unless a socket has just opened.
LEMMA HellosFacts ==
  ASSUME Types, Next, \A c \in Conn : ~OnOpen(c)
  PROVE  OldHellos
<1>1. /\ toHub \in [Conn -> Seq(Frames(issued))]
      /\ outbox \in Seq(Cmd) /\ client \in Clients(issued, session)
  BY DEF Types, WireTypes, ClientTypes
<1>2. ASSUME \A d \in Conn : toHub'[d] \in {toHub[d], <<>>}
      PROVE  OldHellos
  BY <1>2 DEF OldHellos
<1>3. client.socket \in Conn \cup {None}
  BY <1>1, ClientFields DEF Typed
<1>4. ASSUME NEW x \in Cmd, SendCommand(x) PROVE OldHellos
  <2>1. CASE toHub' = toHub
    BY <1>2, <2>1
  <2>2. CASE toHub' = Flushed(client, Append(outbox, x))
    <3>1. Append(outbox, x) \in Seq(Cmd)
      BY <1>1
    <3> QED BY <1>3, <2>2, <3>1, HellosOfFlush
  <2> QED BY <1>4, <2>1, <2>2 DEF SendCommand
<1>5. ASSUME NEW c \in Conn, OnSnapshot(c) \/ OnTip(c) PROVE OldHellos
  <2>1. client'.socket \in Conn \cup {None}
    BY <1>3, <1>5, CaughtUpFacts
  <2>2. outbox' \in Seq(Cmd)
    <3>1. outbox' = outbox \/ outbox' = <<>>
      BY <1>5 DEF OnSnapshot, OnTip
    <3>2. <<>> \in Seq(Cmd)
      OBVIOUS
    <3> QED BY <1>1, <3>1, <3>2
  <2>3. toHub' = toHub \/ toHub' = Flushed(client', outbox')
    BY <1>5 DEF OnSnapshot, OnTip
  <2>4. CASE toHub' = toHub
    BY <1>2, <2>4
  <2>5. CASE toHub' = Flushed(client', outbox')
    BY <2>1, <2>2, <2>5, HellosOfFlush
  <2> QED BY <2>3, <2>4, <2>5
<1>6. ASSUME NEW c \in Conn, ReadOne(c) PROVE OldHellos
  <2>1. \A d \in Conn : \A i \in DOMAIN toHub'[d] :
          \E j \in DOMAIN toHub[d] : toHub'[d][i] = toHub[d][j]
    BY <1>6 DEF ReadOne
  <2> QED BY <2>1 DEF OldHellos
<1>7. ASSUME NEW c \in Conn, AckReplay(c) \/ Execute(c) \/ Refuse(c) PROVE OldHellos
  BY <1>6, <1>7, CommandEffects
<1>8. ASSUME NEW c \in Conn, HandleConnection(c) PROVE OldHellos
  BY <1>8, HellosOfHello
<1>9. CASE Restart
  BY <1>2, <1>9 DEF Restart
<1>10. ASSUME NEW c \in Conn, ConnectionLost(c) PROVE OldHellos
  <2>1. PICK n \in (IF busy[c] THEN 1 ELSE 0) .. Len(toHub[c]) :
          toHub' = [toHub EXCEPT ![c] = SubSeq(toHub[c], 1, n)]
    BY <1>10 DEF ConnectionLost
  <2>0. n \in 0 .. Len(toHub[c])
    BY <2>1
  <2> DEFINE part == SubSeq(toHub[c], 1, n)
  <2>2. \A i \in DOMAIN part : i \in DOMAIN toHub[c] /\ part[i] = toHub[c][i]
    <3>1. toHub[c] \in Seq(Frames(issued))
      BY <1>1
    <3> QED BY <2>0, <3>1, PrefixFacts
  <2>3. toHub' = [toHub EXCEPT ![c] = part]
    BY <2>1
  <2> HIDE DEF part
  <2> QED BY <1>1, <2>2, <2>3 DEF OldHellos
<1>11. CASE toHub' = toHub
  BY <1>2, <1>11
<1> QED
  BY <1>4, <1>5, <1>7, <1>8, <1>9, <1>10, <1>11, Steps
  DEF RecordKey, Unregister, OnClose, OnAck, OnError, OnTerminal, ReconnectTimer, ConnectCalled,
      OnGap, PairSucceeds, PairStarts, PairFails, Forget, RevokeDevice, netVars

\* A refusal is sent by the hub on the first frame of a connection only.
LEMMA TerminalsFacts ==
  ASSUME Types, Next, \A c \in Conn : ~HandleConnection(c)
  PROVE  OldTerminals
<1>1. CASE Quiet
  BY <1>1, QuietEffects DEF OldReplies, OldTerminals
<1>2. ASSUME NEW c \in Conn, AckReplay(c) \/ Execute(c) \/ Refuse(c) PROVE OldTerminals
  <2> SUFFICES ASSUME NEW d \in Conn, NEW i \in DOMAIN toClient'[d],
                      toClient'[d][i].type = "terminal"
               PROVE  \E j \in DOMAIN toClient[d] : toClient'[d][i] = toClient[d][j]
    BY DEF OldTerminals
  <2>1. /\ Sent(c)
        /\ \A k : New(c, k) => \E x, n : toClient'[c][k] \in {Ack(x, n), Error(x)}
    <3> DEFINE x == toHub[c][1].cmd
    <3>1. /\ Sent(c)
          /\ \/ \A k : New(c, k) => toClient'[c][k] = Ack(x, 0)
             \/ \A k : New(c, k) => toClient'[c][k] \in {Ack(x, Len(log) + 1), Error(x)}
             \/ \A k : New(c, k) => toClient'[c][k] = Error(x)
      BY <1>2, CommandEffects
    <3> HIDE DEF x
    <3> QED BY <3>1
  <2>2. \A k : New(c, k) => toClient'[c][k].type # "terminal"
    BY <2>1 DEF Ack, Error
  <2>3. i \in DOMAIN toClient[d]
    BY <2>1, <2>2 DEF Sent, New
  <2> QED BY <2>1, <2>3 DEF Sent
<1>3. ASSUME NEW c \in Conn, RecordKey(c) PROVE OldTerminals
  <2>1. toClient' = toClient
    BY <1>3 DEF RecordKey, netVars
  <2> QED BY <2>1 DEF OldTerminals
<1> QED BY <1>1, <1>2, <1>3, Steps DEF Quiet

-----------------------------------------------------------------------------
(* The user is asked to pair again only when the host has refused his device *)

\* A client that opens no socket stays alone with the one it has.
LEMMA AloneKept ==
  ASSUME Alone, OldHellos, OldTerminals, valid' \subseteq valid, header' = header, app' = app,
         \A d \in Conn : sock'[d] # "free" =>
           /\ sock[d] # "free" /\ server'[d] \in {server[d], None}
           /\ client'.socket = client.socket /\ client'.phase # "unauthorized"
           /\ client'.identity = client.identity,
         client'.phase = "unauthorized" => client'.identity \notin valid'
  PROVE  Alone'
<1>1. ASSUME NEW d \in Conn PROVE OwnSocket(d)'
  <2> SUFFICES ASSUME sock'[d] # "free" PROVE OwnSocket(d)'
    BY DEF OwnSocket
  <2>1. /\ sock[d] # "free" /\ server'[d] \in {server[d], None}
        /\ client'.socket = client.socket /\ client'.phase # "unauthorized"
        /\ client'.identity = client.identity
    OBVIOUS
  <2>2. /\ client.socket = d
        /\ app = "mobile" => header[d] = client.identity
        /\ server[d] \in {None, client.identity}
        /\ \A i \in DOMAIN toHub[d] :
             toHub[d][i].type = "hello" => OwnHello(toHub[d][i])
        /\ \A i \in DOMAIN toClient[d] :
             toClient[d][i].type = "terminal" => client.identity \notin valid
    BY <2>1 DEF Alone, OwnSocket
  <2>3. \A i \in DOMAIN toHub'[d] : toHub'[d][i].type = "hello" =>
          OwnHello(toHub[d][i])'
    BY <2>1, <2>2 DEF OldHellos, OwnHello
  <2>4. \A i \in DOMAIN toClient'[d] :
          toClient'[d][i].type = "terminal" => client'.identity \notin valid'
    BY <2>1, <2>2 DEF OldTerminals
  <2>5. server'[d] \in {None, client'.identity}
    BY <2>1, <2>2
  <2> QED BY <2>1, <2>2, <2>3, <2>4, <2>5 DEF OwnSocket, OwnHello
<1> QED BY <1>1 DEF Alone

\* A socket opened where there was none.
LEMMA AloneOpened ==
  ASSUME Types, NEW c \in Conn, Opened(c), ~client'.overlap
  PROVE  Alone'
<1>1. \A d \in Conn : sock[d] = "free"
  BY DEF Opened
<1>2. \A d \in Conn : d # c => sock'[d] = "free"
  BY <1>1 DEF Opened
<1>3. OwnSocket(c)'
  BY DEF Opened, OwnSocket
<1>4. \A d \in Conn : OwnSocket(d)'
  BY <1>2, <1>3 DEF OwnSocket
<1>5. client'.phase # "unauthorized"
  BY DEF Opened
<1> QED BY <1>4, <1>5 DEF Alone

\* The hello of the one socket has the credential of the client.
LEMMA AloneOnOpen ==
  ASSUME Types, Alone, NEW c \in Conn, OnOpen(c)
  PROVE  Alone'
<1> DEFINE hello == Hello(IF HeaderAuth THEN header[c] ELSE client.identity, client.identity,
                    client.session)
<1>1. /\ sock[c] = "dialing" /\ sock' = [sock EXCEPT ![c] = "open"]
      /\ toHub' = [toHub EXCEPT ![c] = <<hello>>]
      /\ UNCHANGED <<server, valid, toClient, client, header, app>>
  BY DEF OnOpen, hubVars
<1>2. sock \in [Conn -> {"free", "dialing", "open"}] /\ toHub \in [Conn -> Seq(Frames(issued))]
  BY DEF Types, ClientTypes, WireTypes
<1>3. OwnHello(hello)
  BY <1>1 DEF Alone, OwnSocket, HeaderAuth, OwnHello, Hello
<1> HIDE DEF hello
<1>4. ASSUME NEW d \in Conn PROVE OwnSocket(d)'
  <2>1. CASE d # c
    <3>1. sock'[d] = sock[d] /\ toHub'[d] = toHub[d]
      BY <1>1, <1>2, <2>1
    <3>2. OwnSocket(d)
      BY DEF Alone
    <3> QED BY <1>1, <3>1, <3>2 DEF OwnSocket, OwnHello
  <2>2. CASE d = c
    <3>1. OwnSocket(c) /\ sock[c] # "free"
      BY <1>1 DEF Alone
    <3>2. toHub'[c] = <<hello>>
      BY <1>1, <1>2
    <3>3. \A i \in DOMAIN toHub'[c] : OwnHello(toHub'[c][i])
      BY <1>3, <3>2
    <3> QED BY <1>1, <2>2, <3>1, <3>3 DEF OwnSocket, OwnHello
  <2> QED BY <2>1, <2>2
<1> QED BY <1>1, <1>4 DEF Alone

\* The hello on the client's socket is the client's own: it is admitted, or the
\* device is revoked.
LEMMA AloneHandleConnection ==
  ASSUME Types, Alone, NEW c \in Conn, HandleConnection(c)
  PROVE  Alone'
<1>1. /\ UNCHANGED <<valid, client, sock, header, app>>
      /\ server[c] = None /\ toHub[c] # <<>>
  BY DEF HandleConnection, clientVars
<1>2. 1 \in DOMAIN toHub[c] /\ toHub[c][1].type = "hello"
  BY <1>1, HelloFacts
<1>3. OldHellos
  BY HellosOfHello
<1>4. server' = [server EXCEPT ![c] = toHub[c][1].credential] \/ server' = server
  BY HelloEffects
<1>5. ASSUME NEW d \in Conn, sock[d] # "free" PROVE OwnSocket(d)'
  <2>1. OwnSocket(d)
    BY DEF Alone
  <2>2. \A i \in DOMAIN toHub'[d] : toHub'[d][i].type = "hello" =>
          OwnHello(toHub'[d][i])
    BY <1>3, <1>5, <2>1 DEF OldHellos, OwnSocket
  <2>3. CASE d # c
    <3>1. server'[d] = server[d]
      BY <1>4, <2>3 DEF Types, HubTypes
    <3>2. \A i \in DOMAIN toClient'[d] : i \in DOMAIN toClient[d] /\ toClient'[d][i] = toClient[d][i]
      BY <2>3, HelloEffects DEF Sent
    <3> QED BY <1>1, <1>5, <2>1, <2>2, <3>1, <3>2 DEF OwnSocket, OwnHello
  <2>4. CASE d = c
    <3>1. OwnHello(toHub[c][1])
      BY <1>2, <1>5, <2>1, <2>4 DEF OwnSocket
    <3>2. toHub[c][1].credential = client.identity /\ toHub[c][1].device = client.identity
      BY <3>1 DEF OwnHello
    <3>3. server'[c] \in {None, client.identity}
      <4>1. server \in [Conn -> issued \cup {None}]
        BY DEF Types, HubTypes
      <4> QED BY <1>1, <1>4, <3>2, <4>1
    <3>4. ASSUME NEW i \in DOMAIN toClient'[c], toClient'[c][i].type = "terminal"
          PROVE  client.identity \notin valid
      <4>1. CASE i \in DOMAIN toClient[c]
        <5>1. toClient'[c][i] = toClient[c][i]
          BY <4>1, HelloEffects DEF Sent
        <5> QED BY <1>5, <2>1, <2>4, <3>4, <4>1, <5>1 DEF OwnSocket
      <4>2. CASE i \notin DOMAIN toClient[c]
        <5>1. New(c, i)
          BY <4>2 DEF New
        <5>2. ~Admits(toHub[c][1])
          BY <3>4, <5>1, HelloEffects
        <5> QED BY <3>2, <5>2 DEF Admits
      <4> QED BY <4>1, <4>2
    <3> QED BY <1>1, <1>5, <2>1, <2>2, <2>4, <3>3, <3>4 DEF OwnSocket, OwnHello
  <2> QED BY <2>3, <2>4
<1>6. \A d \in Conn : OwnSocket(d)'
  BY <1>1, <1>5 DEF OwnSocket
<1> QED BY <1>1, <1>6 DEF Alone

\* Once a client has had two sockets it stays so marked.
LEMMA OverlapStays == Types /\ [Next]_vars /\ client.overlap => client'.overlap
<1> SUFFICES ASSUME Types, [Next]_vars, client.overlap PROVE client'.overlap
  OBVIOUS
<1>1. CASE client' = client
  BY <1>1
<1>2. ASSUME NEW c \in Conn, Opened(c) PROVE client'.overlap
  BY <1>2 DEF Opened
<1>3. CASE Keeps
  BY <1>3 DEF Keeps
<1>4. ASSUME NEW c \in Conn, ReconnectTimer(c) PROVE client'.overlap
  BY <1>2, <1>3, <1>4, ReconnectTimerFacts
<1>5. CASE PairStarts \/ PairFails \/ Forget
  BY <1>5, PairScreenFacts
<1>6. ASSUME NEW c \in Conn,
             \/ OnClose(c) \/ OnSnapshot(c) \/ OnTip(c) \/ OnGap(c) \/ OnTerminal(c)
             \/ ConnectCalled(c) \/ \E d \in Dev : PairSucceeds(d, c)
      PROVE  client'.overlap
  BY <1>2, <1>3, <1>6, OnCloseFacts, CaughtUpFacts, OnGapFacts, OnTerminalFacts,
     ConnectCalledFacts, PairSucceedsFacts
<1>7. CASE UNCHANGED vars
  BY <1>1, <1>7 DEF vars, clientVars
<1>8. CASE Next /\ client' # client
  <2>1. \/ \E c \in Conn :
             \/ OnClose(c) \/ OnSnapshot(c) \/ OnTip(c) \/ OnGap(c) \/ OnTerminal(c)
             \/ ConnectCalled(c) \/ ReconnectTimer(c) \/ \E d \in Dev : PairSucceeds(d, c)
        \/ PairStarts \/ PairFails \/ Forget
    BY <1>8, Steps
    DEF SendCommand, HandleConnection, RecordKey, AckReplay, Execute, Refuse, Unregister,
        OnOpen, OnAck, OnError, ConnectionLost, Restart, RevokeDevice, clientVars
  <2> QED BY <1>4, <1>5, <1>6, <2>1
<1> QED BY <1>1, <1>7, <1>8

\* A client that has but one socket after a step had no more before it.
LEMMA AloneStep ==
  ASSUME Types, Next, Alone, ~client'.overlap
  PROVE  Alone'
<1>1. ASSUME NEW c \in Conn,
             ConnectCalled(c) \/ \E d \in Dev : PairSucceeds(d, c)
      PROVE  Alone'
  BY <1>1, ConnectCalledFacts, PairSucceedsFacts, AloneOpened
<1>2. ASSUME NEW c \in Conn, OnOpen(c) \/ HandleConnection(c) PROVE Alone'
  BY <1>2, AloneOnOpen, AloneHandleConnection
<1>3. CASE \A c \in Conn : ~OnOpen(c) /\ ~HandleConnection(c)
  <2>1. OldHellos /\ OldTerminals
    BY <1>3, HellosFacts, TerminalsFacts
  <2>2. ASSUME valid' \subseteq valid, client' = client, UNCHANGED <<sock, header, app>>,
               \A d \in Conn : server'[d] \in {server[d], None}
        PROVE  Alone'
    BY <2>1, <2>2, AloneKept DEF Alone, OwnSocket
  <2>3. CASE \/ \E x \in Cmd : SendCommand(x)
             \/ \E c \in Conn : \/ RecordKey(c) \/ AckReplay(c) \/ Execute(c) \/ Refuse(c)
                                \/ Unregister(c) \/ OnAck(c) \/ OnError(c) \/ ConnectionLost(c)
             \/ Restart \/ \E d \in Dev : RevokeDevice(d)
    <3>1. UNCHANGED <<client, sock, header, app>> /\ valid' \subseteq valid
      BY <2>3 DEF SendCommand, RecordKey, AckReplay, Execute, Refuse, Unregister, OnAck,
                  OnError, ConnectionLost, Restart, RevokeDevice, hubVars, clientVars
    <3>2. \A d \in Conn : server'[d] \in {server[d], None}
      <4>1. \/ server' = server \/ server' = [c \in Conn |-> None]
            \/ \E c \in Conn : server' = [server EXCEPT ![c] = None]
        BY <2>3 DEF SendCommand, RecordKey, AckReplay, Execute, Refuse, Unregister, OnAck,
                    OnError, ConnectionLost, Restart, RevokeDevice, hubVars
      <4> QED BY <4>1 DEF Types, HubTypes
    <3> QED BY <2>2, <3>1, <3>2
  <2>4. ASSUME UNCHANGED <<valid, server, header, app>>,
               \A d \in Conn : sock'[d] # "free" =>
                 /\ sock[d] # "free" /\ client'.socket = client.socket
                 /\ client'.phase # "unauthorized" /\ client'.identity = client.identity,
               client'.phase = "unauthorized" => client'.identity \notin valid'
        PROVE  Alone'
    BY <2>1, <2>4, AloneKept
  <2>5. ASSUME NEW c \in Conn, OnClose(c) PROVE Alone'
    <3>1. UNCHANGED <<valid, server, header, app>>
      BY <2>5 DEF OnClose, hubVars
    <3>2. /\ client'.identity = client.identity /\ client'.socket = client.socket
          /\ sock[c] # "free" /\ \A d \in Conn : sock'[d] # "free" => sock[d] # "free"
          /\ client'.phase = "unauthorized" => client.phase = "unauthorized"
      BY <2>5, OnCloseFacts DEF Keeps, Freed, Retries
    <3>3. client.phase # "unauthorized"
      BY <3>2 DEF Alone, OwnSocket
    <3> QED BY <2>4, <3>1, <3>2, <3>3
  <2>6. ASSUME NEW c \in Conn, OnSnapshot(c) \/ OnTip(c) PROVE Alone'
    <3>1. UNCHANGED <<valid, server, header, app>>
      BY <2>6 DEF OnSnapshot, OnTip, hubVars
    <3>2. /\ client'.identity = client.identity /\ client'.socket = client.socket
          /\ sock' = sock /\ client'.phase # "unauthorized"
      BY <2>6, CaughtUpFacts DEF Keeps
    <3> QED BY <2>4, <3>1, <3>2
  <2>7. ASSUME Released PROVE \A d \in Conn : sock'[d] = "free"
    BY <2>7 DEF Released, Alone, OwnSocket
  <2>8. ASSUME NEW c \in Conn, OnGap(c) PROVE Alone'
    <3>1. UNCHANGED <<valid, server, header, app>>
      BY <2>8 DEF OnGap, hubVars
    <3>2. /\ client'.identity = client.identity /\ Released
          /\ client'.phase = "unauthorized" => client.phase = "unauthorized"
      BY <2>8, OnGapFacts DEF Keeps, Retries
    <3> QED BY <2>4, <2>7, <3>1, <3>2 DEF Alone
  <2>9. ASSUME NEW c \in Conn, OnTerminal(c) PROVE Alone'
    <3>1. UNCHANGED <<valid, server, header, app>>
      BY <2>9 DEF OnTerminal, hubVars
    <3>2. /\ client'.identity = client.identity /\ Released /\ sock[c] = "open"
          /\ 1 \in DOMAIN toClient[c] /\ toClient[c][1].type = "terminal"
      BY <2>9, OnTerminalFacts DEF Keeps
    <3>3. client.identity \notin valid
      BY <3>2 DEF Alone, OwnSocket
    <3> QED BY <2>4, <2>7, <3>1, <3>2, <3>3
  <2>10. CASE PairStarts \/ PairFails
    <3>1. UNCHANGED <<valid, server, header, app, sock>>
      BY <2>10 DEF PairStarts, PairFails, hubVars
    <3>2. /\ client'.identity = client.identity /\ client'.socket = client.socket
          /\ client'.phase = "unauthorized" => client.phase = "unauthorized"
      BY <2>10, PairScreenFacts
    <3> QED BY <2>4, <3>1, <3>2 DEF Alone, OwnSocket
  <2>11. CASE Forget
    <3>1. /\ UNCHANGED <<valid, server, header, app, sock>> /\ NeedsPairing
          /\ client.identity # None
      BY <2>11 DEF Forget, hubVars
    <3>2. client.phase = "unauthorized"
      BY <3>1 DEF NeedsPairing
    <3>3. \A d \in Conn : sock'[d] = "free"
      BY <3>1, <3>2 DEF Alone, OwnSocket
    <3>4. client'.phase # "unauthorized"
      BY <2>11, PairScreenFacts
    <3> QED BY <2>4, <3>1, <3>3, <3>4
  <2>12. ASSUME NEW c \in Conn, ReconnectTimer(c) PROVE Alone'
    <3>1. CASE Opened(c)
      BY <3>1, AloneOpened
    <3>2. CASE ~Opened(c)
      <4>1. /\ UNCHANGED <<sock, header, hubVars, app>> /\ client'.phase = client.phase
            /\ client'.socket = client.socket /\ client'.identity = client.identity
        BY <2>12, <3>2, ReconnectTimerFacts
      <4>2. UNCHANGED <<valid, server>>
        BY <4>1 DEF hubVars
      <4> QED BY <2>4, <4>1, <4>2 DEF Alone, OwnSocket
    <3> QED BY <3>1, <3>2
  <2> QED BY <1>1, <1>3, <2>3, <2>5, <2>6, <2>8, <2>9, <2>10, <2>11, <2>12, Steps
<1> QED BY <1>2, <1>3

\* Nothing but a revocation counts as one, and nothing changes the app.
LEMMA RevocationFacts ==
  ASSUME Types, [Next]_vars
  PROVE  /\ app' = app
         /\ spent["revoke"] \in Nat /\ spent'["revoke"] \in Nat
         /\ \/ spent'["revoke"] = spent["revoke"]
            \/ /\ \E d \in Dev : RevokeDevice(d)
               /\ spent'["revoke"] = spent["revoke"] + 1
<1>1. app' = app
  BY DEF Next, HubStep, ClientStep, SendCommand, HandleConnection, RecordKey, AckReplay,
         Execute, Refuse, Unregister, OnOpen, OnClose, OnSnapshot, OnTip, OnAck, OnError, OnTerminal,
         ReconnectTimer, ConnectCalled, OnGap, ConnectionLost, PairSucceeds, PairStarts,
         PairFails, Forget, Restart, RevokeDevice, vars, clientVars
<1>2. HubTypes
  BY DEF Types
<1>3. spent["revoke"] \in Nat /\ "revoke" \in Fault
  BY <1>2, DeliveryAssumption DEF HubTypes, Fault
<1>4. ASSUME NEW fault \in Fault, fault # "revoke", Happens(fault)
      PROVE  spent'["revoke"] = spent["revoke"]
  BY <1>2, <1>3, <1>4, HappensFacts
<1>5. ASSUME NEW d \in Dev, RevokeDevice(d) PROVE spent'["revoke"] = spent["revoke"] + 1
  BY <1>2, <1>3, <1>5, HappensFacts DEF RevokeDevice
<1>7. ASSUME spent' = spent PROVE spent'["revoke"] = spent["revoke"]
  BY <1>7
<1>6. ASSUME \/ Restart \/ \E c \in Conn : OnGap(c) \/ ConnectionLost(c)
      PROVE  spent'["revoke"] = spent["revoke"]
  <2>1. {"restart", "gap", "drop"} \subseteq Fault
    BY DEF Fault
  <2> QED BY <1>4, <1>6, <1>7, <2>1 DEF Restart, OnGap, ConnectionLost
<1>8. \/ spent' = spent \/ Restart \/ \E c \in Conn : OnGap(c) \/ ConnectionLost(c)
      \/ \E d \in Dev : RevokeDevice(d)
  BY DEF Next, HubStep, ClientStep, SendCommand, HandleConnection, RecordKey, AckReplay,
         Execute, Refuse, Unregister, OnOpen, OnClose, OnSnapshot, OnTip, OnAck, OnError, OnTerminal,
         ReconnectTimer, ConnectCalled, PairSucceeds, PairStarts, PairFails, Forget, vars
<1> QED BY <1>1, <1>3, <1>5, <1>6, <1>7, <1>8

\* The steps that only the second pairing can break: it goes on until the host
\* revokes its device.
LEMMA SecondKept ==
  ASSUME SecondPairing, OldHellos, OldTerminals, spent'["revoke"] = spent["revoke"],
         valid' = valid, client'.identity = client.identity, client'.pairing = client.pairing,
         client'.phase \notin {"unauthorized", "pairing"},
         \A d \in Conn : sock'[d] # "free" => sock[d] # "free"
  PROVE  SecondPairing'
<1>1. ASSUME NEW d \in Conn, sock'[d] # "free"
      PROVE  /\ \A i \in DOMAIN toHub'[d] : toHub'[d][i].type = "hello" =>
                  OwnHello(toHub[d][i])'
             /\ \A i \in DOMAIN toClient'[d] : toClient'[d][i].type # "terminal"
  <2>1. /\ \A i \in DOMAIN toHub[d] : toHub[d][i].type = "hello" =>
             OwnHello(toHub[d][i])
        /\ \A i \in DOMAIN toClient[d] : toClient[d][i].type # "terminal"
    BY <1>1 DEF SecondPairing
  <2> QED BY <2>1 DEF OldHellos, OldTerminals, OwnHello
<1> QED BY <1>1 DEF SecondPairing, OwnHello

\* The same for a socket that has been opened.
LEMMA SecondOpened ==
  ASSUME Types, NEW c \in Conn, Opened(c), spent["revoke"] = 1,
         client'.identity \in valid', ~client'.pairing,
         \A d \in Conn : d # c /\ sock[d] # "free" => SecondPairing /\ client'.identity = client.identity
  PROVE  SecondPairing'
<1>1. /\ toHub[c] = <<>> /\ toClient[c] = <<>> /\ UNCHANGED <<toHub, toClient, spent>>
      /\ client'.phase \in {"connecting", "reconnecting"}
      /\ \A d \in Conn : d # c => sock'[d] = sock[d]
  BY DEF Opened
<1>2. ASSUME NEW d \in Conn, sock'[d] # "free"
      PROVE  /\ \A i \in DOMAIN toHub'[d] : toHub'[d][i].type = "hello" =>
                  OwnHello(toHub[d][i])'
             /\ \A i \in DOMAIN toClient'[d] : toClient'[d][i].type # "terminal"
  <2>1. CASE d = c
    BY <1>1, <2>1
  <2>2. CASE d # c
    BY <1>1, <1>2, <2>2 DEF SecondPairing, OwnHello
  <2> QED BY <2>1, <2>2
<1> QED BY <1>1, <1>2 DEF SecondPairing, OwnHello

\* A device paired after the first revocation is admitted until the second.
LEMMA SecondStep ==
  ASSUME Types, Next, SecondPairing, app = "web", spent'["revoke"] <= 1
  PROVE  SecondPairing'
<1>1. /\ spent["revoke"] = 1 /\ client.identity \in valid /\ ~client.pairing
      /\ client.phase \notin {"unauthorized", "pairing"}
  BY DEF SecondPairing
<1>2. /\ spent'["revoke"] = spent["revoke"] /\ \A d \in Dev : ~RevokeDevice(d)
  <2>1. \A d \in Dev : RevokeDevice(d) => spent'["revoke"] = spent["revoke"] + 1
    <3>1. HubTypes /\ "revoke" \in Fault
      BY DEF Types, Fault
    <3> QED BY <3>1, HappensFacts DEF RevokeDevice
  <2> QED BY <1>1, <2>1, RevocationFacts
<1>3. client.identity # None
  BY <1>1, Bounds DEF Types, HubTypes
<1>4. ~NeedsPairing
  BY <1>1, <1>3 DEF NeedsPairing
<1>5. ~PairStarts /\ ~PairFails /\ ~Forget /\ \A d \in Dev, c \in Conn : ~PairSucceeds(d, c)
  BY <1>1, <1>4 DEF PairStarts, PairFails, Forget, PairSucceeds
<1>6. valid' = valid
  BY <1>2, <1>5, Steps
  DEF SendCommand, HandleConnection, RecordKey, AckReplay, Execute, Refuse,
      Unregister, OnOpen, OnClose, OnSnapshot, OnTip, OnAck, OnError, OnTerminal,
      ReconnectTimer, ConnectCalled, OnGap, ConnectionLost, Restart, hubVars
<1>7. ASSUME NEW c \in Conn, Opened(c), client'.identity = client.identity,
             client'.pairing = client.pairing
      PROVE  SecondPairing'
  BY <1>1, <1>6, <1>7, SecondOpened
<1>8. ASSUME NEW c \in Conn, ConnectCalled(c) PROVE SecondPairing'
  BY <1>7, <1>8, ConnectCalledFacts
<1>9. ASSUME NEW c \in Conn, OnOpen(c) PROVE SecondPairing'
  <2> DEFINE hello == Hello(IF HeaderAuth THEN header[c] ELSE client.identity, client.identity,
                    client.session)
  <2>1. /\ sock[c] = "dialing" /\ sock' = [sock EXCEPT ![c] = "open"]
        /\ toHub' = [toHub EXCEPT ![c] = <<hello>>]
        /\ UNCHANGED <<toClient, client>>
    BY <1>9 DEF OnOpen
  <2>2. /\ sock \in [Conn -> {"free", "dialing", "open"}]
        /\ toHub \in [Conn -> Seq(Frames(issued))]
    BY DEF Types, ClientTypes, WireTypes
  <2>3. OwnHello(hello)
    BY DEF HeaderAuth, Hello, OwnHello
  <2> HIDE DEF hello
  <2>4. toHub'[c] = <<hello>> /\ \A i \in DOMAIN <<hello>> : <<hello>>[i] = hello
    BY <2>1, <2>2
  <2>5. ASSUME NEW d \in Conn, sock'[d] # "free"
        PROVE  /\ \A i \in DOMAIN toHub'[d] : toHub'[d][i].type = "hello" =>
                    OwnHello(toHub'[d][i])
               /\ \A i \in DOMAIN toClient[d] : toClient[d][i].type # "terminal"
    <3>1. CASE d # c
      BY <2>1, <2>2, <2>5, <3>1 DEF SecondPairing
    <3>2. CASE d = c
      BY <2>1, <2>3, <2>4, <3>2 DEF SecondPairing
    <3> QED BY <3>1, <3>2
  <2> QED BY <1>1, <1>2, <1>6, <2>1, <2>5 DEF SecondPairing, OwnHello
<1>10. ASSUME NEW c \in Conn, HandleConnection(c) PROVE SecondPairing'
  <2>1. /\ UNCHANGED <<client, sock>> /\ server[c] = None /\ toHub[c] # <<>>
    BY <1>10 DEF HandleConnection, clientVars
  <2>2. OldHellos
    BY <1>10, HellosOfHello
  <2>3. 1 \in DOMAIN toHub[c] /\ toHub[c][1].type = "hello"
    BY <2>1, HelloFacts
  <2>4. sock[c] # "free" => Admits(toHub[c][1])
    <3>1. sock[c] # "free" => OwnHello(toHub[c][1])
      BY <2>3 DEF SecondPairing
    <3> QED BY <1>1, <3>1 DEF Admits, OwnHello
  <2>5. ASSUME NEW d \in Conn, sock[d] # "free", NEW i \in DOMAIN toClient'[d]
        PROVE  toClient'[d][i].type # "terminal"
    <3>1. CASE i \in DOMAIN toClient[d]
      <4>1. toClient'[d][i] = toClient[d][i]
        BY <1>10, <3>1, HelloEffects DEF Sent
      <4> QED BY <2>5, <3>1, <4>1 DEF SecondPairing
    <3>2. CASE i \notin DOMAIN toClient[d]
      <4>1. d = c /\ New(c, i)
        BY <1>10, <2>5, <3>2, HelloEffects DEF Sent, New
      <4> QED BY <1>10, <2>4, <2>5, <4>1, HelloEffects
    <3> QED BY <3>1, <3>2
  <2>6. ASSUME NEW d \in Conn, sock[d] # "free", NEW i \in DOMAIN toHub'[d],
               toHub'[d][i].type = "hello"
        PROVE  OwnHello(toHub'[d][i])
    BY <2>2, <2>6 DEF OldHellos, SecondPairing
  <2> QED BY <1>1, <1>2, <1>6, <2>1, <2>5, <2>6 DEF SecondPairing, OwnHello
<1>11. CASE \A c \in Conn : ~OnOpen(c) /\ ~HandleConnection(c)
  <2>1. OldHellos /\ OldTerminals
    BY <1>11, HellosFacts, TerminalsFacts
  <2>2. ASSUME client'.identity = client.identity, client'.pairing = client.pairing,
               client'.phase \notin {"unauthorized", "pairing"},
               \A d \in Conn : sock'[d] # "free" => sock[d] # "free"
        PROVE  SecondPairing'
    BY <1>2, <1>6, <2>1, <2>2, SecondKept
  <2>3. CASE UNCHANGED <<client, sock>>
    BY <1>1, <2>2, <2>3
  <2>4. ASSUME NEW c \in Conn, OnClose(c) PROVE SecondPairing'
    <3>1. /\ client'.identity = client.identity /\ client'.pairing = client.pairing
          /\ client'.phase \in {client.phase, "reconnecting"}
          /\ \A d \in Conn : sock'[d] # "free" => sock[d] # "free"
      BY <2>4, OnCloseFacts DEF Keeps, Freed, Retries
    <3> QED BY <1>1, <2>2, <3>1
  <2>5. ASSUME NEW c \in Conn, OnSnapshot(c) \/ OnTip(c) PROVE SecondPairing'
    <3>1. /\ client'.identity = client.identity /\ client'.pairing = client.pairing
          /\ sock' = sock /\ client'.phase \in {"syncing", "live"}
      BY <2>5, CaughtUpFacts DEF Keeps
    <3> QED BY <2>2, <3>1
  <2>6. ASSUME NEW c \in Conn, OnGap(c) PROVE SecondPairing'
    <3>1. /\ client'.identity = client.identity /\ client'.pairing = client.pairing
          /\ client'.phase \in {client.phase, "reconnecting"}
          /\ \A d \in Conn : sock'[d] # "free" => sock[d] # "free"
      BY <2>6, OnGapFacts DEF Keeps, Released, Retries
    <3> QED BY <1>1, <2>2, <3>1
  <2>7. ASSUME NEW c \in Conn PROVE ~OnTerminal(c)
    BY OnTerminalFacts DEF SecondPairing
  <2>8. ASSUME NEW c \in Conn, ReconnectTimer(c) PROVE SecondPairing'
    <3>1. CASE Opened(c)
      BY <1>7, <2>8, <3>1, ReconnectTimerFacts
    <3>2. CASE ~Opened(c)
      <4>1. /\ sock' = sock /\ client'.phase = client.phase
            /\ client'.identity = client.identity /\ client'.pairing = client.pairing
        BY <2>8, <3>2, ReconnectTimerFacts
      <4> QED BY <1>1, <2>2, <4>1
    <3> QED BY <3>1, <3>2
  <2>9. CASE ~UNCHANGED <<client, sock>>
    <3>1. \E c \in Conn : \/ OnClose(c) \/ OnSnapshot(c) \/ OnTip(c) \/ OnGap(c)
                          \/ OnTerminal(c) \/ ConnectCalled(c) \/ ReconnectTimer(c)
      BY <1>2, <1>5, <1>11, <2>9, Steps
      DEF SendCommand, RecordKey, AckReplay, Execute, Refuse, Unregister, OnAck, OnError,
          ConnectionLost, Restart, clientVars
    <3> QED BY <1>8, <2>4, <2>5, <2>6, <2>7, <2>8, <3>1
  <2> QED BY <2>3, <2>9
<1> QED BY <1>9, <1>10, <1>11

\* A client in its first pairing that keeps its flags, its devices and its
\* sockets stays in it.
LEMMA FirstKept ==
  ASSUME FirstPairing, client' = client, UNCHANGED <<sock, issued, valid>>,
         spent'["revoke"] = spent["revoke"]
  PROVE  FirstPairing'
BY DEF FirstPairing, Asked, NoSocket

\* The one socket of a client that is paired.
LEMMA FirstOpened ==
  ASSUME Types, FirstPairing, NEW c \in Conn, Opened(c), NoSocket, ~client.pairing,
         client.identity # None, client'.identity = client.identity,
         client'.pairing = client.pairing, client'.again = FALSE,
         UNCHANGED <<issued, valid>>
  PROVE  FirstPairing'
<1>1. ~client'.overlap /\ client'.timer = FALSE /\ spent' = spent
      /\ client'.phase \in {"connecting", "reconnecting"}
  BY DEF Opened, FirstPairing, NoSocket
<1>2. ~Asked'
  BY <1>1 DEF Asked
<1> QED BY <1>1, <1>2 DEF FirstPairing

\* The browser before its second pairing, and how it comes to that.
LEMMA FirstStep ==
  ASSUME Types, Next, FirstPairing, Alone, app = "web", spent'["revoke"] <= 1
  PROVE  FirstPairing' \/ SecondPairing'
<1>1. /\ ~client.overlap /\ ~client.again
      /\ client.timer \/ client.phase = "idle" => NoSocket
      /\ client.pairing => Asked
      /\ Asked => NoSocket /\ (client.timer => client.closedByUser)
      /\ spent["revoke"] = 0 =>
           ~Asked /\ issued = {client.identity} /\ valid = issued
      /\ spent["revoke"] = 1 => valid = {}
  BY DEF FirstPairing
<1>2. /\ spent["revoke"] \in {0, 1} /\ app' = app
      /\ \/ spent'["revoke"] = spent["revoke"]
         \/ spent["revoke"] = 0 /\ spent'["revoke"] = 1 /\ \E d \in Dev : RevokeDevice(d)
  BY RevocationFacts
<1>3. \A c, d \in Conn : sock[c] # "free" /\ sock[d] # "free" => c = d
  BY DEF Alone, OwnSocket
<1>4. ASSUME NEW c \in Conn, sock[c] # "free"
      PROVE  /\ ~Asked /\ ~client.pairing /\ ~client.timer /\ client.phase # "idle"
             /\ client.phase \notin {"unauthorized", "pairing"} /\ client.identity # None
             /\ client.socket = c
             /\ \A d \in Conn : d # c => sock[d] = "free"
  BY <1>1, <1>3, <1>4 DEF NoSocket, Asked, Alone, OwnSocket
<1>5. ASSUME NEW d \in Dev, RevokeDevice(d) PROVE FirstPairing'
  <2>1. /\ d \in valid /\ valid' = valid \ {d} /\ UNCHANGED <<issued, client, sock>>
    BY <1>5 DEF RevokeDevice, clientVars
  <2>2. spent'["revoke"] = spent["revoke"] + 1
    <3>1. HubTypes /\ "revoke" \in Fault
      BY DEF Types, Fault
    <3> QED BY <1>5, <3>1, HappensFacts DEF RevokeDevice
  <2>3. spent["revoke"] = 0 /\ spent'["revoke"] = 1
    BY <1>2, <2>2
  <2>4. valid' = {}
    BY <1>1, <2>1, <2>3
  <2> QED BY <1>1, <2>1, <2>3, <2>4 DEF FirstPairing, Asked, NoSocket
<1>6. CASE spent'["revoke"] = spent["revoke"]
  <2>1. ASSUME NEW c \in Conn, ConnectCalled(c) PROVE FirstPairing'
    <3>1. client.phase = "idle" /\ client.identity # None
      BY <1>1, <2>1 DEF ConnectCalled
    <3>2. NoSocket /\ ~client.pairing
      BY <1>1, <3>1 DEF Asked
    <3> QED BY <2>1, <3>1, <3>2, FirstOpened, ConnectCalledFacts
  <2>2. ASSUME NEW c \in Conn, ReconnectTimer(c) PROVE FirstPairing'
    <3>1. client.timer /\ NoSocket
      BY <1>1, <2>2, ReconnectTimerFacts
    <3>2. CASE client.closedByUser
      <4>1. /\ sock' = sock /\ client'.phase = client.phase /\ client'.timer = FALSE
            /\ client'.identity = client.identity /\ client'.pairing = client.pairing
            /\ client'.again = client.again /\ client'.overlap = client.overlap
            /\ client'.closedByUser = client.closedByUser /\ UNCHANGED <<issued, valid>>
        BY <2>2, <3>2, ReconnectTimerFacts DEF Keeps
      <4> QED BY <1>1, <1>6, <3>1, <4>1 DEF FirstPairing, Asked, NoSocket
    <3>3. CASE ~client.closedByUser
      <4>1. ~Asked
        BY <1>1, <3>1, <3>3
      <4>2. ~client.pairing /\ client.identity # None
        BY <1>1, <4>1 DEF Asked
      <4>3. client'.again = FALSE
        <5>1. client.again = FALSE
          BY <1>1 DEF Types, ClientTypes, Clients
        <5> QED BY <2>2, <5>1, ReconnectTimerFacts
      <4> QED BY <2>2, <3>1, <3>3, <4>2, <4>3, FirstOpened, ReconnectTimerFacts
    <3> QED BY <3>2, <3>3
  <2>3. ASSUME NEW d \in Dev, NEW c \in Conn, PairSucceeds(d, c) PROVE SecondPairing'
    <3>1. /\ Opened(c) /\ client.pairing /\ client'.identity = d /\ client'.pairing = FALSE
          /\ valid' = valid \cup {d}
      BY <2>3, PairSucceedsFacts
    <3>2. NoSocket /\ spent["revoke"] = 1
      BY <1>1, <1>2, <3>1
    <3> QED BY <3>1, <3>2, SecondOpened DEF NoSocket
  <2>4. ASSUME NEW c \in Conn, OnOpen(c) PROVE FirstPairing'
    <3>1. sock[c] = "dialing" /\ sock' = [sock EXCEPT ![c] = "open"]
          /\ UNCHANGED <<issued, valid, client>>
      BY <2>4 DEF OnOpen, hubVars
    <3>2. /\ ~Asked /\ ~client.pairing /\ ~client.timer /\ client.phase # "idle"
      BY <1>4, <3>1
    <3> QED BY <1>1, <1>6, <3>1, <3>2 DEF FirstPairing, Asked
  <2>5. ASSUME NEW c \in Conn, OnClose(c) PROVE FirstPairing'
    <3>1. /\ sock[c] # "free" /\ Keeps /\ Freed(c) /\ UNCHANGED <<issued, valid>>
          /\ client'.phase \in {client.phase, "reconnecting"}
      BY <2>5, OnCloseFacts DEF OnClose, hubVars, Retries
    <3>2. NoSocket'
      BY <1>4, <3>1 DEF NoSocket, Freed
    <3>3. ~client'.pairing /\ ~Asked'
      BY <1>4, <3>1 DEF Keeps, Asked
    <3> QED BY <1>1, <1>6, <3>1, <3>2, <3>3 DEF FirstPairing, Keeps
  <2>6. ASSUME NEW c \in Conn, OnSnapshot(c) \/ OnTip(c) PROVE FirstPairing'
    <3>1. /\ sock[c] = "open" /\ Keeps /\ sock' = sock /\ UNCHANGED <<issued, valid>>
          /\ client'.phase \in {"syncing", "live"} /\ client'.timer = client.timer
      BY <2>6, CaughtUpFacts DEF OnSnapshot, OnTip, hubVars
    <3>2. ~client'.pairing /\ ~client'.timer /\ ~Asked'
      BY <1>4, <3>1 DEF Keeps, Asked
    <3> QED BY <1>1, <1>6, <3>1, <3>2 DEF FirstPairing, Keeps
  <2>7. ASSUME NEW c \in Conn, OnGap(c) PROVE FirstPairing'
    <3>1. /\ sock[c] = "open" /\ Keeps /\ Released /\ UNCHANGED <<issued, valid>>
          /\ client'.phase \in {client.phase, "reconnecting"}
      BY <2>7, OnGapFacts DEF OnGap, hubVars, Retries
    <3>2. NoSocket'
      BY <1>4, <3>1 DEF NoSocket, Released
    <3>3. ~client'.pairing /\ ~Asked'
      BY <1>4, <3>1 DEF Keeps, Asked
    <3> QED BY <1>1, <1>6, <3>1, <3>2, <3>3 DEF FirstPairing, Keeps
  <2>8. ASSUME NEW c \in Conn, OnTerminal(c) PROVE FirstPairing'
    <3>1. /\ sock[c] = "open" /\ Keeps /\ Released /\ UNCHANGED <<issued, valid>>
          /\ client'.phase = "unauthorized" /\ client'.timer = client.timer
          /\ 1 \in DOMAIN toClient[c] /\ toClient[c][1].type = "terminal"
      BY <2>8, OnTerminalFacts DEF OnTerminal, hubVars
    <3>2. NoSocket'
      BY <1>4, <3>1 DEF NoSocket, Released
    <3>3. client.identity \notin valid
      BY <3>1 DEF Alone, OwnSocket
    <3>4. spent["revoke"] = 1
      BY <1>1, <1>2, <3>3
    <3>5. ~client'.timer /\ ~client'.pairing
      BY <1>4, <3>1 DEF Keeps
    <3> QED BY <1>1, <1>6, <3>1, <3>2, <3>4, <3>5 DEF FirstPairing, Keeps
  <2>9. CASE PairStarts
    <3>1. /\ client'.identity = client.identity /\ client'.again = client.again
          /\ client'.overlap = client.overlap /\ client'.closedByUser = client.closedByUser
          /\ client'.timer = client.timer /\ client'.phase = "pairing"
          /\ UNCHANGED <<sock, issued, valid>> /\ NeedsPairing
      BY <2>9, PairScreenFacts DEF PairStarts, hubVars
    <3>2. Asked
      BY <3>1 DEF NeedsPairing, Asked
    <3>3. Asked' /\ spent["revoke"] = 1 /\ NoSocket
      BY <1>1, <1>2, <3>1, <3>2 DEF Asked
    <3> QED BY <1>1, <1>6, <3>1, <3>2, <3>3 DEF FirstPairing, NoSocket
  <2>10. CASE PairFails
    <3>1. /\ client'.identity = client.identity /\ client'.again = client.again
          /\ client'.overlap = client.overlap /\ client'.closedByUser = client.closedByUser
          /\ client'.timer = client.timer /\ client'.phase = client.phase
          /\ client'.pairing = FALSE /\ UNCHANGED <<sock, issued, valid>>
      BY <2>10, PairScreenFacts DEF PairFails, hubVars
    <3>2. Asked' = Asked /\ NoSocket' = NoSocket
      BY <3>1 DEF Asked, NoSocket
    <3> QED BY <1>1, <1>6, <3>1, <3>2 DEF FirstPairing
  <2>11. CASE Forget
    <3>1. /\ client'.identity = None /\ client'.again = client.again
          /\ client'.overlap = client.overlap /\ client'.closedByUser = FALSE
          /\ client'.timer = FALSE /\ client'.phase = "idle"
          /\ client'.pairing = client.pairing
          /\ UNCHANGED <<sock, issued, valid>> /\ NeedsPairing
      BY <2>11, PairScreenFacts DEF Forget, hubVars
    <3>2. Asked
      BY <3>1 DEF NeedsPairing, Asked
    <3>3. Asked' /\ spent["revoke"] = 1 /\ NoSocket
      BY <1>1, <1>2, <3>1, <3>2 DEF Asked
    <3> QED BY <1>1, <1>6, <3>1, <3>2, <3>3 DEF FirstPairing, NoSocket
  <2>12. CASE UNCHANGED <<client, sock, issued, valid>>
    BY <1>6, <2>12, FirstKept
  <2>13. CASE ~UNCHANGED <<client, sock, issued, valid>>
    <3>1. \/ \E c \in Conn :
               \/ OnOpen(c) \/ OnClose(c) \/ OnSnapshot(c) \/ OnTip(c) \/ OnGap(c)
               \/ OnTerminal(c) \/ ConnectCalled(c) \/ ReconnectTimer(c)
               \/ \E d \in Dev : PairSucceeds(d, c)
          \/ PairStarts \/ PairFails \/ Forget \/ \E d \in Dev : RevokeDevice(d)
      BY <2>13, Steps
      DEF SendCommand, HandleConnection, RecordKey, AckReplay, Execute, Refuse, Unregister,
          OnAck, OnError, ConnectionLost, Restart, clientVars, hubVars
    <3> QED BY <1>5, <2>1, <2>2, <2>3, <2>4, <2>5, <2>6, <2>7, <2>8, <2>9, <2>10, <2>11, <3>1
  <2> QED BY <2>12, <2>13
<1> QED BY <1>2, <1>5, <1>6

\* A client that starts has one device, and no socket.
LEMMA PromptsInit == Init => Prompts
<1> SUFFICES ASSUME Init PROVE Prompts
  OBVIOUS
<1> DEFINE d == FirstDev
<1>1. /\ issued = {d} /\ valid = {d}
      /\ client = [phase |-> "idle", identity |-> d, session |-> NoSession,
                   fullResync |-> FALSE, closedByUser |-> FALSE, timer |-> FALSE,
                   pairing |-> FALSE, again |-> FALSE, socket |-> None,
                   overlap |-> FALSE, resynced |-> FALSE]
  BY DEF Init
<1>0. d \in Dev
  BY DeliveryAssumption DEF FirstDev
<1> HIDE DEF d
<1>2. \A c \in Conn : sock[c] = "free"
  BY DEF Init
<1>3. spent["revoke"] = 0 /\ d # None
  BY <1>0, DeliveryAssumption DEF Init, Fault
<1>4. Alone
  BY <1>1, <1>2 DEF Alone, OwnSocket
<1>5. FirstPairing
  BY <1>1, <1>2, <1>3 DEF FirstPairing, Asked, NoSocket
<1> QED BY <1>4, <1>5 DEF Prompts

\* Every step keeps the prompts true.
LEMMA PromptsStep == Types /\ Prompts /\ [Next]_vars => Prompts'
<1> SUFFICES ASSUME Types, Prompts, [Next]_vars PROVE Prompts'
  OBVIOUS
<1>1. CASE UNCHANGED vars
  <2>1. UNCHANGED <<issued, valid, server, toHub, toClient, client, sock, header, app, spent>>
    BY <1>1 DEF vars, hubVars, netVars, clientVars
  <2> QED BY <2>1 DEF Prompts, Alone, OwnSocket, FirstPairing, SecondPairing, Asked, NoSocket, OwnHello
<1>2. CASE Next
  <2>1. ~client'.overlap => Alone'
    BY <1>2, AloneStep, OverlapStays DEF Prompts
  <2>2. ASSUME app' = "web", spent'["revoke"] <= 1 PROVE (FirstPairing \/ SecondPairing)'
    <3>1. app = "web" /\ spent["revoke"] <= 1
      BY <2>2, RevocationFacts
    <3>2. CASE FirstPairing
      <4>1. Alone
        BY <3>2 DEF Prompts, FirstPairing
      <4> QED BY <1>2, <2>2, <3>1, <3>2, <4>1, FirstStep
    <3>3. CASE SecondPairing
      BY <1>2, <2>2, <3>1, <3>3, SecondStep
    <3> QED BY <3>1, <3>2, <3>3 DEF Prompts
  <2> QED BY <2>1, <2>2 DEF Prompts
<1> QED BY <1>1, <1>2

\* The user is asked to pair again only when the host has refused the device he
\* has, unless two sockets have existed at the same time; in the browser, not
\* then either before the host has revoked two devices.
THEOREM PromptsCorrect == Spec => []UnauthorizedIsTrue
<1>1. Init => Types /\ Prompts
  BY TypesInit, PromptsInit
<1>2. Types /\ Prompts /\ [Next]_vars => (Types /\ Prompts)'
  BY TypesStep, PromptsStep
<1>3. Types /\ Prompts => UnauthorizedIsTrue
  <2> SUFFICES ASSUME Types, Prompts, client.phase = "unauthorized", client.identity \in valid
               PROVE  client.overlap /\ (app = "web" => spent["revoke"] > 1)
    BY DEF UnauthorizedIsTrue
  <2>1. client.overlap
    BY DEF Prompts, Alone
  <2>2. ASSUME app = "web" PROVE spent["revoke"] > 1
    <3>1. spent["revoke"] \in Nat
      <4>1. "revoke" \in Fault /\ MaxEach \in Nat
        BY DeliveryAssumption DEF Fault
      <4> QED BY <4>1 DEF Types, HubTypes
    <3>2. ~(spent["revoke"] <= 1)
      BY <2>1, <2>2 DEF Prompts, FirstPairing, SecondPairing
    <3> QED BY <3>1, <3>2
  <2> QED BY <2>1, <2>2
<1> QED BY <1>1, <1>2, <1>3, PTL DEF Spec

-----------------------------------------------------------------------------
(* A command is executed at most once for one device *)

\* The outbox has been sent on a connection.
Flushes(d) ==
  /\ \/ \E x \in Cmd : SendCommand(x)
     \/ \E c \in Conn : OnSnapshot(c) \/ OnTip(c)
  /\ client'.phase = "live" /\ client'.socket = d /\ sock[d] = "open" /\ link[d] = "up"

\* The device a connection bears is an issued one.
LEMMA BearerFacts ==
  ASSUME Types, NEW c \in Conn
  PROVE  /\ Bearer(c) \in issued \cup {None}
         /\ server[c] = None /\ toHub[c] # <<>> =>
              1 \in DOMAIN toHub[c] /\ toHub[c][1].type = "hello"
         /\ server[c] # None => Bearer(c) = server[c]
         /\ server[c] = None /\ toHub[c] # <<>> => Bearer(c) = toHub[c][1].credential
<1>1. server[c] \in issued \cup {None}
  BY DEF Types, HubTypes
<1>2. server[c] = None /\ toHub[c] # <<>> =>
        /\ 1 \in DOMAIN toHub[c] /\ toHub[c][1].type = "hello"
        /\ toHub[c][1].credential \in issued \cup {None}
  BY HelloFacts
<1> QED BY <1>1, <1>2 DEF Bearer

\* The frames of a connection are as they were, or the first ones of these; or
\* the hub has taken the first; or the outbox has been sent behind them.
Shortened(d) ==
  \A i \in DOMAIN toHub'[d] : i \in DOMAIN toHub[d] /\ toHub'[d][i] = toHub[d][i]
Begun(d) ==
  /\ ReadOne(d)
  /\ toHub[d][1].type = "command" =>
       Bearer(d) = server[d] /\ (AckReplay(d) \/ Execute(d) \/ Refuse(d))
Behind(d, box) ==
  \E n \in Nat :
    /\ DOMAIN toHub[d] = 1 .. n
    /\ \A i \in DOMAIN toHub[d] : i \in DOMAIN toHub'[d] /\ toHub'[d][i] = toHub[d][i]
    /\ \A m \in DOMAIN box : n + m \in DOMAIN toHub'[d] /\ toHub'[d][n + m] = CommandFrame(box[m])
    /\ \A i \in DOMAIN toHub'[d] :
         i \in DOMAIN toHub[d] \/ \E m \in DOMAIN box : i = n + m

\* What a flush does to the frames of a connection.
LEMMA BehindFacts ==
  ASSUME Types, NEW cl, cl.socket \in Conn \cup {None}, NEW box \in Seq(Cmd),
         toHub' = Flushed(cl, box), NEW d \in Conn
  PROVE  \/ toHub'[d] = toHub[d]
         \/ /\ cl.phase = "live" /\ cl.socket = d /\ sock[d] = "open" /\ link[d] = "up"
            /\ Behind(d, box)
<1>1. toHub \in [Conn -> Seq(Frames(issued))]
  BY DEF Types, WireTypes
<1>2. CASE ~(/\ cl.phase = "live" /\ cl.socket # None /\ sock[cl.socket] = "open"
             /\ link[cl.socket] = "up")
  <2>1. toHub' = toHub
    BY <1>2 DEF Flushed
  <2> QED BY <2>1
<1>3. CASE /\ cl.phase = "live" /\ cl.socket # None /\ sock[cl.socket] = "open"
           /\ link[cl.socket] = "up"
  <2> DEFINE new == [k \in DOMAIN box |-> CommandFrame(box[k])]
             joined == toHub[cl.socket] \o new
  <2>1. cl.socket \in Conn
    BY <1>3
  <2>2. toHub[cl.socket] \in Seq(Frames(issued))
    BY <1>1, <2>1
  <2>3. /\ new \in Seq(Frames(issued)) /\ DOMAIN new = DOMAIN box
        /\ \A k \in DOMAIN new : new[k] = CommandFrame(box[k])
    <3>1. \A k \in DOMAIN box : CommandFrame(box[k]) \in Frames(issued)
      <4>1. \A k \in DOMAIN box : box[k] \in Cmd
        OBVIOUS
      <4> QED BY <4>1, FramesMade
    <3>2. \E n \in Nat : DOMAIN box = 1 .. n
      OBVIOUS
    <3> QED BY <3>1, <3>2
  <2> HIDE DEF new
  <2>4. /\ Len(toHub[cl.socket]) \in Nat /\ Len(new) \in Nat
        /\ DOMAIN toHub[cl.socket] = 1 .. Len(toHub[cl.socket])
        /\ DOMAIN new = 1 .. Len(new)
        /\ DOMAIN joined = 1 .. (Len(toHub[cl.socket]) + Len(new))
        /\ \A k \in DOMAIN toHub[cl.socket] : joined[k] = toHub[cl.socket][k]
        /\ \A k \in DOMAIN joined : k \notin DOMAIN toHub[cl.socket] =>
             joined[k] = new[k - Len(toHub[cl.socket])]
    BY <2>2, <2>3, ConcatFacts
  <2>5. toHub' = [toHub EXCEPT ![cl.socket] = joined]
    BY <1>3, <2>1 DEF Flushed, new
  <2> HIDE DEF joined
  <2>6. CASE d # cl.socket
    BY <1>1, <2>5, <2>6
  <2>7. CASE d = cl.socket
    <3>1. toHub'[d] = joined
      BY <1>1, <2>5, <2>7
    <3>2. PICK n \in Nat : n = Len(toHub[d])
      BY <2>4, <2>7
    <3>3. PICK b \in Nat : b = Len(new)
      BY <2>4
    <3>4. /\ DOMAIN toHub[d] = 1 .. n /\ DOMAIN box = 1 .. b
          /\ DOMAIN toHub'[d] = 1 .. (n + b)
          /\ \A k \in 1 .. n : toHub'[d][k] = toHub[d][k]
          /\ \A k \in 1 .. (n + b) : k \notin 1 .. n => toHub'[d][k] = new[k - n]
      BY <2>3, <2>4, <2>7, <3>1, <3>2, <3>3
    <3>5. \A m \in DOMAIN box : n + m \in DOMAIN toHub'[d] /\ toHub'[d][n + m] = CommandFrame(box[m])
      <4> TAKE m \in DOMAIN box
      <4>1. m \in 1 .. b /\ n + m \in 1 .. (n + b) /\ n + m \notin 1 .. n /\ (n + m) - n = m
        BY <3>4
      <4>2. toHub'[d][n + m] = new[m]
        BY <3>4, <4>1
      <4> QED BY <2>3, <3>4, <4>1, <4>2
    <3>6. \A i \in DOMAIN toHub'[d] : i \in DOMAIN toHub[d] \/ \E m \in DOMAIN box : i = n + m
      <4> TAKE i \in DOMAIN toHub'[d]
      <4>1. i \in 1 .. n \/ (i - n \in 1 .. b /\ i = n + (i - n))
        BY <3>4
      <4> QED BY <3>4, <4>1
    <3>7. \A i \in DOMAIN toHub[d] : i \in DOMAIN toHub'[d] /\ toHub'[d][i] = toHub[d][i]
      BY <3>4
    <3>8. Behind(d, box)
      BY <3>4, <3>5, <3>6, <3>7 DEF Behind
    <3> QED BY <1>3, <2>7, <3>8
  <2> QED BY <2>6, <2>7
<1> QED BY <1>2, <1>3

\* What a step does to them.
LEMMA QueueFacts ==
  ASSUME Types, Next, NEW d \in Conn
  PROVE  \/ Shortened(d) \/ Begun(d)
         \/ Flushes(d) /\ Behind(d, outbox')
         \/ \A k \in DOMAIN toHub'[d] : toHub'[d][k].type # "command"
<1> DEFINE Goal == \/ Shortened(d) \/ Begun(d)
                   \/ Flushes(d) /\ Behind(d, outbox')
                   \/ \A k \in DOMAIN toHub'[d] : toHub'[d][k].type # "command"
<1>1. /\ toHub \in [Conn -> Seq(Frames(issued))]
      /\ outbox \in Seq(Cmd) /\ client \in Clients(issued, session)
  BY DEF Types, WireTypes, ClientTypes
<1>2. ASSUME toHub'[d] = toHub[d] PROVE Goal
  BY <1>2 DEF Shortened
<1>3. ASSUME toHub' = Flushed(client', outbox'), outbox' \in Seq(Cmd),
             client'.socket \in Conn \cup {None},
             \/ \E x \in Cmd : SendCommand(x)
             \/ \E c \in Conn : OnSnapshot(c) \/ OnTip(c)
      PROVE  Goal
  <2>1. \/ toHub'[d] = toHub[d]
        \/ /\ client'.phase = "live" /\ client'.socket = d
           /\ sock[d] = "open" /\ link[d] = "up"
           /\ Behind(d, outbox')
    BY <1>3, BehindFacts
  <2> QED BY <1>2, <1>3, <2>1 DEF Flushes
<1>4. client.socket \in Conn \cup {None}
  BY <1>1, ClientFields DEF Typed
<1>5. ASSUME NEW x \in Cmd, SendCommand(x) PROVE Goal
  <2>1. client' = client
    BY <1>5 DEF SendCommand
  <2>2. CASE toHub' = toHub
    BY <1>2, <2>2
  <2>3. CASE toHub' = Flushed(client, outbox') /\ outbox' = Append(outbox, x)
    <3>1. outbox' \in Seq(Cmd)
      BY <1>1, <2>3
    <3> QED BY <1>3, <1>4, <1>5, <2>1, <2>3, <3>1
  <2> QED BY <1>5, <2>2, <2>3 DEF SendCommand
<1>6. ASSUME NEW c \in Conn, OnSnapshot(c) \/ OnTip(c) PROVE Goal
  <2>1. client'.socket \in Conn \cup {None}
    BY <1>4, <1>6, CaughtUpFacts
  <2>2. outbox' \in Seq(Cmd)
    <3>1. outbox' = outbox \/ outbox' = <<>>
      BY <1>6 DEF OnSnapshot, OnTip
    <3>2. <<>> \in Seq(Cmd)
      OBVIOUS
    <3> QED BY <1>1, <3>1, <3>2
  <2>3. toHub' = toHub \/ toHub' = Flushed(client', outbox')
    BY <1>6 DEF OnSnapshot, OnTip
  <2> QED BY <1>2, <1>3, <1>6, <2>1, <2>2, <2>3
<1>7. ASSUME NEW c \in Conn, AckReplay(c) \/ Execute(c) \/ Refuse(c) PROVE Goal
  <2>1. ReadOne(c) /\ server[c] \in issued
    BY <1>7, CommandEffects
  <2>2. CASE d # c
    BY <1>2, <2>1, <2>2 DEF ReadOne
  <2>3. CASE d = c
    <3>1. server[c] # None
      BY <2>1, Bounds DEF Types
    <3> QED BY <1>7, <2>1, <2>3, <3>1, BearerFacts DEF Begun
  <2> QED BY <2>2, <2>3
<1>8. ASSUME NEW c \in Conn, HandleConnection(c) PROVE Goal
  <2>1. ReadOne(c) \/ toHub' = [toHub EXCEPT ![c] = <<>>]
    BY <1>8, HelloEffects
  <2>2. CASE d # c
    BY <1>1, <1>2, <2>1, <2>2 DEF ReadOne
  <2>3. CASE d = c /\ toHub' = [toHub EXCEPT ![c] = <<>>]
    <3>1. toHub'[d] = <<>>
      BY <1>1, <2>3
    <3> QED BY <3>1
  <2>4. CASE d = c /\ ReadOne(c)
    <3>1. toHub[c][1].type = "hello"
      BY <1>8, HelloFacts DEF HandleConnection
    <3> QED BY <2>4, <3>1 DEF Begun
  <2> QED BY <2>1, <2>2, <2>3, <2>4
<1>9. CASE Restart
  <2>1. toHub'[d] = <<>>
    BY <1>9 DEF Restart
  <2> QED BY <2>1
<1>10. ASSUME NEW c \in Conn, ConnectionLost(c) PROVE Goal
  <2>1. PICK n \in (IF busy[c] THEN 1 ELSE 0) .. Len(toHub[c]) :
          toHub' = [toHub EXCEPT ![c] = SubSeq(toHub[c], 1, n)]
    BY <1>10 DEF ConnectionLost
  <2> DEFINE part == SubSeq(toHub[c], 1, n)
  <2>2. \A k \in DOMAIN part : k \in DOMAIN toHub[c] /\ part[k] = toHub[c][k]
    <3>1. toHub[c] \in Seq(Frames(issued))
      BY <1>1
    <3>2. n \in 0 .. Len(toHub[c])
      BY <2>1, <3>1
    <3> QED BY <3>1, <3>2, PrefixFacts
  <2>3. toHub' = [toHub EXCEPT ![c] = part]
    BY <2>1
  <2> HIDE DEF part
  <2> QED BY <1>1, <1>2, <2>2, <2>3 DEF Shortened
<1>11. ASSUME NEW c \in Conn, OnOpen(c) PROVE Goal
  <2> DEFINE hello == Hello(IF HeaderAuth THEN header[c] ELSE client.identity, client.identity,
                    client.session)
  <2>1. toHub' = [toHub EXCEPT ![c] = <<hello>>] /\ hello.type = "hello"
    BY <1>11 DEF OnOpen, Hello
  <2> HIDE DEF hello
  <2>2. d = c => \A k \in DOMAIN toHub'[d] : toHub'[d][k] = hello
    BY <1>1, <2>1
  <2> QED BY <1>1, <1>2, <2>1, <2>2
<1>12. CASE toHub' = toHub
  BY <1>2, <1>12
<1> QED
  BY <1>5, <1>6, <1>7, <1>8, <1>9, <1>10, <1>11, <1>12, Steps
  DEF RecordKey, Unregister, OnClose, OnAck, OnError, OnTerminal, ReconnectTimer, ConnectCalled,
      OnGap, PairSucceeds, PairStarts, PairFails, Forget, RevokeDevice, netVars

\* A command under way was so before, or has come from the outbox.
LEMMA CarriedFacts ==
  ASSUME Types, Next, NEW d \in Conn, NEW i \in DOMAIN toHub'[d], toHub'[d][i].type = "command"
  PROVE  \/ \E j \in DOMAIN toHub[d] : toHub'[d][i] = toHub[d][j]
         \/ Flushes(d) /\ \E j \in DOMAIN outbox' : toHub'[d][i].cmd = outbox'[j]
<1>1. ASSUME Shortened(d) \/ Begun(d)
      PROVE  \E j \in DOMAIN toHub[d] : toHub'[d][i] = toHub[d][j]
  BY <1>1 DEF Shortened, Begun, ReadOne
<1>2. ASSUME Behind(d, outbox')
      PROVE  \/ \E j \in DOMAIN toHub[d] : toHub'[d][i] = toHub[d][j]
             \/ \E j \in DOMAIN outbox' : toHub'[d][i].cmd = outbox'[j]
  <2>1. CASE i \in DOMAIN toHub[d]
    BY <1>2, <2>1 DEF Behind
  <2>2. CASE i \notin DOMAIN toHub[d]
    <3>1. PICK m \in DOMAIN outbox' : toHub'[d][i] = CommandFrame(outbox'[m])
      BY <1>2, <2>2 DEF Behind
    <3> QED BY <3>1 DEF CommandFrame
  <2> QED BY <2>1, <2>2
<1> QED BY <1>1, <1>2, QueueFacts

\* A promise that has been made stays made.
LEMMA UnsentFacts ==
  ASSUME Types, Next, NEW y \in Cmd, promise'[y] = Unsent
  PROVE  promise[y] = Unsent
<1>1. /\ promise \in [Cmd -> Promises(Len(log))]
      /\ Unsent # Pending /\ Unsent # Rejected /\ \A n : Unsent # Resolved(n)
  BY DEF Types, ClientTypes, Unsent, Pending, Rejected, Resolved
<1>2. ASSUME NEW x \in Cmd, SendCommand(x) PROVE promise[y] = Unsent
  <2>1. PICK p \in {Rejected, Pending} : promise' = [promise EXCEPT ![x] = p]
    BY <1>2 DEF SendCommand
  <2> QED BY <1>1, <2>1
<1>3. ASSUME NEW c \in Conn, OnAck(c) \/ OnError(c) PROVE promise[y] = Unsent
  <2>1. PICK x, outcome : outcome # Unsent /\ Settle(x, outcome)
    BY <1>1, <1>3 DEF OnAck, OnError
  <2>2. promise' = promise \/ promise' = [promise EXCEPT ![x] = outcome]
    BY <2>1 DEF Settle
  <2> QED BY <1>1, <2>1, <2>2
<1>4. CASE promise' = promise
  BY <1>4
<1> QED
  BY <1>2, <1>3, <1>4, Steps
  DEF HandleConnection, RecordKey, AckReplay, Execute, Refuse, Unregister, OnOpen, OnClose,
      OnSnapshot, OnTip, OnTerminal, ReconnectTimer, ConnectCalled, OnGap, ConnectionLost,
      PairSucceeds, PairStarts, PairFails, Forget, Restart, RevokeDevice, clientVars

\* What the log gets.
LEMMA LogFacts ==
  ASSUME Types, Next
  PROVE  \/ log' = log
         \/ \E c \in Conn :
              /\ Execute(c) /\ server[c] \in issued /\ 1 \in DOMAIN toHub[c]
              /\ toHub[c][1].type = "command" /\ toHub[c][1].cmd \in Cmd
              /\ busy[c] /\ applied' = applied
              /\ log' = Append(log, [session |-> session, dev |-> server[c],
                                     cmd |-> toHub[c][1].cmd])
<1>1. ASSUME NEW c \in Conn, Execute(c), log' # log
      PROVE  /\ Execute(c) /\ server[c] \in issued /\ 1 \in DOMAIN toHub[c]
             /\ toHub[c][1].type = "command" /\ toHub[c][1].cmd \in Cmd
             /\ busy[c] /\ applied' = applied
             /\ log' = Append(log, [session |-> session, dev |-> server[c],
                                    cmd |-> toHub[c][1].cmd])
  <2>1. /\ server[c] \in issued /\ 1 \in DOMAIN toHub[c]
        /\ toHub[c][1].type = "command" /\ toHub[c][1].cmd \in Cmd
        /\ Entry(c) = [session |-> session, dev |-> server[c], cmd |-> toHub[c][1].cmd]
    BY <1>1, CommandFacts DEF Execute
  <2> QED BY <1>1, <2>1 DEF Execute
<1>2. log' = log \/ \E c \in Conn : Execute(c)
  BY Steps
  DEF SendCommand, HandleConnection, RecordKey, AckReplay, Refuse, Unregister, OnOpen, OnClose,
      OnSnapshot, OnTip, OnAck, OnError, OnTerminal, ReconnectTimer, ConnectCalled, OnGap,
      ConnectionLost, PairSucceeds, PairStarts, PairFails, Forget, Restart, RevokeDevice,
      hubVars
<1> QED BY <1>1, <1>2

\* A command that has not been sent stays nowhere.
LEMMA FreshStep ==
  ASSUME Types, Box', Fresh, Next
  PROVE  Fresh'
<1> SUFFICES ASSUME NEW x \in Cmd, promise'[x] = Unsent
             PROVE  /\ \A i \in DOMAIN log' : log'[i].cmd # x
                    /\ \A c \in Conn : \A k \in DOMAIN toHub'[c] :
                         toHub'[c][k].type = "command" => toHub'[c][k].cmd # x
  BY DEF Fresh
<1>1. promise[x] = Unsent
  BY UnsentFacts
<1>2. /\ \A i \in DOMAIN log : log[i].cmd # x
      /\ \A c \in Conn : \A k \in DOMAIN toHub[c] :
           toHub[c][k].type = "command" => toHub[c][k].cmd # x
  BY <1>1 DEF Fresh
<1>3. \A i \in DOMAIN log' : log'[i].cmd # x
  <2>1. CASE log' = log
    BY <1>2, <2>1
  <2>2. CASE \E y, d, s : y # x /\ log' = Append(log, [session |-> s, dev |-> d, cmd |-> y])
    <3>1. PICK y, d, s : y # x /\ log' = Append(log, [session |-> s, dev |-> d, cmd |-> y])
      BY <2>2
    <3>2. LogGrows
      BY <3>1 DEF LogGrows
    <3> DEFINE e == [session |-> s, dev |-> d, cmd |-> y]
    <3>3. log' = Append(log, e) /\ e.cmd # x
      BY <3>1
    <3> HIDE DEF e
    <3>4. \A i \in DOMAIN log' : (i \in DOMAIN log /\ log'[i] = log[i]) \/ log'[i] = e
      <4>1. /\ Len(log) \in Nat /\ DOMAIN log = 1 .. Len(log)
            /\ Len(log') \in {Len(log), Len(log) + 1} /\ DOMAIN log' = 1 .. Len(log')
            /\ \A i \in DOMAIN log : i \in DOMAIN log' /\ log'[i] = log[i]
            /\ log'[Len(log) + 1] = e
        BY <3>2, <3>3, GrowthFacts
      <4> TAKE i \in DOMAIN log'
      <4>2. i \in DOMAIN log \/ i = Len(log) + 1
        <5>1. PICK n \in Nat : n = Len(log)
          BY <4>1
        <5>2. PICK m \in {n, n + 1} : m = Len(log')
          BY <4>1, <5>1
        <5>3. DOMAIN log = 1 .. n /\ i \in 1 .. m
          BY <4>1, <5>1, <5>2
        <5>4. i \in 1 .. n \/ i = n + 1
          BY <5>2, <5>3
        <5> QED BY <5>1, <5>3, <5>4
      <4> QED BY <4>1, <4>2
    <3> QED BY <1>2, <3>3, <3>4
  <2>3. log' = log \/ \E c \in Conn :
          /\ 1 \in DOMAIN toHub[c] /\ toHub[c][1].type = "command" /\ toHub[c][1].cmd \in Cmd
          /\ log' = Append(log, [session |-> session, dev |-> server[c],
                                 cmd |-> toHub[c][1].cmd])
    BY LogFacts
  <2> QED BY <1>2, <2>1, <2>2, <2>3
<1>4. ASSUME NEW c \in Conn, NEW k \in DOMAIN toHub'[c], toHub'[c][k].type = "command"
      PROVE  toHub'[c][k].cmd # x
  <2>1. CASE \E j \in DOMAIN toHub[c] : toHub'[c][k] = toHub[c][j]
    BY <1>2, <1>4, <2>1
  <2>2. CASE \E j \in DOMAIN outbox' : toHub'[c][k].cmd = outbox'[j]
    <3>1. PICK j \in DOMAIN outbox' : toHub'[c][k].cmd = outbox'[j]
      BY <2>2
    <3>2. promise'[outbox'[j]] = Pending
      BY DEF Box, OutboxMatchesPromises
    <3> QED BY <3>1, <3>2 DEF Unsent, Pending
  <2> QED BY <1>4, <2>1, <2>2, CarriedFacts
<1> QED BY <1>3, <1>4

\* A full resync that is due has been asked for in this step or before it.
LEMMA ResyncFacts ==
  ASSUME Types, Next
  PROVE  /\ client.resynced => client'.resynced
         /\ client'.fullResync => client.fullResync \/ client'.resynced
<1> DEFINE Same == client'.resynced = client.resynced
           Goal == /\ client.resynced => client'.resynced
                   /\ client'.fullResync => client.fullResync \/ client'.resynced
<1> SUFFICES Goal
  OBVIOUS
<1>1. client \in Clients(issued, session) /\ client.fullResync \in BOOLEAN
  BY ClientFields DEF Types, ClientTypes, Typed
<1>2. ASSUME NEW c \in Conn, OnGap(c) PROVE Goal
  <2>1. PICK third \in BOOLEAN :
          /\ client'.fullResync = (client.fullResync \/ third)
          /\ client'.resynced = (client.resynced \/ third)
    BY <1>2, OnGapFacts
  <2> QED BY <2>1
<1>3. ASSUME NEW c \in Conn, \/ ConnectCalled(c) \/ ReconnectTimer(c)
                             \/ \E d \in Dev : PairSucceeds(d, c)
      PROVE  Goal
  BY <1>3, ConnectCalledFacts, ReconnectTimerFacts, PairSucceedsFacts DEF Opened
<1>4. ASSUME NEW c \in Conn, OnClose(c) \/ OnSnapshot(c) \/ OnTip(c) \/ OnTerminal(c)
      PROVE  Goal
  BY <1>4, OnCloseFacts, CaughtUpFacts, OnTerminalFacts
<1>5. CASE PairStarts \/ PairFails \/ Forget
  BY <1>5, PairScreenFacts
<1>6. CASE client' = client
  BY <1>6
<1> HIDE DEF Goal
<1> QED
  BY <1>2, <1>3, <1>4, <1>5, <1>6, Steps
  DEF SendCommand, HandleConnection, RecordKey, AckReplay, Execute, Refuse, Unregister, OnOpen,
      OnAck, OnError, ConnectionLost, Restart, RevokeDevice, clientVars

\* A session goes on, with its keys, until the daemon starts again.
LEMMA SessionFacts ==
  ASSUME Types, Next
  PROVE  \/ session' = session /\ applied \subseteq applied'
         \/ Restart /\ session' = session + 1 /\ log' = log
<1>1. ASSUME NEW c \in Conn, RecordKey(c) \/ AckReplay(c) \/ Execute(c) \/ Refuse(c)
      PROVE  session' = session /\ applied \subseteq applied'
  BY <1>1 DEF RecordKey, AckReplay, Execute, Refuse
<1>2. CASE Restart
  BY <1>2 DEF Restart
<1>3. CASE UNCHANGED <<session, applied>>
  BY <1>3
<1> QED
  BY <1>1, <1>2, <1>3, Steps
  DEF SendCommand, HandleConnection, Unregister, OnOpen, OnClose, OnSnapshot, OnTip, OnAck,
      OnError, OnTerminal, ReconnectTimer, ConnectCalled, OnGap, ConnectionLost, PairSucceeds,
      PairStarts, PairFails, Forget, RevokeDevice, hubVars

\* An entry of the log after a step was there before it, or is that of a command
\* the hub has just executed.
LEMMA EntryFacts ==
  ASSUME Types, Next
  PROVE  \/ log' = log
         \/ /\ DOMAIN log \subseteq DOMAIN log' /\ session' = session
            /\ \A i \in DOMAIN log : log'[i] = log[i]
            /\ \E c \in Conn : \E n \in DOMAIN log' :
                 /\ DOMAIN log' = DOMAIN log \cup {n} /\ \A i \in DOMAIN log : i < n
                 /\ Execute(c) /\ server[c] \in issued /\ 1 \in DOMAIN toHub[c]
                 /\ toHub[c][1].type = "command" /\ toHub[c][1].cmd \in Cmd
                 /\ busy[c] /\ applied' = applied /\ log'[n] = Entry(c)
                 /\ log'[n].session = session /\ log'[n].dev = server[c]
                 /\ log'[n].cmd = toHub[c][1].cmd
<1>1. CASE log' = log
  BY <1>1
<1>2. ASSUME NEW c \in Conn, Execute(c), server[c] \in issued, 1 \in DOMAIN toHub[c],
             toHub[c][1].type = "command", toHub[c][1].cmd \in Cmd,
             busy[c], applied' = applied,
             log' = Append(log, [session |-> session, dev |-> server[c],
                                 cmd |-> toHub[c][1].cmd])
      PROVE  /\ DOMAIN log \subseteq DOMAIN log' /\ session' = session
             /\ \A i \in DOMAIN log : log'[i] = log[i]
             /\ \E n \in DOMAIN log' :
                 /\ DOMAIN log' = DOMAIN log \cup {n} /\ \A i \in DOMAIN log : i < n
                 /\ log'[n] = Entry(c)
                 /\ log'[n].session = session /\ log'[n].dev = server[c]
                 /\ log'[n].cmd = toHub[c][1].cmd
  <2> DEFINE e == [session |-> session, dev |-> server[c], cmd |-> toHub[c][1].cmd]
  <2>1. log' = Append(log, e)
    BY <1>2
  <2>2. /\ e.session = session /\ e.dev = server[c] /\ e.cmd = toHub[c][1].cmd
        /\ e = Entry(c)
    BY <1>2, CommandFacts
  <2>3. session' = session
    BY <1>2 DEF Execute
  <2> HIDE DEF e
  <2>4. LogGrows
    BY <2>1 DEF LogGrows
  <2>5. /\ Len(log) \in Nat /\ DOMAIN log = 1 .. Len(log)
        /\ Len(log') \in {Len(log), Len(log) + 1} /\ DOMAIN log' = 1 .. Len(log')
        /\ \A i \in DOMAIN log : i \in DOMAIN log' /\ log'[i] = log[i]
        /\ Len(log) + 1 \in DOMAIN log' /\ log'[Len(log) + 1] = e
    BY <2>1, <2>4, GrowthFacts
  <2>6. DOMAIN log' = DOMAIN log \cup {Len(log) + 1}
    <3>1. PICK n \in Nat : n = Len(log)
      BY <2>5
    <3>2. PICK m \in {n, n + 1} : m = Len(log')
      BY <2>5, <3>1
    <3>3. DOMAIN log = 1 .. n /\ DOMAIN log' = 1 .. m /\ n + 1 \in 1 .. m
      BY <2>5, <3>1, <3>2
    <3>4. m = n + 1
      BY <3>2, <3>3
    <3>5. 1 .. (n + 1) = (1 .. n) \cup {n + 1}
      OBVIOUS
    <3> QED BY <3>1, <3>3, <3>4, <3>5
  <2>7. \A i \in DOMAIN log : i < Len(log) + 1
    <3>1. PICK n \in Nat : n = Len(log)
      BY <2>5
    <3>2. DOMAIN log = 1 .. n
      BY <2>5, <3>1
    <3>3. \A i \in 1 .. n : i < n + 1
      OBVIOUS
    <3> QED BY <3>1, <3>2, <3>3
  <2> QED BY <1>2, <2>2, <2>3, <2>5, <2>6, <2>7
<1> QED BY <1>1, <1>2, LogFacts

\* The keys of a session stay those of its log.
LEMMA KnownStep ==
  ASSUME Types, Known, Handlers, Next
  PROVE  Known'
<1> SUFFICES ASSUME NEW i \in DOMAIN log', log'[i].session = session'
             PROVE  <<log'[i].dev, log'[i].cmd>> \in applied'
  BY DEF Known
<1>1. session \in Nat /\ log \in Seq(Entries(issued, session))
  BY Bounds DEF Types, HubTypes
<1>2. CASE Restart
  <2>1. session' = session + 1 /\ log' = log
    BY <1>2 DEF Restart
  <2>2. log[i] \in Entries(issued, session)
    BY <1>1, <2>1
  <2>3. log[i].session \in 1 .. session
    BY <2>2 DEF Entries
  <2> QED BY <1>1, <2>1, <2>3
<1>3. CASE session' = session /\ applied \subseteq applied'
  <2>1. CASE i \in DOMAIN log /\ log'[i] = log[i]
    BY <1>3, <2>1 DEF Known
  <2>2. CASE <<log'[i].dev, log'[i].cmd>> \in applied'
    BY <2>2
  <2>3. \/ i \in DOMAIN log /\ log'[i] = log[i]
        \/ <<log'[i].dev, log'[i].cmd>> \in applied'
    <3>1. CASE log' = log
      BY <3>1
    <3>2. CASE log' # log
      <4>1. \A k \in DOMAIN log : log'[k] = log[k]
        BY <3>2, EntryFacts
      <4>2. PICK c \in Conn, n \in DOMAIN log' :
              /\ DOMAIN log' = DOMAIN log \cup {n}
              /\ busy[c] /\ applied' = applied
              /\ log'[n].dev = server[c] /\ log'[n].cmd = toHub[c][1].cmd
        BY <3>2, EntryFacts
      <4>3. <<log'[n].dev, log'[n].cmd>> \in applied'
        BY <4>2, CommandFacts DEF Handlers
      <4> QED BY <4>1, <4>2, <4>3
    <3> QED BY <3>1, <3>2
  <2> QED BY <2>1, <2>2, <2>3
<1> QED BY <1>2, <1>3, SessionFacts

\* A handler's command is neither another one's nor in the log.
LEMMA HandlersStep ==
  ASSUME Types, Known, Handlers, Next
  PROVE  Handlers'
<1>1. CASE Restart
  <2>1. busy' = [c \in Conn |-> FALSE]
    BY <1>1 DEF Restart
  <2> QED BY <2>1 DEF Handlers
<1>2. CASE ~Restart
  <2>1. applied \subseteq applied' /\ session' = session
    BY <1>2, SessionFacts
  <2>2. \A c \in Conn :
          /\ busy'[c] => (busy[c] \/ RecordKey(c)) /\ At(c)' = At(c) /\ Entry(c)' = Entry(c)
          /\ busy[c] => busy'[c] \/ Execute(c) \/ Refuse(c)
    BY <1>2, HandlersMove
  <2>3. ASSUME NEW c \in Conn, RecordKey(c)
        PROVE  /\ At(c) \notin applied /\ At(c) \in applied' /\ log' = log
               /\ \A d \in Conn : busy'[d] => d = c \/ busy[d]
    <3>1. busy \in [Conn -> BOOLEAN]
      BY DEF Types, HubTypes
    <3> QED BY <2>3, <3>1 DEF RecordKey, Seen
  <2>4. \A c \in Conn : NextCommand(c) \/ busy[c] =>
          /\ At(c) = <<server[c], toHub[c][1].cmd>>
          /\ Entry(c) = [session |-> session, dev |-> server[c], cmd |-> toHub[c][1].cmd]
    BY CommandFacts
  <2>5. ASSUME NEW c \in Conn, busy'[c]
        PROVE  At(c)' \in applied' /\ \A i \in DOMAIN log' : log'[i] # Entry(c)'
    <3>1. At(c)' = At(c) /\ Entry(c)' = Entry(c)
      BY <2>2, <2>5
    <3>2. CASE RecordKey(c)
      <4>1. NextCommand(c)
        BY <3>2 DEF RecordKey
      <4>2. ASSUME NEW i \in DOMAIN log, log[i] = Entry(c) PROVE FALSE
        <5>1. log[i].session = session /\ At(c) = <<log[i].dev, log[i].cmd>>
          BY <2>4, <4>1, <4>2
        <5> QED BY <2>3, <3>2, <5>1 DEF Known
      <4> QED BY <2>3, <3>1, <3>2, <4>2
    <3>3. CASE busy[c]
      <4>1. At(c) \in applied' /\ \A i \in DOMAIN log : log[i] # Entry(c)
        BY <2>1, <3>3 DEF Handlers
      <4>2. CASE log' = log
        BY <3>1, <4>1, <4>2
      <4>3. CASE log' # log
        <5>1. PICK e \in Conn, n \in DOMAIN log' :
                /\ DOMAIN log' = DOMAIN log \cup {n}
                /\ Execute(e) /\ busy[e] /\ log'[n] = Entry(e)
          BY <4>3, EntryFacts
        <5>2. \A i \in DOMAIN log : log'[i] = log[i]
          BY <4>3, EntryFacts
        <5>3. Entry(e) # Entry(c)
          <6> SUFFICES ASSUME Entry(e) = Entry(c) PROVE FALSE
            OBVIOUS
          <6>1. At(e) = At(c)
            BY <2>4, <3>3, <5>1
          <6>2. e = c
            BY <3>3, <5>1, <6>1 DEF Handlers
          <6>3. busy \in [Conn -> BOOLEAN]
            BY DEF Types, HubTypes
          <6> QED BY <2>5, <5>1, <6>2, <6>3 DEF Execute
        <5> QED BY <3>1, <4>1, <5>1, <5>2, <5>3
      <4> QED BY <4>2, <4>3
    <3> QED BY <2>2, <2>5, <3>2, <3>3
  <2>6. ASSUME NEW c \in Conn, NEW d \in Conn, busy'[c], busy'[d], At(c)' = At(d)'
        PROVE  c = d
    <3>1. At(c) = At(d) /\ (busy[c] \/ RecordKey(c)) /\ (busy[d] \/ RecordKey(d))
      BY <2>2, <2>6
    <3>2. CASE busy[c] /\ busy[d]
      BY <3>1, <3>2 DEF Handlers
    <3>3. CASE RecordKey(c)
      BY <2>3, <2>6, <3>1, <3>3 DEF Handlers
    <3>4. CASE RecordKey(d)
      BY <2>3, <2>6, <3>1, <3>4 DEF Handlers
    <3> QED BY <3>1, <3>2, <3>3, <3>4
  <2> QED BY <2>5, <2>6 DEF Handlers
<1> QED BY <1>1, <1>2

\* A command that the hub has executed for a device is not executed for it again:
\* the keys see to it in one session, and from one to the next what is under way.
LEMMA OnceStep ==
  ASSUME Types, Known, Handlers, NotAgain, OncePerDevice, Next
  PROVE  OncePerDevice'
<1>1. ASSUME NEW i \in DOMAIN log, NEW c \in Conn, server[c] \in issued,
             1 \in DOMAIN toHub[c], toHub[c][1].type = "command", busy[c],
             log[i].dev = server[c], log[i].cmd = toHub[c][1].cmd
      PROVE  log[i].session # session /\ (client.resynced \/ client.overlap)
  <2>1. log[i].session # session
    <3>1. log \in Seq(Entries(issued, session))
      BY DEF Types, HubTypes
    <3>2. log[i] \in Entries(issued, session)
      BY <3>1
    <3>3. log[i] = [session |-> log[i].session, dev |-> log[i].dev, cmd |-> log[i].cmd]
      BY <3>2 DEF Entries
    <3>4. Entry(c) = [session |-> session, dev |-> server[c], cmd |-> toHub[c][1].cmd]
      BY <1>1, CommandFacts
    <3>5. log[i] # Entry(c)
      BY <1>1 DEF Handlers
    <3> QED BY <1>1, <3>3, <3>4, <3>5
  <2>2. ASSUME ~client.resynced, ~client.overlap PROVE FALSE
    <3>2. Carried(c)
      BY <2>2 DEF NotAgain
    <3>3. Bearer(c) = server[c]
      BY <1>1, Bounds DEF Bearer, Types
    <3>4. log[i].session < session
      <4>1. log \in Seq(Entries(issued, session)) /\ session \in Nat
        BY Bounds DEF Types, HubTypes
      <4>2. log[i] \in Entries(issued, session)
        BY <4>1
      <4>3. log[i].session \in 1 .. session
        BY <4>2 DEF Entries
      <4> QED BY <2>1, <4>1, <4>3
    <3> QED BY <1>1, <3>2, <3>3, <3>4 DEF Carried
  <2> QED BY <2>1, <2>2
<1>2. client.resynced \/ client.overlap => client'.resynced \/ client'.overlap
  BY OverlapStays, ResyncFacts
<1> SUFFICES ASSUME NEW i \in DOMAIN log', NEW j \in DOMAIN log', i # j,
                    log'[i].cmd = log'[j].cmd, log'[i].dev = log'[j].dev
             PROVE  log'[i].session # log'[j].session /\ (client.resynced \/ client.overlap)
  BY <1>2 DEF OncePerDevice
<1>3. CASE i \in DOMAIN log /\ j \in DOMAIN log /\ log'[i] = log[i] /\ log'[j] = log[j]
  BY <1>3 DEF OncePerDevice
<1>4. CASE log' = log
  BY <1>3, <1>4
<1>5. CASE log' # log
  <2>1. PICK c \in Conn, n \in DOMAIN log' :
          /\ DOMAIN log' = DOMAIN log \cup {n}
          /\ server[c] \in issued /\ 1 \in DOMAIN toHub[c]
          /\ toHub[c][1].type = "command" /\ busy[c]
          /\ log'[n].session = session /\ log'[n].dev = server[c]
          /\ log'[n].cmd = toHub[c][1].cmd
    BY <1>5, EntryFacts
  <2>2. \A k \in DOMAIN log : log'[k] = log[k]
    BY <1>5, EntryFacts
  <2>3. ASSUME NEW k \in DOMAIN log, log'[k].cmd = log'[n].cmd, log'[k].dev = log'[n].dev
        PROVE  log[k].session # session /\ (client.resynced \/ client.overlap)
    BY <1>1, <2>1, <2>2, <2>3
  <2>4. CASE i = n
    BY <2>1, <2>2, <2>3, <2>4
  <2>5. CASE j = n
    BY <2>1, <2>2, <2>3, <2>5
  <2>6. CASE i # n /\ j # n
    BY <1>3, <2>1, <2>2, <2>6
  <2> QED BY <2>4, <2>5, <2>6
<1> QED BY <1>4, <1>5

\* A connection that still carries a command bears the device it bore.
LEMMA BearerKept ==
  ASSUME Types, Types', Next, NEW d \in Conn, NEW k \in DOMAIN toHub'[d],
         toHub'[d][k].type = "command"
  PROVE  Bearer(d)' = Bearer(d)
<1>1. toHub \in [Conn -> Seq(Frames(issued))] /\ toHub' \in [Conn -> Seq(Frames(issued'))]
  BY DEF Types, WireTypes
<1>2. server \in [Conn -> issued \cup {None}]
  BY DEF Types, HubTypes
<1>3. CASE server'[d] = server[d] /\ server[d] # None
  BY <1>3 DEF Bearer
<1>4. CASE server'[d] = None /\ server[d] = None
  <2>1. toHub'[d] # <<>>
    OBVIOUS
  <2>2. 1 \in DOMAIN toHub'[d] /\ toHub'[d][1].type = "hello"
    <3>1. toHub'[d] \in Seq(Frames(issued'))
      BY <1>1
    <3>2. 1 \in DOMAIN toHub'[d]
      BY <2>1, <3>1, TailFacts
    <3> QED BY <1>4, <3>2 DEF Types, HubEnd
  <2>3. \E j \in DOMAIN toHub[d] : toHub'[d][1] = toHub[d][j]
    <3>1. ASSUME NEW c \in Conn, OnOpen(c) PROVE toHub'[d] = toHub[d]
      <4> DEFINE hello == Hello(IF HeaderAuth THEN header[c] ELSE client.identity, client.identity,
                    client.session)
      <4>1. toHub' = [toHub EXCEPT ![c] = <<hello>>] /\ hello.type = "hello"
        BY <3>1 DEF OnOpen, Hello
      <4> HIDE DEF hello
      <4>2. d # c
        BY <1>1, <4>1
      <4> QED BY <1>1, <4>1, <4>2
    <3>2. CASE \A c \in Conn : ~OnOpen(c)
      BY <2>2, <3>2, HellosFacts DEF OldHellos
    <3> QED BY <2>2, <3>1, <3>2
  <2>4. PICK j \in DOMAIN toHub[d] : toHub'[d][1] = toHub[d][j]
    BY <2>3
  <2>5. j = 1 /\ toHub[d] # <<>>
    BY <2>2, <2>4 DEF Types, HubEnd
  <2>6. toHub'[d][1] = toHub[d][1]
    BY <2>4, <2>5
  <2> QED BY <1>4, <2>1, <2>5, <2>6 DEF Bearer
<1>5. ASSUME NEW c \in Conn, HandleConnection(c), server'[d] # server[d]
      PROVE  Bearer(d)' = Bearer(d)
  <2>1. /\ Admits(toHub[c][1]) /\ server' = [server EXCEPT ![c] = toHub[c][1].credential]
    BY <1>5, HelloEffects
  <2>2. d = c /\ server'[d] = toHub[d][1].credential
    BY <1>2, <1>5, <2>1
  <2>3. server[d] = None /\ toHub[d] # <<>>
    BY <1>5, <2>2 DEF HandleConnection
  <2>4. toHub[d][1].credential # None
    BY <2>1, <2>2, Bounds DEF Admits, Types, HubTypes
  <2> QED BY <2>2, <2>3, <2>4 DEF Bearer
<1>6. ASSUME NEW c \in Conn, Unregister(c), server'[d] # server[d]
      PROVE  FALSE
  BY <1>1, <1>2, <1>6 DEF Unregister, netVars
<1>7. ~Restart
  BY <1>1 DEF Restart
<1>8. \/ server' = server
      \/ \E c \in Conn : HandleConnection(c) \/ Unregister(c)
  <2>1. ASSUME NEW c \in Conn, RecordKey(c) \/ AckReplay(c) \/ Execute(c) \/ Refuse(c)
        PROVE  server' = server
    BY <2>1 DEF RecordKey, AckReplay, Execute, Refuse
  <2> QED
    BY <1>7, <2>1, Steps
    DEF SendCommand, OnOpen, OnClose, OnSnapshot, OnTip, OnAck, OnError, OnTerminal,
        ReconnectTimer, ConnectCalled, OnGap, ConnectionLost, PairSucceeds, PairStarts,
        PairFails, Forget, RevokeDevice, hubVars
<1>9. server'[d] = server[d] \/ \E c \in Conn : HandleConnection(c) /\ server'[d] # server[d]
  BY <1>6, <1>8
<1> QED BY <1>3, <1>4, <1>5, <1>9

\* What a step makes of the device the client is and of the session it has met.
LEMMA MeetingFacts ==
  ASSUME Types, Next
  PROVE  \/ /\ client'.identity = client.identity
            /\ \/ client'.session = client.session
               \/ client.fullResync /\ client'.session = NoSession
         \/ /\ client'.identity = client.identity
            /\ \E c \in Conn : OnSnapshot(c) /\ client'.session = toClient[c][1].session
         \/ client'.identity \notin issued
<1> DEFINE Same == /\ client'.identity = client.identity
                   /\ \/ client'.session = client.session
                      \/ client.fullResync /\ client'.session = NoSession
<1>1. CASE client' = client
  BY <1>1
<1>2. ASSUME NEW c \in Conn, Opened(c)
      PROVE  \/ client'.session = client.session
             \/ client.fullResync /\ client'.session = NoSession
  BY <1>2 DEF Opened
<1>3. ASSUME NEW c \in Conn, ConnectCalled(c) PROVE Same
  BY <1>2, <1>3, ConnectCalledFacts
<1>4. ASSUME NEW c \in Conn, ReconnectTimer(c) PROVE Same
  BY <1>2, <1>4, ReconnectTimerFacts
<1>5. ASSUME NEW c \in Conn, NEW d \in Dev, PairSucceeds(d, c)
      PROVE  client'.identity \notin issued
  BY <1>2, <1>5, PairSucceedsFacts
<1>6. ASSUME NEW c \in Conn, OnClose(c) PROVE Same
  BY <1>6, OnCloseFacts DEF Keeps, Retries
<1>7. ASSUME NEW c \in Conn, OnTip(c) PROVE Same
  BY <1>7, CaughtUpFacts DEF Keeps
<1>8. ASSUME NEW c \in Conn, OnSnapshot(c)
      PROVE  /\ client'.identity = client.identity
             /\ client'.session = toClient[c][1].session
  BY <1>8, CaughtUpFacts DEF Keeps
<1>9. ASSUME NEW c \in Conn, OnTerminal(c) PROVE Same
  BY <1>9, OnTerminalFacts DEF Keeps
<1>10. CASE PairStarts \/ PairFails
  BY <1>10, PairScreenFacts
<1>11. CASE Forget
  <2>1. None \notin issued
    BY Bounds DEF Types
  <2> QED BY <1>11, <2>1, PairScreenFacts
<1>12. ASSUME NEW c \in Conn, OnGap(c)
       PROVE  client'.identity = client.identity /\ client'.session = client.session
  BY <1>12, OnGapFacts DEF Keeps, Retries
<1>13. \/ client' = client
       \/ \E c \in Conn :
            \/ OnClose(c) \/ OnSnapshot(c) \/ OnTip(c) \/ OnTerminal(c) \/ OnGap(c)
            \/ ConnectCalled(c) \/ ReconnectTimer(c) \/ \E d \in Dev : PairSucceeds(d, c)
       \/ PairStarts \/ PairFails \/ Forget
  BY Steps
  DEF SendCommand, HandleConnection, RecordKey, AckReplay, Execute, Refuse, Unregister, OnOpen,
      OnAck, OnError, ConnectionLost, Restart, RevokeDevice, clientVars
<1> QED
  BY <1>1, <1>3, <1>4, <1>5, <1>6, <1>7, <1>8, <1>9, <1>10, <1>11, <1>12, <1>13

\* A command in the outbox was there before, unless it has just been issued.
LEMMA OutboxFacts ==
  ASSUME Types, Next, NEW y, Contains(outbox', y)
  PROVE  \/ Contains(outbox, y)
         \/ y \in Cmd /\ promise[y] = Unsent /\ client' = client
<1>1. outbox \in Seq(Cmd)
  BY DEF Types, ClientTypes
<1>2. ASSUME NEW x \in Cmd, SendCommand(x)
      PROVE  \/ Contains(outbox, y)
             \/ y \in Cmd /\ promise[y] = Unsent /\ client' = client
  <2>1. CASE outbox' = outbox
    BY <2>1 DEF Contains
  <2>2. CASE outbox' = Append(outbox, x)
    <3>1. /\ Len(outbox) \in Nat /\ Len(outbox') = Len(outbox) + 1
          /\ DOMAIN outbox = 1 .. Len(outbox)
          /\ \A i \in DOMAIN outbox : outbox'[i] = outbox[i]
          /\ outbox'[Len(outbox) + 1] = x
      BY <1>1, <2>2, AppendFacts
    <3>2. PICK i \in 1 .. Len(outbox') : outbox'[i] = y
      BY DEF Contains
    <3>3. CASE i = Len(outbox) + 1
      BY <1>2, <3>1, <3>2, <3>3 DEF SendCommand
    <3>4. CASE i # Len(outbox) + 1
      <4>1. i \in 1 .. Len(outbox)
        BY <3>1, <3>2, <3>4
      <4>2. outbox[i] = y
        BY <3>1, <3>2, <4>1
      <4> QED BY <4>1, <4>2 DEF Contains
    <3> QED BY <3>3, <3>4
  <2> QED BY <1>2, <2>1, <2>2 DEF SendCommand
<1>3. ASSUME NEW c \in Conn, OnAck(c) \/ OnError(c) PROVE Contains(outbox, y)
  <2>1. PICK x, outcome : Settle(x, outcome)
    BY <1>3 DEF OnAck, OnError
  <2>2. CASE outbox' = outbox
    BY <2>2
  <2>3. CASE outbox' = Without(outbox, x)
    <3>1. PICK i \in DOMAIN outbox' : outbox'[i] = y
      BY DEF Contains
    <3>2. PICK j \in DOMAIN outbox : outbox'[i] = outbox[j]
      BY <1>1, <2>3, <3>1, WithoutFacts
    <3>3. j \in 1 .. Len(outbox)
      BY <1>1, <3>2
    <3> QED BY <3>1, <3>2, <3>3 DEF Contains
  <2> QED BY <2>1, <2>2, <2>3 DEF Settle
<1>4. ASSUME NEW c \in Conn, OnSnapshot(c) PROVE Contains(outbox, y)
  <2>1. outbox' = outbox \/ outbox' = <<>>
    BY <1>4 DEF OnSnapshot
  <2>2. ~Contains(<<>>, y)
    BY DEF Contains
  <2> QED BY <2>1, <2>2
<1>5. \/ outbox' = outbox \/ \E x \in Cmd : SendCommand(x)
      \/ \E c \in Conn : OnAck(c) \/ OnError(c) \/ OnSnapshot(c)
  BY Steps
  DEF HandleConnection, RecordKey, AckReplay, Execute, Refuse, Unregister, OnOpen, OnClose,
      OnTip, OnTerminal, ReconnectTimer, ConnectCalled, OnGap, ConnectionLost, PairSucceeds,
      PairStarts, PairFails, Forget, Restart, RevokeDevice, clientVars
<1> QED BY <1>2, <1>3, <1>4, <1>5

\* What an entry of the log is.
LEMMA LoggedFacts ==
  ASSUME Types, NEW i \in DOMAIN log
  PROVE  log[i].session \in 1 .. session /\ log[i].dev \in issued /\ session \in Nat
<1>1. log \in Seq(Entries(issued, session)) /\ session \in Nat
  BY Bounds DEF Types, HubTypes
<1>2. log[i] \in Entries(issued, session)
  BY <1>1
<1> QED BY <1>1, <1>2 DEF Entries

\* What the client has met of the log.
LEMMA LogMetStep ==
  ASSUME Types, Types', Fresh, Next, ~client.fullResync, LogMet,
         \A c \in Conn : Carried(c) /\ Met(c)
  PROVE  LogMet'
<1>1. /\ client.session \in 0 .. session /\ session \in Nat
      /\ client.identity \in issued \cup {None}
  BY Bounds DEF Types, ClientTypes, Clients
<1>2. CASE client'.identity \notin issued /\ log' = log
  <2>1. \A i \in DOMAIN log' : log'[i].dev # client'.identity
    BY <1>2, LoggedFacts
  <2> QED BY <2>1 DEF LogMet
<1>3. CASE \E c \in Conn : OnSnapshot(c) /\ client'.session = toClient[c][1].session
                             /\ client'.identity = client.identity
  <2>1. PICK c \in Conn : OnSnapshot(c) /\ client'.session = toClient[c][1].session
                            /\ client'.identity = client.identity
    BY <1>3
  <2>2. Receives(c, "snapshot") /\ log' = log /\ session' = session
    BY <2>1 DEF OnSnapshot, hubVars
  <2>3. /\ sock[c] = "open" /\ 1 \in DOMAIN toClient[c] /\ toClient[c][1].type = "snapshot"
        /\ Head(toClient[c]) = toClient[c][1]
        /\ toClient[c][1].session \in 1 .. session
    BY <2>2, ReceivesFacts, ReplyFacts
  <2>4. client.session <= client'.session /\ client'.session \in 1 .. session
    BY <2>1, <2>3 DEF Met, IsSnapshot
  <2>5. outbox' = IF ForgetsOutbox(client, client'.session) THEN <<>> ELSE outbox
    BY <2>1, <2>3 DEF OnSnapshot
  <2> SUFFICES ASSUME NEW i \in DOMAIN log, log[i].dev = client.identity
               PROVE  /\ log[i].session <= client'.session
                      /\ log[i].session < session /\ client'.session = session
                           => ~Contains(outbox', log[i].cmd)
    BY <2>1, <2>2 DEF LogMet
  <2>6. /\ log[i].session <= client.session /\ log[i].session \in 1 .. session
        /\ log[i].session < session /\ client.session = session
             => ~Contains(outbox, log[i].cmd)
    BY LoggedFacts DEF LogMet
  <2>7. log[i].session <= client'.session
    BY <1>1, <2>4, <2>6
  <2>8. CASE outbox' = <<>>
    <3>1. ~Contains(outbox', log[i].cmd)
      BY <2>8 DEF Contains
    <3> QED BY <2>7, <3>1
  <2>9. CASE outbox' = outbox /\ (client.session = 0 \/ client.session = client'.session)
    BY <1>1, <2>6, <2>7, <2>9
  <2> QED BY <2>5, <2>8, <2>9 DEF ForgetsOutbox, NoSession
<1>4. CASE client'.identity = client.identity /\ client'.session = client.session
  <2> SUFFICES ASSUME NEW i \in DOMAIN log', log'[i].dev = client.identity
               PROVE  /\ log'[i].session <= client.session
                      /\ log'[i].session < session' /\ client.session = session'
                           => ~Contains(outbox', log'[i].cmd)
    BY <1>4 DEF LogMet
  <2>1. CASE i \in DOMAIN log /\ log'[i] = log[i]
    <3>1. /\ log[i].session <= client.session
          /\ log[i].session < session /\ client.session = session
               => ~Contains(outbox, log[i].cmd)
      BY <2>1 DEF LogMet
    <3>2. session' = session \/ session' = session + 1
      BY SessionFacts
    <3>3. CASE session' = session + 1
      BY <1>1, <2>1, <3>1, <3>3
    <3>4. CASE session' = session
      <4>1. ASSUME Contains(outbox', log[i].cmd), ~Contains(outbox, log[i].cmd) PROVE FALSE
        <5>1. log[i].cmd \in Cmd /\ promise[log[i].cmd] = Unsent
          BY <4>1, OutboxFacts
        <5> QED BY <2>1, <5>1 DEF Fresh
      <4> QED BY <2>1, <3>1, <3>4, <4>1
    <3> QED BY <3>2, <3>3, <3>4
  <2>2. CASE log' = log
    BY <2>1, <2>2
  <2>3. CASE log' # log
    <3>1. PICK c \in Conn, n \in DOMAIN log' :
            /\ DOMAIN log' = DOMAIN log \cup {n}
            /\ server[c] \in issued /\ 1 \in DOMAIN toHub[c]
            /\ toHub[c][1].type = "command"
            /\ log'[n].session = session /\ log'[n].dev = server[c]
      BY <2>3, EntryFacts
    <3>2. session' = session /\ \A k \in DOMAIN log : log'[k] = log[k]
      BY <2>3, EntryFacts
    <3>3. CASE i = n
      <4>1. Bearer(c) = server[c] /\ Bearer(c) # None
        BY <3>1, Bounds, BearerFacts DEF Types
      <4>2. client.session = session
        BY <3>1, <3>3, <4>1 DEF Carried
      <4> QED BY <1>1, <3>1, <3>2, <3>3, <4>2
    <3> QED BY <2>1, <3>1, <3>2, <3>3
  <2> QED BY <2>2, <2>3
<1>5. log' = log \/ \E c \in Conn : Execute(c)
  BY LogFacts
<1>6. ASSUME NEW c \in Conn, Execute(c) PROVE client' = client
  BY <1>6 DEF Execute, clientVars
<1> QED BY <1>1, <1>2, <1>3, <1>4, <1>5, <1>6, MeetingFacts

\* A step that neither sends to the client nor reads what it has been sent.
LEMMA MetSame ==
  ASSUME NEW d \in Conn, Met(d), sock'[d] # "free" => sock[d] # "free",
         link'[d] = "up" => link[d] = "up" /\ session' = session,
         client'.session = client.session, client'.phase = "live" => client.phase = "live",
         toClient'[d] \in {toClient[d], <<>>}
  PROVE  Met(d)'
BY DEF Met, IsSnapshot

\* The hub sends: a snapshot has its session, the event of the tip follows one.
LEMMA MetSent ==
  ASSUME Types, Types', NEW c \in Conn, NEW d \in Conn, Met(d), Sent(c),
         sock' = sock, client' = client, session' = session,
         link'[d] = "up" => link[d] = "up",
         \A i : New(c, i) =>
           /\ toClient'[c][i].type = "snapshot" => toClient'[c][i].session = session
           /\ toClient'[c][i].type = "tip" =>
                New(c, i - 1) /\ toClient'[c][i - 1].type = "snapshot"
  PROVE  Met(d)'
<1>1. /\ client.session \in 0 .. session /\ session \in Nat
      /\ toClient \in [Conn -> Seq(Replies(session, Len(log)))]
      /\ toClient' \in [Conn -> Seq(Replies(session', Len(log')))]
  BY Bounds DEF Types, WireTypes, ClientTypes, Clients
<1> SUFFICES ASSUME sock[d] # "free"
             PROVE  /\ link'[d] = "up" /\ client.phase = "live" => client.session = session
                    /\ \A i \in DOMAIN toClient'[d] : IsSnapshot(d, i)' =>
                         /\ toClient'[d][i].session >= client.session
                         /\ link'[d] = "up" => toClient'[d][i].session = session
                         /\ \A j \in DOMAIN toClient'[d] : IsSnapshot(d, j)' =>
                              toClient'[d][j].session = toClient'[d][i].session
                    /\ \A i \in DOMAIN toClient'[d] :
                         toClient'[d][i].type = "tip" /\ link'[d] = "up" =>
                           client.session = session \/ \E j \in 1 .. i - 1 : IsSnapshot(d, j)'
  BY DEF Met
<1> DEFINE Old(i) == i \in DOMAIN toClient[d] /\ toClient'[d][i] = toClient[d][i]
<1>2. \A i \in DOMAIN toClient'[d] :
        \/ Old(i)
        \/ d = c /\ link[d] = "up" /\ New(c, i)
  BY DEF Sent, New
<1>3. \A i \in DOMAIN toClient'[d] : IsSnapshot(d, i)' =>
        \/ Old(i) /\ IsSnapshot(d, i)
        \/ link[d] = "up" /\ toClient'[d][i].session = session
  BY <1>2 DEF IsSnapshot
<1>4. \A i \in DOMAIN toClient[d] : IsSnapshot(d, i) =>
        /\ toClient[d][i].session >= client.session
        /\ link[d] = "up" => toClient[d][i].session = session
        /\ \A j \in DOMAIN toClient[d] : IsSnapshot(d, j) =>
             toClient[d][j].session = toClient[d][i].session
  BY DEF Met
<1>5. link'[d] = "up" /\ client.phase = "live" => client.session = session
  BY DEF Met
<1>6. ASSUME NEW i \in DOMAIN toClient'[d], IsSnapshot(d, i)'
      PROVE  /\ toClient'[d][i].session >= client.session
             /\ link'[d] = "up" => toClient'[d][i].session = session
             /\ \A j \in DOMAIN toClient'[d] : IsSnapshot(d, j)' =>
                  toClient'[d][j].session = toClient'[d][i].session
  <2>1. CASE link[d] = "up"
    <3>1. \A j \in DOMAIN toClient'[d] : IsSnapshot(d, j)' => toClient'[d][j].session = session
      BY <1>3, <1>4, <2>1
    <3>2. session >= client.session
      BY <1>1
    <3> QED BY <1>6, <3>1, <3>2
  <2>2. CASE link[d] # "up"
    <3>1. \A j \in DOMAIN toClient'[d] : IsSnapshot(d, j)' => Old(j) /\ IsSnapshot(d, j)
      BY <1>3, <2>2
    <3> QED BY <1>4, <1>6, <2>2, <3>1
  <2> QED BY <2>1, <2>2
<1>7. ASSUME NEW i \in DOMAIN toClient'[d], toClient'[d][i].type = "tip", link'[d] = "up"
      PROVE  client.session = session \/ \E j \in 1 .. i - 1 : IsSnapshot(d, j)'
  <2>1. CASE Old(i)
    <3>1. client.session = session \/ \E j \in 1 .. i - 1 : IsSnapshot(d, j)
      BY <1>7, <2>1 DEF Met
    <3>2. \A j : IsSnapshot(d, j) => IsSnapshot(d, j)'
      BY DEF IsSnapshot, Sent
    <3> QED BY <3>1, <3>2
  <2>2. CASE d = c /\ New(c, i)
    <3>1. New(d, i - 1) /\ toClient'[d][i - 1].type = "snapshot"
      BY <1>7, <2>2
    <3>2. IsSnapshot(d, i - 1)'
      BY <3>1 DEF IsSnapshot, New
    <3>3. i - 1 \in 1 .. i - 1
      <4>1. toClient'[d] \in Seq(Replies(session', Len(log')))
        BY <1>1
      <4>2. \E n \in Nat : DOMAIN toClient'[d] = 1 .. n
        BY <4>1
      <4> QED BY <3>1, <4>2 DEF New
    <3> QED BY <3>2, <3>3
  <2> QED BY <1>2, <2>1, <2>2
<1> QED BY <1>5, <1>6, <1>7

\* The client takes a reply.
LEMMA MetTaken ==
  ASSUME Types, NEW c \in Conn, NEW type, Receives(c, type), Taken(c), Met(c),
         link' = link, session' = session,
         client'.session = IF type = "snapshot" THEN toClient[c][1].session
                                                ELSE client.session,
         client'.phase = "live" => client.phase = "live" \/ type \in {"snapshot", "tip"}
  PROVE  Met(c)'
<1>1. /\ sock[c] = "open" /\ 1 \in DOMAIN toClient[c] /\ toClient[c][1].type = type
      /\ toClient[c][1] \in Replies(session, Len(log))
      /\ \A i \in DOMAIN toClient'[c] :
           /\ i \in Nat \ {0} /\ i + 1 \in DOMAIN toClient[c]
           /\ toClient'[c][i] = toClient[c][i + 1]
  BY ReceivesFacts
<1>2. /\ link[c] = "up" /\ client.phase = "live" => client.session = session
      /\ \A i \in DOMAIN toClient[c] : IsSnapshot(c, i) =>
           /\ toClient[c][i].session >= client.session
           /\ link[c] = "up" => toClient[c][i].session = session
           /\ \A j \in DOMAIN toClient[c] : IsSnapshot(c, j) =>
                toClient[c][j].session = toClient[c][i].session
      /\ \A i \in DOMAIN toClient[c] : toClient[c][i].type = "tip" /\ link[c] = "up" =>
           client.session = session \/ \E j \in 1 .. i - 1 : IsSnapshot(c, j)
  BY <1>1 DEF Met
<1>3. \A i : IsSnapshot(c, i)' => IsSnapshot(c, i + 1) /\ i \in DOMAIN toClient'[c]
  BY <1>1 DEF IsSnapshot
<1>4. client'.session \in Nat
  <2>1. client.session \in 0 .. session /\ session \in Nat
    BY Bounds DEF Types, ClientTypes, Clients
  <2>2. type = "snapshot" => toClient[c][1].session \in 1 .. session
    BY <1>1, ReplyFacts
  <2> QED BY <2>1, <2>2
<1>5. link[c] = "up" /\ client'.phase = "live" => client'.session = session
  <2>1. type = "snapshot" /\ link[c] = "up" => client'.session = session
    BY <1>1, <1>2 DEF IsSnapshot
  <2>2. type = "tip" /\ link[c] = "up" => client'.session = session
    <3> SUFFICES ASSUME type = "tip", link[c] = "up" PROVE client.session = session
      OBVIOUS
    <3>1. client.session = session \/ \E j \in 1 .. 1 - 1 : IsSnapshot(c, j)
      BY <1>1, <1>2
    <3> QED BY <3>1
  <2>3. type # "snapshot" => client'.session = client.session
    OBVIOUS
  <2> QED BY <1>2, <2>1, <2>2, <2>3
<1>6. ASSUME NEW i \in DOMAIN toClient'[c], IsSnapshot(c, i)'
      PROVE  /\ toClient'[c][i].session >= client'.session
             /\ link[c] = "up" => toClient'[c][i].session = session
             /\ \A j \in DOMAIN toClient'[c] : IsSnapshot(c, j)' =>
                  toClient'[c][j].session = toClient'[c][i].session
  <2>1. IsSnapshot(c, i + 1) /\ toClient'[c][i] = toClient[c][i + 1] /\ i + 1 \in DOMAIN toClient[c]
    BY <1>1, <1>3, <1>6
  <2>2. \A j \in DOMAIN toClient'[c] : IsSnapshot(c, j)' =>
          /\ IsSnapshot(c, j + 1) /\ toClient'[c][j] = toClient[c][j + 1]
          /\ j + 1 \in DOMAIN toClient[c]
    BY <1>1, <1>3
  <2>3. toClient'[c][i].session >= client'.session
    <3>1. CASE type = "snapshot"
      <4>1. toClient[c][i + 1].session = toClient[c][1].session
        BY <1>1, <1>2, <2>1, <3>1 DEF IsSnapshot
      <4> QED BY <1>4, <2>1, <3>1, <4>1
    <3>2. CASE type # "snapshot"
      BY <1>2, <2>1, <3>2
    <3> QED BY <3>1, <3>2
  <2> QED BY <1>2, <2>1, <2>2, <2>3
<1>7. ASSUME NEW i \in DOMAIN toClient'[c], toClient'[c][i].type = "tip", link[c] = "up"
      PROVE  client'.session = session \/ \E j \in 1 .. i - 1 : IsSnapshot(c, j)'
  <2>1. CASE type = "snapshot"
    BY <1>1, <1>2, <1>7, <2>1 DEF IsSnapshot
  <2>2. CASE type # "snapshot"
    <3>1. i \in Nat \ {0} /\ i + 1 \in DOMAIN toClient[c] /\ toClient[c][i + 1].type = "tip"
      BY <1>1, <1>7
    <3>2. client.session = session \/ \E j \in 1 .. (i + 1) - 1 : IsSnapshot(c, j)
      BY <1>2, <1>7, <3>1
    <3>3. CASE client.session = session
      BY <2>2, <3>3
    <3>4. ASSUME NEW j \in 1 .. (i + 1) - 1, IsSnapshot(c, j)
          PROVE  \E k \in 1 .. i - 1 : IsSnapshot(c, k)'
      <4>1. j # 1
        BY <1>1, <2>2, <3>4 DEF IsSnapshot
      <4>2. j - 1 \in 1 .. i - 1 /\ (j - 1) + 1 = j
        BY <3>1, <3>4, <4>1
      <4>3. j - 1 \in DOMAIN toClient'[c]
        <5>1. toClient' \in [Conn -> Seq(Replies(session, Len(log)))]
          BY ReceivesFacts
        <5>2. toClient'[c] \in Seq(Replies(session, Len(log)))
          BY <5>1
        <5>3. \E n \in Nat : DOMAIN toClient'[c] = 1 .. n
          BY <5>2
        <5> QED BY <1>7, <4>2, <5>3
      <4>4. toClient'[c][j - 1] = toClient[c][j]
        BY <1>1, <4>2, <4>3
      <4>5. IsSnapshot(c, j - 1)'
        BY <3>4, <4>3, <4>4 DEF IsSnapshot
      <4> QED BY <4>2, <4>5
    <3> QED BY <3>2, <3>3, <3>4
  <2> QED BY <2>1, <2>2
<1> QED BY <1>5, <1>6, <1>7 DEF Met

\* What a client without a second socket has met of the sessions.
LEMMA MetStep ==
  ASSUME Types, Types', Alone, Next, ~client'.overlap, \A c \in Conn : Met(c), NEW d \in Conn
  PROVE  Met(d)'
<1>1. /\ sock \in [Conn -> {"free", "dialing", "open"}] /\ link \in [Conn -> {"up", "shut", "down"}]
      /\ toClient \in [Conn -> Seq(Replies(session, Len(log)))]
      /\ client \in Clients(issued, session) /\ client.session \in 0 .. session
      /\ session \in Nat
  BY Bounds DEF Types, WireTypes, ClientTypes, Clients
<1>2. Met(d)
  OBVIOUS
<1>3. CASE sock'[d] = "free"
  BY <1>3 DEF Met
<1>4. CASE UNCHANGED <<sock, link, toClient, client, session>>
  BY <1>2, <1>4, MetSame
<1>5. ASSUME NEW c \in Conn, AckReplay(c) \/ Execute(c) \/ Refuse(c) PROVE Met(d)'
  <2>1. sock' = sock /\ client' = client /\ session' = session /\ link' = link
    BY <1>5 DEF AckReplay, Execute, Refuse, hubVars, clientVars
  <2> DEFINE x == toHub[c][1].cmd
  <2>2. /\ Sent(c)
        /\ \/ \A k : New(c, k) => toClient'[c][k] = Ack(x, 0)
           \/ \A k : New(c, k) => toClient'[c][k] \in {Ack(x, Len(log) + 1), Error(x)}
           \/ \A k : New(c, k) => toClient'[c][k] = Error(x)
    BY <1>5, CommandEffects
  <2> HIDE DEF x
  <2>3. \A k : New(c, k) => toClient'[c][k].type \notin {"snapshot", "tip"}
    BY <2>2 DEF Ack, Error
  <2> QED BY <1>2, <2>1, <2>2, <2>3, MetSent
<1>6. ASSUME NEW c \in Conn, HandleConnection(c) PROVE Met(d)'
  <2>1. sock' = sock /\ client' = client /\ session' = session
    BY <1>6 DEF HandleConnection, clientVars
  <2>2. link'[d] = "up" => link[d] = "up"
    BY <1>1, <1>6, HelloEffects
  <2>3. Sent(c)
    BY <1>6, HelloEffects
  <2>4. \A i : New(c, i) =>
           /\ toClient'[c][i].type = "snapshot" => toClient'[c][i].session = session
           /\ toClient'[c][i].type = "tip" =>
                New(c, i - 1) /\ toClient'[c][i - 1].type = "snapshot"
    BY <1>6, HelloEffects
  <2> QED BY <1>2, <2>1, <2>2, <2>3, <2>4, MetSent
<1>7. ASSUME NEW c \in Conn, OnOpen(c) PROVE Met(d)'
  <2>1. /\ UNCHANGED <<link, toClient, client, session>> /\ sock[c] = "dialing"
        /\ sock' = [sock EXCEPT ![c] = "open"]
    BY <1>7 DEF OnOpen, hubVars
  <2>2. sock'[d] # "free" => sock[d] # "free"
    BY <1>1, <2>1
  <2> QED BY <1>2, <2>1, <2>2, MetSame
<1>8. ASSUME NEW c \in Conn, OnClose(c) PROVE Met(d)'
  <2>1. /\ UNCHANGED <<link, toClient, session>>
    BY <1>8 DEF OnClose, hubVars, netVars
  <2>2. sock'[d] # "free" => sock[d] # "free"
    BY <1>8, OnCloseFacts DEF Freed
  <2>3. client'.session = client.session /\ (client'.phase = "live" => client.phase = "live")
    BY <1>8, OnCloseFacts DEF Retries
  <2> QED BY <1>2, <2>1, <2>2, <2>3, MetSame
<1>9. ASSUME NEW c \in Conn, NEW type, Receives(c, type), Taken(c), link' = link, sock' = sock,
             session' = session,
             client'.session = IF type = "snapshot" THEN toClient[c][1].session
                                                    ELSE client.session,
             client'.phase = "live" => client.phase = "live" \/ type \in {"snapshot", "tip"}
      PROVE  Met(d)'
  <2>1. CASE d = c
    <3>1. Met(c)'
      BY <1>9, MetTaken
    <3> QED BY <2>1, <3>1
  <2>2. CASE d # c
    <3>1. sock[c] # "free"
      BY <1>9 DEF Receives
    <3>2. sock[d] = "free"
      BY <2>2, <3>1 DEF Alone, OwnSocket
    <3> QED BY <1>3, <1>9, <3>2
  <2> QED BY <2>1, <2>2
<1>10. ASSUME NEW c \in Conn, OnAck(c) PROVE Met(d)'
  <2>1. /\ Receives(c, "ack") /\ Taken(c) /\ UNCHANGED <<link, sock, session, client>>
    BY <1>10 DEF OnAck, hubVars
  <2> QED BY <1>9, <2>1
<1>11. ASSUME NEW c \in Conn, OnError(c) PROVE Met(d)'
  <2>1. /\ Receives(c, "error") /\ Taken(c) /\ UNCHANGED <<link, sock, session, client>>
    BY <1>11 DEF OnError, hubVars
  <2> QED BY <1>9, <2>1
<1>12. ASSUME NEW c \in Conn, OnTip(c) PROVE Met(d)'
  <2>1. /\ Receives(c, "tip") /\ Taken(c) /\ UNCHANGED <<link, sock, session>>
    BY <1>12 DEF OnTip, hubVars
  <2>2. client'.session = client.session
    BY <1>12, CaughtUpFacts
  <2> QED BY <1>9, <2>1, <2>2
<1>13. ASSUME NEW c \in Conn, OnSnapshot(c) PROVE Met(d)'
  <2>1. /\ Receives(c, "snapshot") /\ Taken(c) /\ UNCHANGED <<link, sock, session>>
    BY <1>13 DEF OnSnapshot, hubVars
  <2>2. client'.session = toClient[c][1].session
    BY <1>13, CaughtUpFacts
  <2> QED BY <1>9, <2>1, <2>2
<1>14. ASSUME NEW c \in Conn, OnTerminal(c) \/ OnGap(c) PROVE Met(d)'
  <2>1. sock'[d] = IF d = client.socket THEN "free" ELSE sock[d]
    BY <1>14, OnTerminalFacts, OnGapFacts DEF Released
  <2>2. sock[d] # "free" => d = client.socket
    BY DEF Alone, OwnSocket
  <2> QED BY <1>3, <2>1, <2>2
<1>15. ASSUME NEW c \in Conn, Opened(c) PROVE Met(d)'
  <2>1. CASE d = c
    <3>1. client'.phase # "live" /\ toClient'[d] = <<>>
      BY <1>15, <2>1 DEF Opened
    <3> QED BY <3>1 DEF Met, IsSnapshot
  <2>2. CASE d # c
    <3>1. sock'[d] = "free"
      BY <1>15, <2>2 DEF Opened
    <3> QED BY <1>3, <3>1
  <2> QED BY <2>1, <2>2
<1>16. ASSUME NEW c \in Conn, ReconnectTimer(c) PROVE Met(d)'
  <2>1. CASE client.closedByUser
    <3>1. /\ UNCHANGED <<sock, link, toClient, session>>
          /\ client'.session = client.session /\ client'.phase = client.phase
      BY <1>16, <2>1, ReconnectTimerFacts DEF hubVars
    <3> QED BY <1>2, <3>1, MetSame
  <2>2. CASE ~client.closedByUser
    BY <1>15, <1>16, <2>2, ReconnectTimerFacts
  <2> QED BY <2>1, <2>2
<1>17. ASSUME NEW c \in Conn, ConnectCalled(c) \/ \E e \in Dev : PairSucceeds(e, c)
       PROVE  Met(d)'
  BY <1>15, <1>17, ConnectCalledFacts, PairSucceedsFacts
<1>18. ASSUME NEW c \in Conn, ConnectionLost(c) PROVE Met(d)'
  <2>1. /\ UNCHANGED <<sock, client, session>>
        /\ link' = [link EXCEPT ![c] = "down"] /\ toClient' = [toClient EXCEPT ![c] = <<>>]
    BY <1>18 DEF ConnectionLost, hubVars, clientVars
  <2>2. link'[d] = "up" => link[d] = "up"
    BY <1>1, <2>1
  <2>3. toClient'[d] \in {toClient[d], <<>>}
    BY <1>1, <2>1
  <2> QED BY <1>2, <2>1, <2>2, <2>3, MetSame
<1>19. CASE Restart
  <2>1. UNCHANGED <<sock, client>> /\ link'[d] # "up" /\ toClient'[d] \in {toClient[d], <<>>}
    BY <1>1, <1>19 DEF Restart, clientVars
  <2> QED BY <1>2, <2>1, MetSame
<1>20. CASE PairStarts \/ PairFails
  <2>1. UNCHANGED <<sock, link, toClient, session>>
    BY <1>20 DEF PairStarts, PairFails, hubVars, netVars
  <2>2. client'.session = client.session /\ (client'.phase = "live" => client.phase = "live")
    BY <1>20, PairScreenFacts
  <2> QED BY <1>2, <2>1, <2>2, MetSame
<1>21. CASE Forget
  <2>1. sock' = sock /\ client.phase = "unauthorized"
    BY <1>21 DEF Forget, NeedsPairing
  <2>2. sock[d] = "free"
    BY <2>1 DEF Alone, OwnSocket
  <2> QED BY <1>3, <2>1, <2>2
<1>22. CASE \/ \E x \in Cmd : SendCommand(x)
            \/ \E c \in Conn : Unregister(c) \/ RecordKey(c)
            \/ \E e \in Dev : RevokeDevice(e)
  BY <1>4, <1>22
  DEF SendCommand, Unregister, RecordKey, RevokeDevice, hubVars, netVars, clientVars
<1> QED
  BY <1>5, <1>6, <1>7, <1>8, <1>10, <1>11, <1>12, <1>13, <1>14, <1>16, <1>17, <1>18, <1>19,
     <1>20, <1>21, <1>22, Steps

\* The open socket of a client without a second one bears the client's device.
LEMMA BearerAlone ==
  ASSUME Types, NEW d \in Conn, OwnSocket(d), sock[d] = "open", link[d] = "up"
  PROVE  Bearer(d) = client.identity
<1>1. server[d] \in {None, client.identity}
  BY DEF OwnSocket
<1>2. CASE server[d] = None
  <2>1. toHub[d] # <<>>
    BY <1>2 DEF Types, HubEnd
  <2>2. 1 \in DOMAIN toHub[d] /\ toHub[d][1].type = "hello" /\ Bearer(d) = toHub[d][1].credential
    BY <1>2, <2>1, BearerFacts
  <2>3. OwnHello(toHub[d][1])
    BY <2>2 DEF OwnSocket
  <2> QED BY <2>2, <2>3 DEF OwnHello
<1>3. CASE server[d] # None
  BY <1>1, <1>3, BearerFacts
<1> QED BY <1>2, <1>3

\* What is under way on the connections of a client without a second socket.
LEMMA CarriedStep ==
  ASSUME Types, Types', Alone, Next, ~client.fullResync, LogMet',
         \A c \in Conn : Carried(c) /\ Met(c), NEW d \in Conn, Met(d)'
  PROVE  Carried(d)'
<1> SUFFICES ASSUME NEW k \in DOMAIN toHub'[d], toHub'[d][k].type = "command"
             PROVE  /\ Bearer(d)' # None /\ Bearer(d)' = client'.identity
                         => client'.session = session'
                    /\ \A i \in DOMAIN log' :
                         log'[i].dev = Bearer(d)' /\ log'[i].session < session'
                           => log'[i].cmd # toHub'[d][k].cmd
  BY DEF Carried
<1>1. PICK b \in issued \cup {None} : b = Bearer(d) /\ b = Bearer(d)'
  BY BearerKept, BearerFacts
<1>2. session' = session
  <2>1. toHub \in [Conn -> Seq(Frames(issued))]
    BY DEF Types, WireTypes
  <2>2. ~Restart
    BY DEF Restart
  <2> QED BY <2>2, SessionFacts
<1>3. CASE \E j \in DOMAIN toHub[d] : toHub'[d][k] = toHub[d][j]
  <2>1. /\ b # None /\ b = client.identity => client.session = session
        /\ \A i \in DOMAIN log : log[i].dev = b /\ log[i].session < session
             => log[i].cmd # toHub'[d][k].cmd
    BY <1>1, <1>3 DEF Carried
  <2>2. ASSUME b # None, b = client'.identity PROVE client'.session = session
    <3>1. client'.identity = client.identity /\ client.session = session
      BY <1>1, <2>1, <2>2, MeetingFacts
    <3>2. ASSUME NEW c \in Conn, OnSnapshot(c), client'.session = toClient[c][1].session
          PROVE  client'.session = session
      <4>1. Receives(c, "snapshot")
        BY <3>2 DEF OnSnapshot
      <4>2. /\ sock[c] = "open" /\ 1 \in DOMAIN toClient[c] /\ toClient[c][1].type = "snapshot"
            /\ toClient[c][1].session \in 1 .. session
        BY <4>1, ReceivesFacts, ReplyFacts
      <4>3. toClient[c][1].session >= client.session
        BY <4>2 DEF Met, IsSnapshot
      <4>4. session \in Nat
        BY Bounds DEF Types
      <4> QED BY <3>1, <3>2, <4>2, <4>3, <4>4
    <3> QED BY <1>1, <2>2, <3>1, <3>2, MeetingFacts
  <2>3. ASSUME NEW i \in DOMAIN log', log'[i].dev = b, log'[i].session < session
        PROVE  log'[i].cmd # toHub'[d][k].cmd
    <3>1. CASE log' = log
      BY <2>1, <2>3, <3>1
    <3>2. CASE log' # log
      <4>1. PICK n \in DOMAIN log' : DOMAIN log' = DOMAIN log \cup {n} /\ log'[n].session = session
        BY <3>2, EntryFacts
      <4>2. \A m \in DOMAIN log : log'[m] = log[m]
        BY <3>2, EntryFacts
      <4>3. i # n
        <5>1. session \in Nat
          BY Bounds DEF Types
        <5> QED BY <2>3, <4>1, <5>1
      <4> QED BY <2>1, <2>3, <4>1, <4>2, <4>3
    <3> QED BY <3>1, <3>2
  <2> QED BY <1>1, <1>2, <2>2, <2>3
<1>4. CASE Flushes(d) /\ \E j \in DOMAIN outbox' : toHub'[d][k].cmd = outbox'[j]
  <2>1. PICK j \in DOMAIN outbox' : toHub'[d][k].cmd = outbox'[j]
    BY <1>4
  <2>2. /\ client'.phase = "live" /\ sock[d] = "open" /\ link[d] = "up"
        /\ \/ \E x \in Cmd : SendCommand(x)
           \/ \E c \in Conn : OnSnapshot(c) \/ OnTip(c)
    BY <1>4 DEF Flushes
  <2>3. sock' = sock /\ link' = link /\ client'.identity = client.identity
    BY <2>2, CaughtUpFacts DEF SendCommand, OnSnapshot, OnTip, Keeps
  <2>4. client'.session = session'
    BY <2>2, <2>3 DEF Met
  <2>5. b = client'.identity
    BY <1>1, <2>2, <2>3, BearerAlone DEF Alone
  <2>6. Contains(outbox', outbox'[j])
    <3>1. outbox' \in Seq(Cmd)
      BY DEF Types, ClientTypes
    <3>2. j \in 1 .. Len(outbox')
      BY <3>1
    <3> QED BY <3>2 DEF Contains
  <2>7. ASSUME NEW i \in DOMAIN log', log'[i].dev = b, log'[i].session < session'
        PROVE  log'[i].cmd # toHub'[d][k].cmd
    <3>1. ~Contains(outbox', log'[i].cmd)
      BY <2>4, <2>5, <2>7 DEF LogMet
    <3> QED BY <2>1, <2>6, <3>1
  <2> QED BY <1>1, <2>4, <2>7
<1> QED BY <1>3, <1>4, CarriedFacts

\* The invariant of the keys, the outbox and what is under way between them.
LEMMA KeysInit == Init => Keys
<1> SUFFICES ASSUME Init PROVE Keys
  OBVIOUS
<1>1. log = <<>> /\ \A c \in Conn : toHub[c] = <<>> /\ toClient[c] = <<>> /\ sock[c] = "free"
  BY DEF Init
<1>2. ~client.fullResync /\ \A c \in Conn : ~busy[c]
  BY DEF Init
<1>3. DOMAIN log = {} /\ \A c \in Conn : DOMAIN toHub[c] = {}
  BY <1>1
<1>4. Fresh
  BY <1>3 DEF Fresh
<1>5. Known /\ Handlers /\ OncePerDevice
  BY <1>2, <1>3 DEF Known, Handlers, OncePerDevice
<1>6. NotAgain
  BY <1>1, <1>2, <1>3 DEF NotAgain, LogMet, Carried, Met
<1> QED BY <1>4, <1>5, <1>6 DEF Keys

\* Every step keeps the keys, the outbox and what is under way in agreement.
LEMMA KeysStep == Types /\ Box /\ Prompts /\ Keys /\ [Next]_vars => Keys'
<1> SUFFICES ASSUME Types, Box, Prompts, Keys, [Next]_vars PROVE Keys'
  OBVIOUS
<1>1. CASE UNCHANGED vars
  <2>1. UNCHANGED <<session, log, applied, server, busy, link, toHub, toClient, client, outbox,
                    promise, sock>>
    BY <1>1 DEF vars, hubVars, netVars, clientVars
  <2>2. Fresh' /\ Known' /\ Handlers' /\ OncePerDevice'
    BY <2>1 DEF Keys, Fresh, Known, Handlers, At, Entry, OncePerDevice
  <2>3. NotAgain'
    BY <2>1 DEF Keys, NotAgain, LogMet, Carried, Met, Bearer, IsSnapshot, Contains
  <2> QED BY <2>2, <2>3 DEF Keys
<1>2. CASE Next
  <2>1. Types' /\ Box'
    BY TypesStep, BoxStep
  <2>2. Fresh' /\ Known' /\ Handlers' /\ OncePerDevice'
    BY <1>2, <2>1, FreshStep, KnownStep, HandlersStep, OnceStep DEF Keys
  <2>3. ASSUME ~client'.overlap PROVE ~client.overlap /\ Alone /\ \A c \in Conn : Met(c) /\ Met(c)'
    <3>1. ~client.overlap
      BY <2>3, OverlapStays
    <3>2. Alone
      BY <3>1 DEF Prompts
    <3>3. \A c \in Conn : Met(c)
      BY <3>1 DEF Keys, NotAgain
    <3>4. \A c \in Conn : Met(c)'
      BY <1>2, <2>1, <2>3, <3>2, <3>3, MetStep
    <3> QED BY <3>1, <3>2, <3>3, <3>4
  <2>4. ASSUME ~client'.overlap, ~client'.resynced
        PROVE  ~client'.fullResync /\ LogMet' /\ \A c \in Conn : Carried(c)'
    <3>1. ~client.resynced
      BY <1>2, <2>4, ResyncFacts
    <3>2. ~client.fullResync /\ LogMet /\ \A c \in Conn : Carried(c)
      BY <2>3, <2>4, <3>1 DEF Keys, NotAgain
    <3>3. ~client'.fullResync
      BY <1>2, <2>4, <3>2, ResyncFacts
    <3>4. LogMet'
      BY <1>2, <2>1, <2>3, <2>4, <3>2, LogMetStep DEF Keys
    <3>5. \A c \in Conn : Carried(c)'
      BY <1>2, <2>1, <2>3, <2>4, <3>2, <3>4, CarriedStep
    <3> QED BY <3>3, <3>4, <3>5
  <2> QED BY <2>2, <2>3, <2>4 DEF Keys, NotAgain
<1> QED BY <1>1, <1>2

\* The outbox, its resends, the keys of the hub and the outbox being dropped on a
\* new session execute a command at most once for a device: always in one session,
\* and in all as long as the client has asked for no full resync and no two sockets
\* have existed at the same time.
THEOREM KeysCorrect == Spec => []OncePerDevice
<1>1. Init => Types /\ Box /\ Prompts /\ Keys
  BY TypesInit, BoxInit, PromptsInit, KeysInit
<1>2. Types /\ Box /\ Prompts /\ Keys /\ [Next]_vars => (Types /\ Box /\ Prompts /\ Keys)'
  BY TypesStep, BoxStep, PromptsStep, KeysStep
<1>3. Types /\ Box /\ Prompts /\ Keys => OncePerDevice
  BY DEF Keys
<1> QED BY <1>1, <1>2, <1>3, PTL DEF Spec

-----------------------------------------------------------------------------
(* Commands are executed in their order *)

\* A promise is made as its command is issued.
LEMMA SentFacts ==
  ASSUME Types, Next, NEW y \in Cmd, promise[y] = Unsent, promise'[y] # Unsent
  PROVE  SendCommand(y)
<1>1. promise \in [Cmd -> Promises(Len(log))] /\ Unsent # Pending
  BY DEF Types, ClientTypes, Unsent, Pending
<1>2. ASSUME NEW x \in Cmd, SendCommand(x), x # y PROVE FALSE
  <2>1. PICK p : promise' = [promise EXCEPT ![x] = p]
    BY <1>2 DEF SendCommand
  <2> QED BY <1>1, <1>2, <2>1
<1>3. ASSUME NEW c \in Conn, OnAck(c) \/ OnError(c) PROVE FALSE
  <2>1. PICK x, outcome : Settle(x, outcome)
    BY <1>3 DEF OnAck, OnError
  <2>2. promise' = promise \/ (promise[x] = Pending /\ promise' = [promise EXCEPT ![x] = outcome])
    BY <2>1 DEF Settle
  <2> QED BY <1>1, <2>2
<1>4. CASE promise' = promise
  BY <1>4
<1> QED
  BY <1>2, <1>3, <1>4, Steps
  DEF HandleConnection, RecordKey, AckReplay, Execute, Refuse, Unregister, OnOpen, OnClose,
      OnSnapshot, OnTip, OnTerminal, ReconnectTimer, ConnectCalled, OnGap, ConnectionLost,
      PairSucceeds, PairStarts, PairFails, Forget, Restart, RevokeDevice, clientVars

\* Commands go on being issued in their order.
LEMMA InTurnStep ==
  ASSUME Types, InTurn, Next
  PROVE  InTurn'
<1> SUFFICES ASSUME NEW x \in Cmd, NEW y \in Cmd, x < y, promise'[x] = Unsent
             PROVE  promise'[y] = Unsent
  BY DEF InTurn
<1>1. promise[x] = Unsent
  BY UnsentFacts
<1>2. promise[y] = Unsent
  BY <1>1 DEF InTurn
<1>3. ~SendCommand(y)
  <2>1. x \in 1 .. y - 1
    BY DEF Cmd
  <2> QED BY <1>1, <2>1 DEF SendCommand
<1> QED BY <1>2, <1>3, SentFacts

\* Removing an element keeps a sequence sorted.
LEMMA WithoutSorted ==
  ASSUME NEW box \in Seq(Cmd), Sorted(box), NEW x
  PROVE  Sorted(Without(box, x))
<1>1. CASE Contains(box, x)
  <2> DEFINE k == CHOOSE i \in DOMAIN box : box[i] = x
  <2>1. k \in DOMAIN box
    BY <1>1 DEF Contains
  <2>2. Without(box, x) = RemoveAt(box, k)
    BY <1>1 DEF Without
  <2> HIDE DEF k
  <2> DEFINE w == RemoveAt(box, k)
  <2>3. /\ Len(box) \in Nat /\ DOMAIN box = 1 .. Len(box) /\ DOMAIN w = 1 .. (Len(box) - 1)
        /\ \A i \in 1 .. (Len(box) - 1) : w[i] = IF i < k THEN box[i] ELSE box[i + 1]
    BY <2>1, RemoveFacts
  <2> HIDE DEF w
  <2> DEFINE at(i) == IF i < k THEN i ELSE i + 1
  <2>4. ASSUME NEW i \in DOMAIN w, NEW j \in DOMAIN w, i < j PROVE w[i] < w[j]
    <3>1. PICK n \in Nat : n = Len(box)
      BY <2>3
    <3>2. i \in 1 .. (n - 1) /\ j \in 1 .. (n - 1) /\ k \in 1 .. n
      BY <2>1, <2>3, <2>4, <3>1
    <3>3. at(i) \in 1 .. n /\ at(j) \in 1 .. n /\ at(i) < at(j)
      BY <2>4, <3>2
    <3>4. w[i] = box[at(i)] /\ w[j] = box[at(j)]
      BY <2>3, <3>1, <3>2
    <3> QED BY <2>3, <3>1, <3>3, <3>4 DEF Sorted
  <2> QED BY <2>2, <2>4 DEF Sorted, w
<1>2. CASE ~Contains(box, x)
  BY <1>2 DEF Without
<1> QED BY <1>1, <1>2

\* The outbox keeps that order.
LEMMA SortedStep ==
  ASSUME Types, Box, InTurn, Sorted(outbox), Next
  PROVE  Sorted(outbox')
<1>1. outbox \in Seq(Cmd)
  BY DEF Types, ClientTypes
<1>2. ASSUME NEW x \in Cmd, SendCommand(x) PROVE Sorted(outbox')
  <2>1. CASE outbox' = outbox
    BY <2>1
  <2>2. CASE outbox' = Append(outbox, x)
    <3>1. /\ Len(outbox) \in Nat /\ DOMAIN outbox = 1 .. Len(outbox)
          /\ DOMAIN outbox' = 1 .. (Len(outbox) + 1)
          /\ \A i \in DOMAIN outbox : outbox'[i] = outbox[i]
          /\ outbox'[Len(outbox) + 1] = x
      BY <1>1, <2>2, AppendFacts
    <3>2. \A i \in DOMAIN outbox : outbox[i] < x
      <4> TAKE i \in DOMAIN outbox
      <4>1. outbox[i] \in Cmd /\ promise[outbox[i]] = Pending /\ promise[x] = Unsent
        BY <1>1, <1>2 DEF Box, OutboxMatchesPromises, SendCommand
      <4>2. ~(x < outbox[i]) /\ x # outbox[i]
        BY <4>1 DEF InTurn, Unsent, Pending
      <4> QED BY <4>1, <4>2 DEF Cmd
    <3>3. ASSUME NEW i \in DOMAIN outbox', NEW j \in DOMAIN outbox', i < j
          PROVE  outbox'[i] < outbox'[j]
      <4>1. PICK n \in Nat : n = Len(outbox)
        BY <3>1
      <4>2. i \in 1 .. n /\ (j \in 1 .. n \/ j = n + 1)
        BY <3>1, <3>3, <4>1
      <4> QED BY <3>1, <3>2, <3>3, <4>1, <4>2 DEF Sorted
    <3> QED BY <3>3 DEF Sorted
  <2> QED BY <1>2, <2>1, <2>2 DEF SendCommand
<1>3. ASSUME NEW c \in Conn, OnAck(c) \/ OnError(c) PROVE Sorted(outbox')
  <2>1. PICK x, outcome : Settle(x, outcome)
    BY <1>3 DEF OnAck, OnError
  <2>2. outbox' = outbox \/ outbox' = Without(outbox, x)
    BY <2>1 DEF Settle
  <2> QED BY <1>1, <2>2, WithoutSorted
<1>4. ASSUME NEW c \in Conn, OnSnapshot(c) PROVE Sorted(outbox')
  <2>1. outbox' = outbox \/ outbox' = <<>>
    BY <1>4 DEF OnSnapshot
  <2>2. Sorted(<<>>)
    BY DEF Sorted
  <2> QED BY <2>1, <2>2
<1>5. \/ outbox' = outbox \/ \E x \in Cmd : SendCommand(x)
      \/ \E c \in Conn : OnAck(c) \/ OnError(c) \/ OnSnapshot(c)
  BY Steps
  DEF HandleConnection, RecordKey, AckReplay, Execute, Refuse, Unregister, OnOpen, OnClose,
      OnTip, OnTerminal, ReconnectTimer, ConnectCalled, OnGap, ConnectionLost, PairSucceeds,
      PairStarts, PairFails, Forget, Restart, RevokeDevice, clientVars
<1> QED BY <1>2, <1>3, <1>4, <1>5

\* What is settled stays so for the session: its key is not recorded again.
LEMMA SettledStays ==
  ASSUME Types, Next, session' = session, NEW d, NEW x, Settled(d, x)
  PROVE  Settled(d, x)'
<1>1. ~Restart
  BY Bounds DEF Restart, Types
<1>2. <<d, x>> \in applied /\ <<d, x>> \in applied' /\ early \subseteq early'
  BY <1>1, SessionFacts, HistoryGrows DEF Settled
<1>3. ASSUME NEW e \in Conn, busy'[e], At(e)' = <<d, x>>
      PROVE  [session |-> session, dev |-> d, cmd |-> x] \in early
  <2>1. At(e) = <<d, x>> /\ (busy[e] \/ RecordKey(e))
    BY <1>1, <1>3, HandlersMove
  <2>2. ~RecordKey(e)
    BY <1>2, <2>1 DEF RecordKey, Seen
  <2> QED BY <2>1, <2>2 DEF Settled, UnderWay
<1> QED BY <1>2, <1>3 DEF Settled, UnderWay

\* A command is settled as the hub answers it.
LEMMA SettledByReply ==
  ASSUME Types, Handlers, Next, NEW c \in Conn, AckReplay(c) \/ Execute(c) \/ Refuse(c),
         NEW d, NEW x, d = server[c], x = toHub[c][1].cmd
  PROVE  Settled(d, x)' /\ session' = session
<1>1. session' = session /\ applied' = applied /\ (NextCommand(c) \/ busy[c])
  BY DEF AckReplay, Execute, Refuse
<1>2. ~Restart
  BY <1>1, Bounds DEF Restart, Types
<1>3. At(c) = <<d, x>> /\ Entry(c) = [session |-> session, dev |-> d, cmd |-> x]
  BY <1>1, CommandFacts
<1>4. <<d, x>> \in applied'
  BY <1>1, <1>3 DEF AckReplay, Seen, Execute, Refuse, Handlers
<1>5. ASSUME NEW e \in Conn, busy'[e], At(e)' = <<d, x>>
      PROVE  busy[e] /\ At(e) = At(c)
  <2>1. At(e) = At(c) /\ (busy[e] \/ RecordKey(e))
    BY <1>2, <1>3, <1>5, HandlersMove
  <2>2. ~RecordKey(e)
    BY <1>1, <1>3, <1>4, <2>1 DEF RecordKey, Seen
  <2> QED BY <2>1, <2>2
<1>6. CASE AckReplay(c)
  <2>1. UnderWay(At(c)) => Entry(c) \in early'
    BY <1>6 DEF AckReplay
  <2>2. UnderWay(<<d, x>>)' => UnderWay(At(c))
    BY <1>5 DEF UnderWay
  <2>3. UnderWay(<<d, x>>)' => [session |-> session', dev |-> d, cmd |-> x] \in early'
    BY <1>1, <1>3, <2>1, <2>2
  <2> QED BY <1>1, <1>4, <2>3 DEF Settled
<1>7. CASE Execute(c) \/ Refuse(c)
  <2>1. busy[c] /\ ~busy'[c]
    BY <1>7 DEF Execute, Refuse, Types, HubTypes
  <2>2. ~UnderWay(<<d, x>>)'
    BY <1>5, <2>1 DEF UnderWay, Handlers
  <2> QED BY <1>1, <1>4, <2>2 DEF Settled
<1> QED BY <1>6, <1>7

\* A reply that is under way after a step was so before it, or its command is settled.
LEMMA ReplyMade ==
  ASSUME Types, Handlers, Next, NEW d \in Conn, NEW i \in DOMAIN toClient'[d],
         IsReply(toClient'[d][i])
  PROVE  \/ \E j \in DOMAIN toClient[d] : toClient'[d][i] = toClient[d][j]
         \/ \E e \in issued : \E y :
              /\ e = server[d] /\ y = toClient'[d][i].cmd
              /\ session' = session /\ Settled(e, y)'
<1> DEFINE Goal == \E e \in issued : \E y :
                     /\ e = server[d] /\ y = toClient'[d][i].cmd
                     /\ session' = session /\ Settled(e, y)'
<1>1. CASE Quiet
  BY <1>1, QuietEffects DEF OldReplies
<1>2. ASSUME NEW c \in Conn, AckReplay(c) \/ Execute(c) \/ Refuse(c)
      PROVE  (\E j \in DOMAIN toClient[d] : toClient'[d][i] = toClient[d][j]) \/ Goal
  <2>1. PICK x : x = toHub[c][1].cmd
    OBVIOUS
  <2>2. /\ Sent(c) /\ server[c] \in issued
        /\ \/ \A k : New(c, k) => toClient'[c][k] = Ack(x, 0)
           \/ \A k : New(c, k) => toClient'[c][k] \in {Ack(x, Len(log) + 1), Error(x)}
           \/ \A k : New(c, k) => toClient'[c][k] = Error(x)
    BY <1>2, <2>1, CommandEffects
  <2>3. \A k : New(c, k) => toClient'[c][k].cmd = x
    BY <2>2 DEF Ack, Error
  <2>4. CASE i \in DOMAIN toClient[d]
    BY <2>2, <2>4 DEF Sent
  <2>5. CASE i \notin DOMAIN toClient[d]
    <3>1. d = c /\ toClient'[d][i].cmd = x
      BY <2>2, <2>3, <2>5 DEF Sent, New
    <3>2. PICK e \in issued : e = server[c]
      BY <2>2
    <3>3. Settled(e, x)' /\ session' = session
      BY <1>2, <2>1, <3>2, SettledByReply
    <3>4. e = server[d] /\ x = toClient'[d][i].cmd
      BY <3>1, <3>2
    <3> QED BY <3>3, <3>4
  <2> QED BY <2>4, <2>5
<1>3. ASSUME NEW c \in Conn, HandleConnection(c)
      PROVE  \E j \in DOMAIN toClient[d] : toClient'[d][i] = toClient[d][j]
  <2>1. Sent(c) /\ \A k : New(c, k) => toClient'[c][k].type \in {"snapshot", "tip", "terminal"}
    BY <1>3, HelloEffects
  <2>2. i \in DOMAIN toClient[d]
    BY <2>1 DEF Sent, New, IsReply
  <2> QED BY <2>1, <2>2 DEF Sent
<1>4. ASSUME NEW c \in Conn, RecordKey(c)
      PROVE  \E j \in DOMAIN toClient[d] : toClient'[d][i] = toClient[d][j]
  BY <1>4 DEF RecordKey, netVars
<1> QED BY <1>1, <1>2, <1>3, <1>4, Steps DEF Quiet

\* A step to a state of calm is from one, and what is the only device was so.
LEMMA CalmFacts ==
  ASSUME Types, issued # {}, Next
  PROVE  /\ issued \subseteq issued' /\ (session' = 1 => session = 1)
         /\ \A d \in Dev : Only(d)' => Only(d) /\ session' = session
         /\ Calm' => Calm
         /\ \A d \in issued : Active(d)' => Active(d)
<1>1. issued \subseteq issued'
  <2>1. ASSUME NEW d \in Dev, NEW c \in Conn, PairSucceeds(d, c) PROVE issued \subseteq issued'
    BY <2>1 DEF PairSucceeds
  <2>2. ASSUME NEW c \in Conn, RecordKey(c) \/ AckReplay(c) \/ Execute(c) \/ Refuse(c)
        PROVE  issued' = issued
    BY <2>2 DEF RecordKey, AckReplay, Execute, Refuse
  <2> QED
    BY <2>1, <2>2, Steps
    DEF SendCommand, HandleConnection, Unregister, OnOpen, OnClose, OnSnapshot, OnTip, OnAck,
        OnError, OnTerminal, ReconnectTimer, ConnectCalled, OnGap, ConnectionLost, PairStarts,
        PairFails, Forget, Restart, RevokeDevice, hubVars
<1>2. session' = 1 => session = 1
  BY Bounds, SessionFacts DEF Types
<1>3. ASSUME NEW d \in Dev, Only(d)' PROVE Only(d) /\ session' = session
  BY <1>1, <1>2, <1>3 DEF Only
<1>4. Calm' => Calm
  BY <1>3, OverlapStays DEF Calm
<1>5. ASSUME NEW d \in issued, Active(d)' PROVE Active(d)
  <2>1. d \in Dev /\ d # None
    BY DeliveryAssumption DEF Types, HubTypes
  <2>2. d = client'.identity => d = client.identity
    BY MeetingFacts
  <2> QED BY <1>3, <1>5, <2>1, <2>2 DEF Active
<1> QED BY <1>1, <1>2, <1>3, <1>4, <1>5

\* The daemon has not just started again if something is under way.
LEMMA NoRestart ==
  ASSUME Types, Next, NEW c \in Conn, toHub'[c] # <<>>
  PROVE  session' = session /\ applied \subseteq applied'
<1>1. ~Restart
  BY DEF Restart
<1> QED BY <1>1, SessionFacts

\* A command under way was so before, or has just been sent from the outbox.
LEMMA OnTheWayFacts ==
  ASSUME Types, Types', Next, NEW d, NEW x, OnTheWay(d, x)'
  PROVE  /\ d \in issued \cup {None} /\ session' = session /\ applied \subseteq applied'
         /\ \/ OnTheWay(d, x)
            \/ \E c \in Conn : Flushes(c) /\ Bearer(c) = d /\ Contains(outbox', x)
<1>1. PICK c \in Conn : Bearer(c)' = d /\ Carries(c, x)'
  BY DEF OnTheWay
<1>2. PICK k \in DOMAIN toHub'[c] : toHub'[c][k] = CommandFrame(x)
  BY <1>1 DEF Carries
<1>3. toHub'[c][k].type = "command" /\ toHub'[c][k].cmd = x
  BY <1>2 DEF CommandFrame
<1>4. Bearer(c) = d
  BY <1>1, <1>3, BearerKept
<1>5. d \in issued \cup {None}
  BY <1>4, BearerFacts
<1>6. toHub'[c] # <<>>
  BY <1>2
<1>7. ASSUME NEW j \in DOMAIN toHub[c], toHub'[c][k] = toHub[c][j] PROVE OnTheWay(d, x)
  BY <1>2, <1>4, <1>7 DEF OnTheWay, Carries
<1>8. ASSUME Flushes(c), NEW j \in DOMAIN outbox', toHub'[c][k].cmd = outbox'[j]
      PROVE  Contains(outbox', x)
  <2>1. outbox' \in Seq(Cmd)
    BY DEF Types, ClientTypes
  <2>2. j \in 1 .. Len(outbox')
    BY <2>1
  <2> QED BY <1>3, <1>8, <2>2 DEF Contains
<1>9. \/ OnTheWay(d, x)
      \/ \E e \in Conn : Flushes(e) /\ Bearer(e) = d /\ Contains(outbox', x)
  BY <1>3, <1>4, <1>7, <1>8, CarriedFacts
<1> QED BY <1>5, <1>6, <1>9, NoRestart

\* What a flush changes, and for whom it is.
LEMMA FlushFacts ==
  ASSUME Types, Next, NEW c \in Conn, Flushes(c)
  PROVE  /\ UNCHANGED <<sock, link, hubVars>> /\ client'.identity = client.identity
         /\ client'.overlap = client.overlap /\ client'.socket = client.socket
         /\ client'.phase = "live" /\ client'.socket = c /\ sock[c] = "open" /\ link[c] = "up"
BY CaughtUpFacts DEF Flushes, SendCommand, OnSnapshot, OnTip, Keeps

\* The outbox is sent for the client's own device, or the only one.
LEMMA FlushActive ==
  ASSUME Types, Next, Calm, ~client.overlap => Alone,
         NEW c \in Conn, Flushes(c), NEW d \in issued, Bearer(c) = d
  PROVE  Active(d) /\ Active(d)'
<1>1. /\ UNCHANGED <<hubVars>> /\ client'.identity = client.identity
      /\ sock[c] = "open" /\ link[c] = "up"
  BY FlushFacts
<1>2. UNCHANGED <<session, issued>>
  BY <1>1 DEF hubVars
<1>3. CASE ~client.overlap
  <2>1. d = client.identity
    BY <1>1, <1>3, BearerAlone DEF Alone
  <2> QED BY <1>1, <2>1 DEF Active
<1>4. CASE \E e \in Dev : Only(e)
  <2>1. Only(d)
    BY <1>4 DEF Only
  <2> QED BY <1>2, <2>1 DEF Active, Only
<1> QED BY <1>3, <1>4 DEF Calm

\* How a command leaves the outbox.
LEMMA LeavesFacts ==
  ASSUME Types, Next, NEW x, Contains(outbox, x), ~Contains(outbox', x)
  PROVE  \E c \in Conn :
           /\ sock[c] = "open" /\ 1 \in DOMAIN toClient[c]
           /\ \/ IsReply(toClient[c][1]) /\ toClient[c][1].cmd = x
              \/ /\ toClient[c][1].type = "snapshot" /\ toClient[c][1].session \in 1 .. session
                 /\ client.session # 0 /\ client.session # toClient[c][1].session
<1>1. outbox \in Seq(Cmd)
  BY DEF Types, ClientTypes
<1>2. ASSUME NEW y \in Cmd, SendCommand(y) PROVE FALSE
  <2>1. outbox' = outbox \/ outbox' = Append(outbox, y)
    BY <1>2 DEF SendCommand
  <2>2. PICK i \in 1 .. Len(outbox) : outbox[i] = x
    BY DEF Contains
  <2>3. CASE outbox' = Append(outbox, y)
    <3>1. i \in 1 .. Len(outbox') /\ outbox'[i] = x
      BY <1>1, <2>2, <2>3
    <3> QED BY <3>1 DEF Contains
  <2>4. CASE outbox' = outbox
    BY <2>4
  <2> QED BY <2>1, <2>3, <2>4
<1>3. ASSUME NEW c \in Conn, NEW type \in {"ack", "error"}, Receives(c, type),
             NEW outcome, Settle(Head(toClient[c]).cmd, outcome)
      PROVE  /\ sock[c] = "open" /\ 1 \in DOMAIN toClient[c]
             /\ IsReply(toClient[c][1]) /\ toClient[c][1].cmd = x
  <2>1. /\ sock[c] = "open" /\ 1 \in DOMAIN toClient[c] /\ toClient[c][1].type = type
        /\ Head(toClient[c]) = toClient[c][1]
    BY <1>3, ReceivesFacts
  <2>2. PICK y : y = toClient[c][1].cmd
    OBVIOUS
  <2>3. outbox' = outbox \/ outbox' = Without(outbox, y)
    BY <1>3, <2>1, <2>2 DEF Settle
  <2>4. y = x
    BY <1>1, <2>3, WithoutFacts
  <2> QED BY <2>1, <2>2, <2>4 DEF IsReply
<1>4. ASSUME NEW c \in Conn, OnSnapshot(c)
      PROVE  /\ sock[c] = "open" /\ 1 \in DOMAIN toClient[c]
             /\ toClient[c][1].type = "snapshot" /\ toClient[c][1].session \in 1 .. session
             /\ client.session # 0 /\ client.session # toClient[c][1].session
  <2>1. Receives(c, "snapshot")
    BY <1>4 DEF OnSnapshot
  <2>2. /\ sock[c] = "open" /\ 1 \in DOMAIN toClient[c] /\ toClient[c][1].type = "snapshot"
        /\ Head(toClient[c]) = toClient[c][1] /\ toClient[c][1].session \in 1 .. session
    BY <2>1, ReceivesFacts, ReplyFacts
  <2>3. ForgetsOutbox(client, Head(toClient[c]).session)
    BY <1>4 DEF OnSnapshot
  <2> QED BY <2>2, <2>3 DEF ForgetsOutbox, NoSession
<1>5. ASSUME NEW c \in Conn, OnAck(c) \/ OnError(c)
      PROVE  /\ sock[c] = "open" /\ 1 \in DOMAIN toClient[c]
             /\ IsReply(toClient[c][1]) /\ toClient[c][1].cmd = x
  BY <1>3, <1>5 DEF OnAck, OnError
<1>6. \/ \E y \in Cmd : SendCommand(y)
      \/ \E c \in Conn : OnAck(c) \/ OnError(c) \/ OnSnapshot(c)
  <2>1. outbox' # outbox
    OBVIOUS
  <2> QED
    BY <2>1, Steps
    DEF HandleConnection, RecordKey, AckReplay, Execute, Refuse, Unregister, OnOpen, OnClose,
        OnTip, OnTerminal, ReconnectTimer, ConnectCalled, OnGap, ConnectionLost, PairSucceeds,
        PairStarts, PairFails, Forget, Restart, RevokeDevice, clientVars
<1> QED BY <1>2, <1>4, <1>5, <1>6

\* What is gone stays so for the session.
LEMMA GoneStays ==
  ASSUME Types, Types', Next, issued # {}, Calm', ~client.overlap => Alone,
         session' = session, NEW d \in issued, NEW x \in Cmd, Gone(d, x)
  PROVE  Gone(d, x)'
<1>1. promise'[x] # Unsent
  BY UnsentFacts DEF Gone
<1>2. Contains(outbox', x) => Contains(outbox, x)
  BY OutboxFacts DEF Gone
<1>3. d \in Dev /\ d # None
  BY DeliveryAssumption DEF Types, HubTypes
<1>4. ~OnTheWay(d, x)'
  <2> SUFFICES ASSUME OnTheWay(d, x)' PROVE FALSE
    OBVIOUS
  <2>1. PICK c \in Conn : Flushes(c) /\ Bearer(c) = d /\ Contains(outbox', x)
    BY OnTheWayFacts DEF Gone
  <2>2. Active(d)
    BY <2>1, FlushActive, CalmFacts
  <2> QED BY <1>2, <2>1, <2>2 DEF Gone
<1>5. Active(d)' => ~Contains(outbox', x)
  BY <1>2, CalmFacts DEF Gone
<1> QED BY <1>1, <1>4, <1>5 DEF Gone

\* So is what is over.
LEMMA OverStays ==
  ASSUME Types, Types', Next, issued # {}, Calm', ~client.overlap => Alone,
         session' = session,
         NEW d \in issued, NEW x \in Cmd, Over(d, x)
  PROVE  Over(d, x)'
<1>1. CASE Settled(d, x)
  BY <1>1, SettledStays DEF Over
<1>2. CASE Gone(d, x)
  BY <1>2, GoneStays DEF Over
<1> QED BY <1>1, <1>2 DEF Over

\* What the hub has answered in its only session stays settled.
LEMMA RepliedStep ==
  ASSUME Types, Handlers, Next, issued # {}, Replied
  PROVE  Replied'
<1> SUFFICES ASSUME NEW d \in issued', Only(d)', NEW c \in Conn, NEW i \in DOMAIN toClient'[c],
                    IsReply(toClient'[c][i])
             PROVE  Settled(d, toClient[c][i].cmd)'
  BY DEF Replied, IsReply
<1>1. d \in Dev /\ issued = {d} /\ Only(d) /\ session' = session
  <2>1. issued' = {d} /\ issued \subseteq issued' /\ session' = 1 /\ session = 1
    BY CalmFacts DEF Only
  <2>2. issued = {d}
    BY <2>1
  <2> QED BY <2>1, <2>2 DEF Only, Types, HubTypes
<1>2. PICK y : y = toClient'[c][i].cmd
  OBVIOUS
<1>3. ASSUME NEW j \in DOMAIN toClient[c], toClient'[c][i] = toClient[c][j]
      PROVE  Settled(d, y)'
  <2>1. IsReply(toClient[c][j]) /\ y = toClient[c][j].cmd
    BY <1>2, <1>3 DEF IsReply
  <2>2. Settled(d, y)
    BY <1>1, <2>1 DEF Replied
  <2> QED BY <1>1, <2>2, SettledStays
<1>4. ASSUME NEW e \in issued, Settled(e, y)' PROVE Settled(d, y)'
  <2>1. e = d
    BY <1>1
  <2> QED BY <1>4, <2>1 DEF Settled, UnderWay, At
<1>5. Settled(d, y)'
  BY <1>2, <1>3, <1>4, ReplyMade
<1> QED BY <1>2, <1>5 DEF Settled, UnderWay, At

\* What is under way and not yet seen by the hub stays in the outbox.
LEMMA KeptStep ==
  ASSUME Types, Types', Next, issued # {}, Calm', ~client.overlap => Alone, Kept, Replied,
         ~client.overlap => /\ \A c \in Conn : Keyed(c)
                            /\ InFlight => client.session \in {0, session}
  PROVE  Kept'
<1> SUFFICES ASSUME NEW d \in issued', NEW x \in Cmd, Active(d)', OnTheWay(d, x)',
                    ~Settled(d, x)', ~Contains(outbox', x)
             PROVE  FALSE
  BY DEF Kept
<1>1. d \in issued /\ d \in Dev /\ d # None
  <2>1. issued' \subseteq Dev
    BY DEF Types, HubTypes
  <2> QED BY <2>1, DeliveryAssumption, OnTheWayFacts
<1>2. ~Settled(d, x) /\ OnTheWay(d, x)
  BY OnTheWayFacts, SettledStays
<1>3. Active(d) /\ Calm
  BY <1>1, CalmFacts
<1>4. Contains(outbox, x)
  BY <1>1, <1>2, <1>3 DEF Kept
<1>5. PICK c \in Conn :
           /\ sock[c] = "open" /\ 1 \in DOMAIN toClient[c]
           /\ \/ IsReply(toClient[c][1]) /\ toClient[c][1].cmd = x
              \/ /\ toClient[c][1].type = "snapshot" /\ toClient[c][1].session \in 1 .. session
                 /\ client.session # 0 /\ client.session # toClient[c][1].session
  BY <1>4, LeavesFacts
<1>6. CASE Only(d)
  <2>1. IsReply(toClient[c][1]) => Settled(d, toClient[c][1].cmd)
    BY <1>1, <1>5, <1>6 DEF Replied
  <2>2. client.session \in 0 .. 1 /\ session = 1
    <3>1. client \in Clients(issued, session)
      BY DEF Types, ClientTypes
    <3> QED BY <1>6, <3>1, ClientFields DEF Only, Typed
  <2> QED BY <1>2, <1>5, <2>1, <2>2
<1>7. CASE ~Only(d)
  <2>1. d = client.identity /\ ~client.overlap
    BY <1>1, <1>3, <1>7 DEF Active, Calm, Only
  <2>2. InFlight
    BY <1>1, <1>2, <2>1 DEF InFlight
  <2>3. Keyed(c) /\ client.session \in {0, session}
    BY <2>1, <2>2
  <2>4. /\ IsReply(toClient[c][1]) => Settled(d, toClient[c][1].cmd)
        /\ toClient[c][1].type = "snapshot" => toClient[c][1].session = session
    BY <1>5, <2>1, <2>2, <2>3 DEF Keyed, IsSnapshot
  <2> QED BY <1>2, <1>5, <2>3, <2>4
<1> QED BY <1>6, <1>7

\* A snapshot under way was so before, or is of the session of today.
LEMMA SnapshotMade ==
  ASSUME Types, Next, NEW d \in Conn, NEW i \in DOMAIN toClient'[d],
         toClient'[d][i].type = "snapshot"
  PROVE  \/ \E j \in DOMAIN toClient[d] : toClient'[d][i] = toClient[d][j]
         \/ toClient'[d][i].session = session /\ session' = session
<1>1. CASE Quiet
  BY <1>1, QuietEffects DEF OldReplies
<1>2. ASSUME NEW c \in Conn, AckReplay(c) \/ Execute(c) \/ Refuse(c)
      PROVE  \E j \in DOMAIN toClient[d] : toClient'[d][i] = toClient[d][j]
  <2> DEFINE x == toHub[c][1].cmd
  <2>1. /\ Sent(c)
        /\ \/ \A k : New(c, k) => toClient'[c][k] = Ack(x, 0)
           \/ \A k : New(c, k) => toClient'[c][k] \in {Ack(x, Len(log) + 1), Error(x)}
           \/ \A k : New(c, k) => toClient'[c][k] = Error(x)
    BY <1>2, CommandEffects
  <2> HIDE DEF x
  <2>2. \A k : New(c, k) => toClient'[c][k].type # "snapshot"
    BY <2>1 DEF Ack, Error
  <2>3. i \in DOMAIN toClient[d]
    BY <2>1, <2>2 DEF Sent, New
  <2> QED BY <2>1, <2>3 DEF Sent
<1>3. ASSUME NEW c \in Conn, HandleConnection(c)
      PROVE  \/ \E j \in DOMAIN toClient[d] : toClient'[d][i] = toClient[d][j]
             \/ toClient'[d][i].session = session /\ session' = session
  <2>1. /\ Sent(c)
        /\ \A k : New(c, k) /\ toClient'[c][k].type = "snapshot"
                   => toClient'[c][k].session = session
    BY <1>3, HelloEffects
  <2>2. session' = session
    BY <1>3 DEF HandleConnection
  <2>3. CASE i \in DOMAIN toClient[d]
    BY <2>1, <2>3 DEF Sent
  <2>4. CASE i \notin DOMAIN toClient[d]
    BY <2>1, <2>2, <2>4 DEF Sent, New
  <2> QED BY <2>3, <2>4
<1>4. ASSUME NEW c \in Conn, RecordKey(c)
      PROVE  \E j \in DOMAIN toClient[d] : toClient'[d][i] = toClient[d][j]
  BY <1>4 DEF RecordKey, netVars
<1> QED BY <1>1, <1>2, <1>3, <1>4, Steps DEF Quiet

\* A socket that has something to take was open before, on a connection that was
\* no worse, and its client is the device it was.
LEMMA StayingFacts ==
  ASSUME Types, Types', Alone, Next, ~client'.overlap, NEW c \in Conn,
         sock'[c] # "free", toClient'[c] # <<>>
  PROVE  /\ sock[c] # "free" /\ client'.identity = client.identity
         /\ link'[c] = "up" =>
              link[c] = "up" /\ session' = session /\ applied \subseteq applied'
<1>1. ASSUME NEW d \in Conn, Opened(d) PROVE FALSE
  <2>1. sock[c] = "free"
    BY <1>1 DEF Opened
  <2>2. c = d
    BY <1>1, <2>1 DEF Opened
  <2> QED BY <1>1, <2>2 DEF Opened
<1>2. ASSUME NEW d \in Conn, ConnectCalled(d) PROVE FALSE
  BY <1>1, <1>2, ConnectCalledFacts
<1>3. ASSUME NEW d \in Conn, NEW e \in Dev, PairSucceeds(e, d) PROVE FALSE
  BY <1>1, <1>3, PairSucceedsFacts
<1>4. ASSUME NEW d \in Conn, ReconnectTimer(d)
      PROVE  UNCHANGED <<sock, link, hubVars>> /\ client'.identity = client.identity
  BY <1>1, <1>4, ReconnectTimerFacts
<1>5. sock[c] # "free"
  <2>1. sock \in [Conn -> {"free", "dialing", "open"}]
    BY DEF Types, ClientTypes
  <2>2. ASSUME NEW d \in Conn, OnOpen(d) PROVE sock[c] # "free"
    BY <2>1, <2>2 DEF OnOpen
  <2>3. ASSUME NEW d \in Conn, OnClose(d) PROVE sock[c] # "free"
    BY <2>3, OnCloseFacts DEF Freed
  <2>4. ASSUME NEW d \in Conn, OnGap(d) \/ OnTerminal(d) PROVE sock[c] # "free"
    BY <2>4, OnGapFacts, OnTerminalFacts DEF Released
  <2>5. ASSUME sock' = sock PROVE sock[c] # "free"
    BY <2>5
  <2> QED
    BY <1>2, <1>3, <1>4, <2>2, <2>3, <2>4, <2>5, Steps
    DEF SendCommand, HandleConnection, RecordKey, AckReplay, Execute, Refuse, Unregister,
        OnSnapshot, OnTip, OnAck, OnError, ConnectionLost, PairStarts, PairFails, Forget,
        Restart, RevokeDevice,
        clientVars
<1>6. client'.identity = client.identity
  <2>1. ~Forget
    BY <1>5 DEF Forget, NeedsPairing, Alone, OwnSocket
  <2>2. ASSUME NEW d \in Conn,
               OnClose(d) \/ OnSnapshot(d) \/ OnTip(d) \/ OnGap(d) \/ OnTerminal(d)
        PROVE  client'.identity = client.identity
    BY <2>2, OnCloseFacts, CaughtUpFacts, OnGapFacts, OnTerminalFacts DEF Keeps
  <2>3. PairStarts \/ PairFails => client'.identity = client.identity
    BY PairScreenFacts
  <2>4. client' = client => client'.identity = client.identity
    OBVIOUS
  <2> QED
    BY <1>2, <1>3, <1>4, <2>1, <2>2, <2>3, <2>4, Steps
    DEF SendCommand, HandleConnection, RecordKey, AckReplay, Execute, Refuse, Unregister, OnOpen,
        OnAck, OnError, ConnectionLost, Restart, RevokeDevice, clientVars
<1>7. ASSUME link'[c] = "up" PROVE link[c] = "up"
  <2>1. link \in [Conn -> {"up", "shut", "down"}]
    BY DEF Types, WireTypes
  <2>2. ASSUME NEW d \in Conn, HandleConnection(d) PROVE link[c] = "up"
    BY <1>7, <2>1, <2>2, HelloEffects
  <2>3. ASSUME NEW d \in Conn, OnGap(d) \/ OnTerminal(d) PROVE link[c] = "up"
    BY <1>7, <2>3, ReleaseFacts
  <2>4. ASSUME NEW d \in Conn, ConnectionLost(d) PROVE link[c] = "up"
    BY <1>7, <2>1, <2>4 DEF ConnectionLost
  <2>5. Restart => link[c] = "up"
    BY <1>7, <2>1 DEF Restart
  <2>6. ASSUME link' = link PROVE link[c] = "up"
    BY <1>7, <2>6
  <2> QED
    BY <1>2, <1>3, <1>4, <2>2, <2>3, <2>4, <2>5, <2>6, Steps
    DEF SendCommand, RecordKey, AckReplay, Execute, Refuse, Unregister, OnOpen, OnClose,
        OnSnapshot, OnTip, OnAck, OnError, PairStarts, PairFails, Forget, RevokeDevice, netVars
<1>8. ASSUME link'[c] = "up" PROVE session' = session /\ applied \subseteq applied'
  <2>1. ~Restart
    BY <1>8 DEF Restart, Types, WireTypes
  <2> QED BY <2>1, SessionFacts
<1> QED BY <1>5, <1>6, <1>7, <1>8

\* Something of its device is under way to the hub from a client that has, and
\* had, an open socket.
LEMMA FlightFacts ==
  ASSUME Types, Types', Alone, Next, ~client.overlap, InFlight',
         client'.identity = client.identity
  PROVE  /\ session' = session /\ applied \subseteq applied'
         /\ \/ InFlight
            \/ \E c \in Conn : /\ Flushes(c)
                               /\ \A d \in Conn : sock[d] # "free" => link[d] = "up"
<1>1. PICK x \in Cmd : OnTheWay(client.identity, x)'
  BY DEF InFlight
<1>2. PICK d : d = client'.identity
  OBVIOUS
<1>3. d # None /\ d = client.identity
  BY <1>2 DEF InFlight
<1>4. OnTheWay(d, x)'
  BY <1>1, <1>2 DEF OnTheWay
<1>5. ASSUME OnTheWay(d, x) PROVE InFlight
  BY <1>3, <1>5 DEF InFlight, OnTheWay
<1>6. ASSUME NEW c \in Conn, Flushes(c)
      PROVE  \A d1 \in Conn : sock[d1] # "free" => link[d1] = "up"
  BY <1>6, FlushFacts DEF Alone, OwnSocket
<1> QED BY <1>4, <1>5, <1>6, OnTheWayFacts

\* What the hub has answered a client without a second socket is settled, as long
\* as a second answer may come of it; a snapshot is of the session.
LEMMA KeyedStep ==
  ASSUME Types, Types', Handlers, Alone, Next, ~client.overlap, ~client'.overlap,
         \A c \in Conn : Keyed(c), NEW c \in Conn
  PROVE  Keyed(c)'
<1> SUFFICES ASSUME sock'[c] # "free", link'[c] = "up" \/ InFlight',
                    NEW i \in DOMAIN toClient'[c]
             PROVE  /\ IsReply(toClient'[c][i]) =>
                         Settled(client.identity, toClient[c][i].cmd)'
                    /\ IsSnapshot(c, i)' => toClient'[c][i].session = session'
  BY DEF Keyed, IsReply
<1>1. toClient'[c] # <<>>
  OBVIOUS
<1>2. sock[c] # "free" /\ client'.identity = client.identity
  BY <1>1, StayingFacts
<1>3. /\ session' = session
      /\ link[c] = "up" \/ InFlight
  <2>1. CASE link'[c] = "up"
    BY <1>1, <2>1, StayingFacts
  <2>2. CASE InFlight'
    BY <1>2, <2>2, FlightFacts
  <2> QED BY <2>1, <2>2
<1>4. \A j \in DOMAIN toClient[c] :
        /\ IsReply(toClient[c][j]) => Settled(client.identity, toClient[c][j].cmd)
        /\ IsSnapshot(c, j) => toClient[c][j].session = session
  BY <1>2, <1>3 DEF Keyed
<1>5. ASSUME IsReply(toClient'[c][i])
      PROVE  Settled(client.identity, toClient[c][i].cmd)'
  <2>1. PICK d, y : d = client.identity /\ y = toClient'[c][i].cmd
    OBVIOUS
  <2>2. ASSUME NEW j \in DOMAIN toClient[c], toClient'[c][i] = toClient[c][j]
        PROVE  Settled(d, y)'
    <3>1. IsReply(toClient[c][j]) /\ y = toClient[c][j].cmd
      BY <1>5, <2>1, <2>2
    <3>2. Settled(d, y)
      BY <1>4, <2>1, <3>1
    <3> QED BY <1>3, <3>2, SettledStays
  <2>3. ASSUME NEW e \in issued, e = server[c], Settled(e, y)' PROVE Settled(d, y)'
    <3>1. server[c] # None
      BY <2>3, Bounds DEF Types
    <3>2. e = d
      BY <1>2, <2>1, <2>3, <3>1 DEF Alone, OwnSocket
    <3> QED BY <2>3, <3>2 DEF Settled, UnderWay, At
  <2>4. Settled(d, y)'
    BY <1>5, <2>1, <2>2, <2>3, ReplyMade
  <2> QED BY <1>2, <2>1, <2>4 DEF Settled, UnderWay, At
<1>6. ASSUME IsSnapshot(c, i)' PROVE toClient'[c][i].session = session'
  <2>1. toClient'[c][i].type = "snapshot"
    BY <1>6 DEF IsSnapshot
  <2>2. ASSUME NEW j \in DOMAIN toClient[c], toClient'[c][i] = toClient[c][j]
        PROVE  toClient'[c][i].session = session'
    <3>1. IsSnapshot(c, j)
      BY <2>1, <2>2 DEF IsSnapshot
    <3> QED BY <1>3, <1>4, <2>2, <3>1
  <2> QED BY <2>1, <2>2, SnapshotMade
<1> QED BY <1>5, <1>6

\* A client whose commands are under way has met the session of the hub, or is
\* about to meet it.
LEMMA FlightStep ==
  ASSUME Types, Types', Alone, Next, ~client.overlap, InFlight',
         \A c \in Conn : Keyed(c), InFlight => client.session \in {0, session},
         \A c \in Conn : Met(c)'
  PROVE  client'.session \in {0, session'}
<1>1. client'.identity = client.identity
  <2> SUFFICES ASSUME client'.identity \notin issued PROVE FALSE
    BY MeetingFacts
  <2>1. PICK x \in Cmd : OnTheWay(client.identity, x)'
    BY DEF InFlight
  <2>2. PICK d : d = client'.identity
    OBVIOUS
  <2>3. OnTheWay(d, x)'
    BY <2>1, <2>2 DEF OnTheWay
  <2>4. d \in issued \cup {None}
    BY <2>3, OnTheWayFacts
  <2> QED BY <2>2, <2>4 DEF InFlight
<1>2. session' = session
  BY <1>1, FlightFacts
<1>3. CASE InFlight
  <2>1. ASSUME NEW c \in Conn, OnSnapshot(c), client'.session = toClient[c][1].session
        PROVE  client'.session = session
    <3>1. Receives(c, "snapshot")
      BY <2>1 DEF OnSnapshot
    <3>2. sock[c] = "open" /\ 1 \in DOMAIN toClient[c] /\ toClient[c][1].type = "snapshot"
      BY <3>1, ReceivesFacts
    <3>3. toClient[c][1].session = session
      BY <1>3, <3>2 DEF Keyed, IsSnapshot
    <3> QED BY <2>1, <3>3
  <2>2. client'.identity \in issued
    <3>1. client \in Clients(issued, session)
      BY DEF Types, ClientTypes
    <3> QED BY <1>1, <1>3, <3>1, ClientFields DEF Typed, InFlight
  <2> QED BY <1>2, <1>3, <2>1, <2>2, MeetingFacts DEF NoSession
<1>4. ASSUME NEW c \in Conn, Flushes(c) PROVE client'.session = session'
  <2>1. /\ UNCHANGED <<sock, link>> /\ client'.phase = "live"
        /\ sock[c] = "open" /\ link[c] = "up"
    BY <1>4, FlushFacts
  <2> QED BY <2>1 DEF Met
<1> QED BY <1>1, <1>3, <1>4, FlightFacts

\* A command that is sent, or that moves up, has its turn.
LEMMA TurnsStep ==
  ASSUME Types, Types', Box', Handlers, Next, issued # {}, Calm', ~client.overlap => Alone,
         InTurn', Sorted(outbox'), Kept', NEW c \in Conn, Turns(c)
  PROVE  Turns(c)'
<1> SUFFICES ASSUME Bearer(c)' # None, NEW k \in DOMAIN toHub'[c],
                    toHub'[c][k].type = "command", NEW x \in Cmd, x < toHub'[c][k].cmd
             PROVE  \/ Over(Bearer(c), x)'
                    \/ \E j \in DOMAIN toHub'[c] : j < k /\ toHub'[c][j] = CommandFrame(x)
  BY DEF Turns
<1>1. PICK d \in issued : d = Bearer(c) /\ d = Bearer(c)'
  BY BearerKept, BearerFacts
<1>2. session' = session /\ applied \subseteq applied'
  <2>1. toHub'[c] # <<>>
    OBVIOUS
  <2> QED BY <2>1, NoRestart
<1>3. Over(d, x)' => Over(Bearer(c), x)'
  BY <1>1 DEF Over, Settled, UnderWay, At, Gone, Active, Only, OnTheWay
<1>4. Over(Bearer(c), x) => Over(d, x)'
  <2>1. Over(Bearer(c), x) => Over(d, x)
    BY <1>1
  <2> QED BY <1>2, <2>1, OverStays
<1>5. ASSUME NEW i \in DOMAIN toHub[c], toHub[c][i] = toHub'[c][k]
      PROVE  \/ Over(d, x)'
             \/ \E j \in DOMAIN toHub[c] : j < i /\ toHub[c][j] = CommandFrame(x)
  BY <1>1, <1>4, <1>5 DEF Turns
<1>6. /\ toHub[c] \in Seq(Frames(issued)) /\ toHub'[c] \in Seq(Frames(issued'))
      /\ outbox' \in Seq(Cmd)
  BY DEF Types, WireTypes, ClientTypes
<1>7. PICK n, n1 \in Nat : DOMAIN toHub[c] = 1 .. n /\ DOMAIN toHub'[c] = 1 .. n1
  BY <1>6
<1>8. CASE Shortened(c)
  <2>1. k \in DOMAIN toHub[c] /\ toHub[c][k] = toHub'[c][k]
    BY <1>8 DEF Shortened
  <2>2. ASSUME NEW j \in DOMAIN toHub[c], j < k, toHub[c][j] = CommandFrame(x)
        PROVE  j \in DOMAIN toHub'[c] /\ toHub'[c][j] = CommandFrame(x)
    <3>1. j \in DOMAIN toHub'[c]
      BY <1>7, <2>2
    <3> QED BY <1>8, <2>2, <3>1 DEF Shortened
  <2> QED BY <1>3, <1>5, <2>1, <2>2
<1>9. CASE Begun(c)
  <2>1. k \in Nat \ {0} /\ k + 1 \in DOMAIN toHub[c] /\ toHub[c][k + 1] = toHub'[c][k]
    BY <1>9 DEF Begun, ReadOne
  <2>2. ASSUME NEW j \in DOMAIN toHub[c], j < k + 1, toHub[c][j] = CommandFrame(x)
        PROVE  \/ Over(d, x)'
               \/ \E i \in DOMAIN toHub'[c] : i < k /\ toHub'[c][i] = CommandFrame(x)
    <3>1. CASE j = 1
      <4>1. toHub[c][1].type = "command" /\ toHub[c][1].cmd = x
        BY <2>2, <3>1 DEF CommandFrame
      <4>2. d = server[c] /\ (AckReplay(c) \/ Execute(c) \/ Refuse(c))
        BY <1>1, <1>9, <4>1 DEF Begun
      <4>3. Settled(d, x)'
        BY <4>1, <4>2, SettledByReply
      <4> QED BY <4>3 DEF Over
    <3>2. CASE j # 1
      <4>1. PICK i \in 1 .. n1 : j = i + 1 /\ i < k
        <5>1. j \in 1 .. n /\ k \in 1 .. n1
          BY <1>7
        <5>2. j - 1 \in 1 .. n1 /\ j = (j - 1) + 1 /\ j - 1 < k
          BY <2>2, <3>2, <5>1
        <5> QED BY <5>2
      <4>2. toHub'[c][i] = toHub[c][j]
        BY <1>7, <1>9, <4>1 DEF Begun, ReadOne
      <4> QED BY <1>7, <2>2, <4>1, <4>2
    <3> QED BY <3>1, <3>2
  <2> QED BY <1>3, <1>5, <2>1, <2>2
<1>10. CASE Flushes(c) /\ Behind(c, outbox')
  <2>1. PICK l \in Nat :
          /\ DOMAIN toHub[c] = 1 .. l
          /\ \A i \in DOMAIN toHub[c] : i \in DOMAIN toHub'[c] /\ toHub'[c][i] = toHub[c][i]
          /\ \A m \in DOMAIN outbox' :
               l + m \in DOMAIN toHub'[c] /\ toHub'[c][l + m] = CommandFrame(outbox'[m])
          /\ \A i \in DOMAIN toHub'[c] :
               i \in DOMAIN toHub[c] \/ \E m \in DOMAIN outbox' : i = l + m
    BY <1>10 DEF Behind
  <2>2. CASE k \in DOMAIN toHub[c]
    BY <1>3, <1>5, <2>1, <2>2
  <2>3. ASSUME NEW m \in DOMAIN outbox', k = l + m
        PROVE  \/ Over(d, x)'
               \/ \E j \in DOMAIN toHub'[c] : j < k /\ toHub'[c][j] = CommandFrame(x)
    <3>1. outbox'[m] \in Cmd /\ x < outbox'[m]
      <4>1. toHub'[c][k] = CommandFrame(outbox'[m])
        BY <2>1, <2>3
      <4> QED BY <1>6, <4>1 DEF CommandFrame
    <3>2. CASE Contains(outbox', x)
      <4>1. PICK b \in Nat : DOMAIN outbox' = 1 .. b /\ b = Len(outbox')
        BY <1>6
      <4>2. PICK i \in 1 .. b : outbox'[i] = x
        BY <3>2, <4>1 DEF Contains
      <4>3. i < m
        <5>1. i # m /\ ~(m < i)
          BY <3>1, <4>1, <4>2 DEF Sorted, Cmd
        <5> QED BY <4>1, <5>1
      <4>4. l + i < k
        BY <2>3, <4>1, <4>3
      <4> QED BY <2>1, <4>1, <4>2, <4>4
    <3>3. CASE ~Contains(outbox', x)
      <4>1. promise'[outbox'[m]] = Pending
        BY DEF Box, OutboxMatchesPromises
      <4>2. promise'[x] # Unsent
        BY <3>1, <4>1 DEF InTurn, Unsent, Pending
      <4>3. d \in issued' /\ Active(d)'
        BY <1>1, <1>10, CalmFacts, FlushActive
      <4>4. OnTheWay(d, x)' => Settled(d, x)'
        BY <3>3, <4>3 DEF Kept
      <4> QED BY <3>3, <4>2, <4>4 DEF Over, Gone
    <3> QED BY <3>2, <3>3
  <2> QED BY <1>3, <2>1, <2>2, <2>3
<1> QED BY <1>8, <1>9, <1>10, QueueFacts

\* The command at the head of a connection has its turn as it is executed.
LEMMA LogTurnsStep ==
  ASSUME Types, Types', Next, issued # {}, Calm', ~client.overlap => Alone,
         LogTurns, \A c \in Conn : Turns(c)
  PROVE  LogTurns'
<1> SUFFICES ASSUME NEW i \in DOMAIN log', log'[i].session = session',
                    NEW x \in Cmd, x < log'[i].cmd
             PROVE  Over(log[i].dev, x)'
  BY DEF LogTurns
<1>1. session' = session /\ applied \subseteq applied'
  <2> SUFFICES ASSUME Restart, session' = session + 1, log' = log PROVE FALSE
    BY SessionFacts
  <2> QED BY LoggedFacts
<1>2. PICK d : d = log'[i].dev
  OBVIOUS
<1>3. d \in issued /\ Over(d, x)
  <2>1. CASE i \in DOMAIN log /\ log'[i] = log[i]
    <3>1. d \in issued
      BY <1>2, <2>1, LoggedFacts
    <3>2. Over(log[i].dev, x)
      BY <1>1, <2>1 DEF LogTurns
    <3>3. d = log[i].dev
      BY <1>2, <2>1
    <3> QED BY <3>1, <3>2, <3>3
  <2>2. CASE ~(i \in DOMAIN log /\ log'[i] = log[i])
    <3>1. PICK c \in Conn :
             /\ server[c] \in issued /\ 1 \in DOMAIN toHub[c]
             /\ toHub[c][1].type = "command"
             /\ d = server[c] /\ log'[i].cmd = toHub[c][1].cmd
      BY <1>2, <2>2, EntryFacts
    <3>2. Bearer(c) = d /\ d # None
      BY <3>1, BearerFacts, Bounds DEF Types
    <3>3. \/ Over(Bearer(c), x)
          \/ \E j \in DOMAIN toHub[c] : j < 1
      BY <3>1, <3>2 DEF Turns
    <3>4. ~ \E j \in DOMAIN toHub[c] : j < 1
      <4>1. toHub[c] \in Seq(Frames(issued))
        BY DEF Types, WireTypes
      <4> QED BY <4>1
    <3> QED BY <3>1, <3>2, <3>3, <3>4
  <2> QED BY <2>1, <2>2
<1>4. Over(d, x)'
  BY <1>1, <1>3, OverStays
<1> QED BY <1>2, <1>4 DEF Over, Settled, UnderWay, At, Gone, Active, Only, OnTheWay

\* A command is executed in its turn, unless it has been overtaken.
LEMMA InOrderStep ==
  ASSUME Types, Types', Next, issued # {}, Handlers, InOrder,
         Calm => LogTurns
  PROVE  InOrder'
<1> SUFFICES ASSUME NEW i \in DOMAIN log', NEW j \in DOMAIN log', i < j,
                    log'[i].dev = log'[j].dev, log'[i].session = log'[j].session,
                    ~(log'[i].cmd < log'[j].cmd),
                    ~(/\ client'.overlap
                      /\ log'[i].session > 1 \/ issued' # {log'[i].dev}),
                    log'[j] \notin early'
             PROVE  FALSE
  BY DEF InOrder
<1>1. log \in Seq(Entries(issued, session)) /\ \A n \in DOMAIN log : log[n] \in Entries(issued, session)
  BY DEF Types, HubTypes
<1>2. CASE i \in DOMAIN log /\ j \in DOMAIN log /\ log'[i] = log[i] /\ log'[j] = log[j]
  <2>1. client.overlap /\ (log[i].session > 1 \/ issued # {log[i].dev})
    BY <1>2, HistoryGrows DEF InOrder
  <2>2. client'.overlap
    BY <2>1, OverlapStays
  <2>3. issued # {log[i].dev} => issued' # {log[i].dev}
    BY CalmFacts
  <2> QED BY <1>2, <2>1, <2>2, <2>3
<1>3. CASE log' # log
  <2>1. PICK c \in Conn, n \in DOMAIN log' :
          /\ \A m \in DOMAIN log : log'[m] = log[m]
          /\ DOMAIN log' = DOMAIN log \cup {n} /\ \A m \in DOMAIN log : m < n
          /\ session' = session
          /\ server[c] \in issued /\ 1 \in DOMAIN toHub[c]
          /\ toHub[c][1].type = "command" /\ toHub[c][1].cmd \in Cmd
          /\ busy[c] /\ log'[n] = Entry(c)
          /\ log'[n].session = session /\ log'[n].dev = server[c]
          /\ log'[n].cmd = toHub[c][1].cmd
    BY <1>3, EntryFacts
  <2>2. i # n
    <3>1. \A m \in DOMAIN log : m \in Nat
      BY <1>1
    <3>2. n \in Nat
      BY DEF Types, HubTypes
    <3> QED BY <2>1, <3>1, <3>2
  <2>3. i \in DOMAIN log /\ log'[i] = log[i]
    BY <2>1, <2>2
  <2>4. CASE j # n
    BY <1>2, <2>1, <2>3, <2>4
  <2>5. CASE j = n
    <3> DEFINE y == toHub[c][1].cmd
               d == server[c]
    <3>1. /\ log[i].session = session /\ log[i].dev = d /\ i \in DOMAIN log
          /\ log'[i] = log[i]
      BY <2>1, <2>3, <2>5
    <3>2. log[i].cmd \in Cmd /\ ~(log[i].cmd < y)
      BY <1>1, <2>1, <2>5, <3>1 DEF Entries
    <3>3. log[i].cmd # y
      <4>1. log[i] = [session |-> log[i].session, dev |-> log[i].dev, cmd |-> log[i].cmd]
        BY <1>1, <3>1 DEF Entries
      <4>2. Entry(c) = [session |-> session, dev |-> d, cmd |-> y]
        BY <2>1, CommandFacts
      <4>3. log[i] # Entry(c)
        BY <2>1, <3>1 DEF Handlers
      <4> QED BY <3>1, <4>1, <4>2, <4>3
    <3>4. y < log[i].cmd
      BY <2>1, <3>2, <3>3 DEF Cmd
    <3>5. Calm'
      <4>1. ~client'.overlap \/ (session \in Nat /\ ~(session > 1) /\ issued' = {d})
        BY <2>1, <3>1, Bounds DEF Types
      <4>2. d \in Dev
        BY <2>1 DEF Types, HubTypes
      <4>3. session = 1 \/ ~client'.overlap
        BY <4>1, Bounds DEF Types
      <4> QED BY <2>1, <4>1, <4>2, <4>3 DEF Calm, Only
    <3>6. Over(log[i].dev, y)
      BY <2>1, <3>1, <3>4, <3>5, CalmFacts DEF LogTurns
    <3>7. Over(d, y)
      BY <3>1, <3>6
    <3>8. ~OnTheWay(d, y)
      <4>1. /\ At(c) = <<d, y>> /\ Entry(c) = [session |-> session, dev |-> d, cmd |-> y]
        BY <2>1, CommandFacts
      <4>2. Entry(c) \notin early
        BY <2>1, <2>5, HistoryGrows
      <4>3. ~Settled(d, y)
        BY <2>1, <4>1, <4>2 DEF Settled, UnderWay
      <4> QED BY <3>7, <4>3 DEF Over, Gone
    <3>9. Bearer(c) = d
      BY <2>1, BearerFacts, Bounds DEF Types
    <3>10. toHub[c][1] = CommandFrame(y)
      <4>1. toHub[c][1] \in Frames(issued)
        BY <2>1 DEF Types, WireTypes
      <4> QED BY <2>1, <4>1 DEF Frames, CommandFrame
    <3> QED BY <2>1, <3>8, <3>9, <3>10 DEF OnTheWay, Carries
  <2> QED BY <2>4, <2>5
<1> QED BY <1>2, <1>3

\* Nothing has been issued, and nothing is under way, at first.
LEMMA OrderlyInit == Init => Orderly
<1> SUFFICES ASSUME Init PROVE Orderly
  OBVIOUS
<1>1. /\ issued = {FirstDev} /\ log = <<>> /\ outbox = <<>> /\ promise = [x \in Cmd |-> Unsent]
      /\ client.overlap = FALSE /\ client.session = 0
      /\ \A c \in Conn : toHub[c] = <<>> /\ toClient[c] = <<>> /\ sock[c] = "free"
  BY DEF Init, NoSession
<1>2. \A d, x : ~OnTheWay(d, x)
  BY <1>1 DEF OnTheWay, Carries
<1>3. InTurn /\ Sorted(outbox) /\ Replied /\ Kept /\ LogTurns /\ InOrder
  BY <1>1, <1>2 DEF InTurn, Sorted, Replied, Kept, LogTurns, InOrder
<1>4. \A c \in Conn : Keyed(c) /\ Turns(c)
  BY <1>1 DEF Keyed, Turns
<1> QED BY <1>1, <1>3, <1>4 DEF Orderly

\* Every step keeps the order of what is in the outbox, under way and executed.
LEMMA OrderlyStep ==
  ASSUME Types, Types', Box, Box', Prompts, Keys, Keys', Orderly, [Next]_vars
  PROVE  Orderly'
<1>1. CASE Next
  <2>1. /\ issued # {} /\ InTurn /\ Sorted(outbox) /\ Replied /\ InOrder
        /\ ~client.overlap => /\ \A c \in Conn : Keyed(c)
                              /\ InFlight => client.session \in {0, session}
        /\ Calm => Kept /\ LogTurns /\ \A c \in Conn : Turns(c)
    BY DEF Orderly
  <2>2. ~client.overlap => Alone
    BY DEF Prompts
  <2>3. issued' # {}
    BY <1>1, <2>1, CalmFacts
  <2>4. InTurn' /\ Sorted(outbox')
    BY <1>1, <2>1, InTurnStep, SortedStep
  <2>5. Replied'
    BY <1>1, <2>1, RepliedStep DEF Keys
  <2>6. ASSUME ~client'.overlap
        PROVE  /\ (\A c \in Conn : Keyed(c))'
               /\ InFlight' => client'.session \in {0, session'}
    <3>1. ~client.overlap /\ Alone
      BY <2>2, <2>6, OverlapStays
    <3>2. (\A c \in Conn : Met(c))'
      BY <2>6 DEF Keys, NotAgain
    <3> QED BY <1>1, <2>1, <2>6, <3>1, <3>2, KeyedStep, FlightStep DEF Keys
  <2>7. ASSUME Calm' PROVE Kept' /\ LogTurns' /\ (\A c \in Conn : Turns(c))'
    <3>1. Kept /\ LogTurns /\ \A c \in Conn : Turns(c)
      BY <1>1, <2>1, <2>7, CalmFacts
    <3>2. Kept'
      BY <1>1, <2>1, <2>2, <2>7, <3>1, KeptStep
    <3>3. LogTurns'
      BY <1>1, <2>1, <2>2, <2>7, <3>1, LogTurnsStep
    <3>4. (\A c \in Conn : Turns(c))'
      BY <1>1, <2>1, <2>2, <2>4, <2>7, <3>1, <3>2, TurnsStep DEF Keys
    <3> QED BY <3>2, <3>3, <3>4
  <2>8. InOrder'
    BY <1>1, <2>1, InOrderStep DEF Keys
  <2> QED BY <2>3, <2>4, <2>5, <2>6, <2>7, <2>8 DEF Orderly
<1>2. CASE UNCHANGED vars
  BY <1>2
  DEF Orderly, InTurn, Sorted, Replied, IsReply, Only, Keyed, IsSnapshot, InFlight, OnTheWay,
      Carries, Bearer, Calm, Kept, Active, LogTurns, Turns, Over, Gone, Settled, UnderWay, At,
      InOrder, Contains, vars, hubVars, netVars, clientVars
<1> QED BY <1>1, <1>2

\* Prompts are executed in the order they were typed in, unless sockets overlap
\* in a later session or once the device has been paired again, or the earlier one
\* was overtaken: its resend was acked while its first attempt was under way.
THEOREM OrderCorrect == Spec => []InOrder
<1>1. Init => Types /\ Box /\ Prompts /\ Keys /\ Orderly
  BY TypesInit, BoxInit, PromptsInit, KeysInit, OrderlyInit
<1>2. Types /\ Box /\ Prompts /\ Keys /\ Orderly /\ [Next]_vars
        => (Types /\ Box /\ Prompts /\ Keys /\ Orderly)'
  BY TypesStep, BoxStep, PromptsStep, KeysStep, OrderlyStep
<1>3. Orderly => InOrder
  BY DEF Orderly
<1> QED BY <1>1, <1>2, <1>3, PTL DEF Spec
=============================================================================
