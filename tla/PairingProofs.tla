--------------------------- MODULE PairingProofs ---------------------------
(***************************************************************************)
(* Theorems about Pairing, for any apps, codes and tokens, any number of   *)
(* connections and any answers of the human.                               *)
(***************************************************************************)
EXTENDS Pairing, SequenceLemmas, FiniteSetTheorems

-----------------------------------------------------------------------------
(* Connections *)

\* A connection is an app and the number of its attempt.
LEMMA ConnFacts ==
  ASSUME NEW c \in Conn
  PROVE  c[1] \in App /\ c[2] \in Nat \ {0} /\ c = <<c[1], c[2]>>
<1>1. PICK a \in App, b \in Bound : c \in {a} \X (1 .. b[a])
  BY DEF Conn
<1>2. b[a] \in Nat
  BY PairingBounds
<1> QED BY <1>1, <1>2

-----------------------------------------------------------------------------
(* The attempts of an app *)

IsSeq(s) == \E S : s \in Seq(S)

\* What Append leaves of a sequence.
LEMMA AppendedSeq ==
  ASSUME NEW s, IsSeq(s), NEW e
  PROVE  /\ IsSeq(Append(s, e)) /\ Len(s) \in Nat
         /\ Len(Append(s, e)) = Len(s) + 1
         /\ \A i \in 1 .. Len(s) : Append(s, e)[i] = s[i]
         /\ Append(s, e)[Len(s) + 1] = e
         /\ DOMAIN s = 1 .. Len(s)
<1>1. PICK S : s \in Seq(S)
  BY DEF IsSeq
<1>2. s \in Seq(S \cup {e}) /\ e \in S \cup {e}
  BY <1>1
<1> QED BY <1>2 DEF IsSeq

\* A pairing, whatever its fields hold.
Pairings(S) ==
  [of : S, phase : S, code : S, try : S, tried : S, left : S, identity : S, saved : S]

IsPairing(p) == (\E S : p \in Pairings(S)) /\ IsSeq(p.tried)

AppInv ==
  /\ \E S : app \in [App -> S]
  /\ \A a \in App : IsPairing(app[a])

\* What was tried stays tried.
Grown(p, q) ==
  /\ Len(p.tried) <= Len(q.tried)
  /\ \A i \in 1 .. Len(p.tried) : q.tried[i] = p.tried[i]

\* TryNext appends one attempt or gives up; what was saved stays.
LEMMA TryNextFacts ==
  ASSUME NEW p, IsPairing(p)
  PROVE  /\ IsPairing(TryNext(p)) /\ Grown(p, TryNext(p))
         /\ TryNext(p).saved = p.saved
<1>1. PICK S : p \in Pairings(S)
  BY DEF IsPairing
<1> DEFINE left == Tail(p.left)
           attempt == [token |-> TokenIn(p.of, p.code), host |-> Head(p.left), try |-> p.try]
           tried == Append(p.tried, attempt)
           T == S \cup {left, tried}
           q == [p EXCEPT !.left = left, !.tried = tried]
<1>2. TryNext(p) = q
  BY <1>1 DEF TryNext, Pairings
<1>3. p \in Pairings(T) /\ left \in T /\ tried \in T
  BY <1>1 DEF Pairings
<1>4. IsSeq(tried) /\ Len(p.tried) <= Len(tried) /\ \A i \in 1 .. Len(p.tried) : tried[i] = p.tried[i]
  BY AppendedSeq DEF IsPairing
<1> HIDE DEF left, tried, T
<1>5. q \in Pairings(T)
  BY <1>3, Zenon DEF Pairings
<1>6. q.tried = tried /\ q.saved = p.saved
  BY <1>3 DEF Pairings
<1> HIDE DEF q
<1> QED BY <1>2, <1>4, <1>5, <1>6 DEF IsPairing, Grown

\* What pair makes of the attempts when a candidate is given up.
GivenUp(p) == IF p.left = <<>> THEN [p EXCEPT !.phase = "failed"] ELSE TryNext(p)

\* Other fields do not matter.
Phased(p, ph) == [p EXCEPT !.phase = ph]
Identified(p, id) == [p EXCEPT !.identity = id]
Stored(p, id, ph) == [p EXCEPT !.identity = id, !.saved = id, !.phase = ph]
Coded(p, ph, co, tr, le) == [p EXCEPT !.phase = ph, !.code = co, !.try = tr, !.left = le]

\* Another phase changes neither what was tried nor what was saved.
LEMMA WithPhase ==
  ASSUME NEW p, IsPairing(p), NEW ph
  PROVE  /\ IsPairing(Phased(p, ph)) /\ Phased(p, ph).tried = p.tried
         /\ Phased(p, ph).saved = p.saved
<1>1. PICK S : p \in Pairings(S)
  BY DEF IsPairing
<1> DEFINE T == S \cup {ph}
           q == [p EXCEPT !.phase = ph]
<1>2. p \in Pairings(T) /\ ph \in T
  BY <1>1 DEF Pairings
<1>3. q.tried = p.tried /\ q.saved = p.saved
  BY <1>1 DEF Pairings
<1> HIDE DEF T
<1>4. q \in Pairings(T)
  BY <1>2, Zenon DEF Pairings
<1> HIDE DEF q
<1>5. IsPairing(q)
  BY <1>3, <1>4 DEF IsPairing
<1> QED BY <1>3, <1>5 DEF q, Phased

\* Nor does an identity in memory.
LEMMA WithIdentity ==
  ASSUME NEW p, IsPairing(p), NEW id
  PROVE  /\ IsPairing(Identified(p, id)) /\ Identified(p, id).tried = p.tried
         /\ Identified(p, id).saved = p.saved
<1>1. PICK S : p \in Pairings(S)
  BY DEF IsPairing
<1> DEFINE T == S \cup {id}
           q == [p EXCEPT !.identity = id]
<1>2. p \in Pairings(T) /\ id \in T
  BY <1>1 DEF Pairings
<1>3. q.tried = p.tried /\ q.saved = p.saved
  BY <1>1 DEF Pairings
<1> HIDE DEF T
<1>4. q \in Pairings(T)
  BY <1>2, Zenon DEF Pairings
<1> HIDE DEF q
<1>5. IsPairing(q)
  BY <1>3, <1>4 DEF IsPairing
<1> QED BY <1>3, <1>5 DEF q, Identified

\* Saving changes what was saved, not what was tried.
LEMMA WithSaved ==
  ASSUME NEW p, IsPairing(p), NEW id, NEW ph
  PROVE  /\ IsPairing(Stored(p, id, ph)) /\ Stored(p, id, ph).tried = p.tried
         /\ Stored(p, id, ph).saved = id
<1>1. PICK S : p \in Pairings(S)
  BY DEF IsPairing
<1> DEFINE T == S \cup {id, ph}
           q == [p EXCEPT !.identity = id, !.saved = id, !.phase = ph]
<1>2. p \in Pairings(T) /\ id \in T /\ ph \in T
  BY <1>1 DEF Pairings
<1>3. q.tried = p.tried /\ q.saved = id
  BY <1>1 DEF Pairings
<1> HIDE DEF T
<1>4. q \in Pairings(T)
  BY <1>2, Zenon DEF Pairings
<1> HIDE DEF q
<1>5. IsPairing(q)
  BY <1>3, <1>4 DEF IsPairing
<1> QED BY <1>3, <1>5 DEF q, Stored

\* Nor does a new code: earlier attempts stay on the list.
LEMMA WithCode ==
  ASSUME NEW p, IsPairing(p), NEW ph, NEW co, NEW tr, NEW le
  PROVE  /\ IsPairing(Coded(p, ph, co, tr, le)) /\ Coded(p, ph, co, tr, le).tried = p.tried
         /\ Coded(p, ph, co, tr, le).saved = p.saved
<1>1. PICK S : p \in Pairings(S)
  BY DEF IsPairing
<1> DEFINE T == S \cup {ph, co, tr, le}
           q == [p EXCEPT !.phase = ph, !.code = co, !.try = tr, !.left = le]
<1>2. p \in Pairings(T) /\ ph \in T /\ co \in T /\ tr \in T /\ le \in T
  BY <1>1 DEF Pairings
<1>3. q.tried = p.tried /\ q.saved = p.saved
  BY <1>1 DEF Pairings
<1> HIDE DEF T
<1>4. q \in Pairings(T)
  BY <1>2, Zenon DEF Pairings
<1> HIDE DEF q
<1>5. IsPairing(q)
  BY <1>3, <1>4 DEF IsPairing
<1> QED BY <1>3, <1>5 DEF q, Coded

\* The same attempts are a case of more attempts.
LEMMA GrownSame ==
  ASSUME NEW p, NEW q, IsPairing(p), q.tried = p.tried
  PROVE  Grown(p, q)
<1>1. Len(p.tried) \in Nat
  BY AppendedSeq DEF IsPairing
<1> QED BY <1>1 DEF Grown

\* Giving up changes neither what was tried nor what was saved.
LEMMA GivenUpFacts ==
  ASSUME NEW p, IsPairing(p)
  PROVE  IsPairing(GivenUp(p)) /\ Grown(p, GivenUp(p)) /\ GivenUp(p).saved = p.saved
<1>1. CASE p.left = <<>>
  <2> DEFINE q == Phased(p, "failed")
  <2>1. IsPairing(q) /\ q.tried = p.tried /\ q.saved = p.saved
    BY WithPhase
  <2>2. GivenUp(p) = q
    BY <1>1 DEF GivenUp, Phased
  <2> HIDE DEF q
  <2> QED BY <2>1, <2>2, GrownSame
<1>2. CASE p.left # <<>>
  <2>1. GivenUp(p) = TryNext(p)
    BY <1>2 DEF GivenUp
  <2> QED BY <2>1, TryNextFacts
<1> QED BY <1>1, <1>2

\* What a step does to the apps.
LEMMA AppUpdate ==
  ASSUME AppInv, NEW a \in App, NEW q, app' = [app EXCEPT ![a] = q],
         IsPairing(q), Grown(app[a], q)
  PROVE  AppInv' /\ app'[a] = q /\ \A b \in App : Grown(app[b], app'[b])
<1>1. PICK S : app \in [App -> S]
  BY DEF AppInv
<1>2. app' \in [App -> S \cup {q}] /\ app'[a] = q /\ \A b \in App : b # a => app'[b] = app[b]
  BY <1>1
<1>3. \A b \in App : Grown(app[b], app[b])
  BY GrownSame DEF AppInv
<1>4. \A b \in App : IsPairing(app'[b])
  BY <1>2 DEF AppInv
<1>5. AppInv'
  BY <1>2, <1>4 DEF AppInv
<1> QED BY <1>2, <1>3, <1>5

\* The steps of the apps and the network, and those of the host.
AppSteps ==
  \/ \E a \in App : CandidateTimesOut(a) \/ \E code \in Code : StartPairing(a, code)
  \/ \E c \in Conn : Unreachable(c) \/ OnPaired(c) \/ OnError(c) \/ ConnectionLost(c)
  \/ \E yes \in BOOLEAN : Type(yes)
  \/ UNCHANGED vars

HostSteps ==
  \/ \E c \in Conn : Opens(c) \/ HandlePairing(c)
  \/ \E t \in Token : CliApproves(t) \/ Expires(t)

\* A step is the app's or the host's.
LEMMA AllSteps ==
  ASSUME [Next]_vars
  PROVE  AppSteps \/ HostSteps
BY DEF Next, AppSteps, HostSteps, Dial, Receive

\* The host touches no app.
LEMMA HostStepsLeaveApp ==
  ASSUME HostSteps
  PROVE  app' = app
<1>1. ASSUME NEW c \in Conn, Opens(c) PROVE app' = app
  BY <1>1 DEF Opens, outside
<1>2. ASSUME NEW c \in Conn, HandlePairing(c) PROVE app' = app
  <2>1. CASE PeekPairingToken(c) \/ ConsumePairingToken(c)
    BY <2>1 DEF PeekPairingToken, ConsumePairingToken, outside
  <2>2. CASE Prompt(c) \/ TakeLine(c) \/ PromptTimesOut(c)
    BY <2>2 DEF Prompt, TakeLine, PromptTimesOut, outside
  <2>3. CASE ApprovePairingToken(c) \/ Reconsume(c)
    BY <2>3 DEF ApprovePairingToken, Reconsume, outside
  <2>4. CASE IssueCredential(c) \/ IssueFails(c) \/ ReplyPaired(c)
    BY <2>4 DEF IssueCredential, IssueFails, ReplyPaired, outside
  <2> QED BY <1>2, <2>1, <2>2, <2>3, <2>4 DEF HandlePairing
<1>3. ASSUME NEW t \in Token, CliApproves(t) \/ Expires(t) PROVE app' = app
  BY <1>3 DEF CliApproves, Expires, outside
<1> QED BY <1>1, <1>2, <1>3 DEF HostSteps

\* An app keeps what it tried, and saves only what it is issued.
LEMMA AppStep ==
  ASSUME AppInv, [Next]_vars
  PROVE  /\ AppInv'
         /\ \A a \in App :
              /\ Grown(app[a], app'[a])
              /\ \/ app'[a].saved = app[a].saved
                 \/ \E c \in Conn : /\ OnPaired(c) /\ Current(c) /\ a = c[1]
                                    /\ app'[a].saved = Issued(c)
<1> DEFINE Ok == /\ AppInv'
                 /\ \A a \in App :
                      /\ Grown(app[a], app'[a])
                      /\ \/ app'[a].saved = app[a].saved
                         \/ \E c \in Conn : /\ OnPaired(c) /\ Current(c) /\ a = c[1]
                                            /\ app'[a].saved = Issued(c)
<1> SUFFICES Ok
  OBVIOUS
<1>0. PICK S : app \in [App -> S]
  BY DEF AppInv
<1>1. CASE UNCHANGED app
  BY <1>1, GrownSame DEF AppInv
<1>2. ASSUME NEW a \in App, NEW q, app' = [app EXCEPT ![a] = q],
             IsPairing(q), Grown(app[a], q), q.saved = app[a].saved
      PROVE  Ok
  <2>1. \A b \in App : app'[b].saved = app[b].saved
    BY <1>0, <1>2
  <2> QED BY <1>2, <2>1, AppUpdate
<1>3. ASSUME NEW a \in App, app' = GiveUp(a)
      PROVE  Ok
  <2>1. app' = [app EXCEPT ![a] = GivenUp(app[a])]
    BY <1>0, <1>3 DEF GiveUp, GivenUp
  <2> QED BY <1>2, <2>1, GivenUpFacts DEF AppInv
<1>4. ASSUME NEW a \in App, NEW code \in Code, StartPairing(a, code)
      PROVE  Ok
  <2> DEFINE begun == Coded(app[a], "pairing", code, app[a].try + 1, Candidates(a, code))
  <2>1. IsPairing(app[a])
    BY DEF AppInv
  <2>2. CASE Parses(code) \/ Pasted(a, code)
    <3>1. app' = [app EXCEPT ![a] = TryNext(begun)]
      BY <1>0, <1>4, <2>2 DEF StartPairing, Coded
    <3>2. IsPairing(begun) /\ begun.tried = app[a].tried /\ begun.saved = app[a].saved
      <4> DEFINE tr == app[a].try + 1
                 le == Candidates(a, code)
      <4> HIDE DEF tr, le
      <4>1. IsPairing(Coded(app[a], "pairing", code, tr, le))
        BY <2>1, WithCode
      <4>2. /\ Coded(app[a], "pairing", code, tr, le).tried = app[a].tried
            /\ Coded(app[a], "pairing", code, tr, le).saved = app[a].saved
        BY <2>1, WithCode
      <4> QED BY <4>1, <4>2 DEF tr, le
    <3> HIDE DEF begun
    <3>3. /\ IsPairing(TryNext(begun)) /\ Grown(begun, TryNext(begun))
          /\ TryNext(begun).saved = begun.saved
      BY <3>2, TryNextFacts
    <3> QED BY <1>2, <3>1, <3>2, <3>3 DEF Grown
  <2>3. CASE ~(Parses(code) \/ Pasted(a, code))
    <3> DEFINE q == Phased(app[a], "failed")
    <3>1. app' = [app EXCEPT ![a] = q]
      BY <1>0, <1>4, <2>3 DEF StartPairing, Phased
    <3>2. IsPairing(q) /\ q.tried = app[a].tried /\ q.saved = app[a].saved
      BY <2>1, WithPhase
    <3> HIDE DEF q
    <3> QED BY <1>2, <2>1, <3>1, <3>2, GrownSame
  <2> QED BY <2>2, <2>3
<1>5. ASSUME NEW c \in Conn, OnPaired(c) PROVE Ok
  <2> DEFINE a == c[1]
  <2>1. a \in App /\ IsPairing(app[a])
    BY ConnFacts DEF AppInv
  <2>2. CASE Current(c)
    <3> DEFINE q == Stored(app[a], Issued(c), "paired")
    <3>1. app' = [app EXCEPT ![a] = q]
      BY <1>0, <1>5, <2>1, <2>2 DEF OnPaired, Stored
    <3>2. IsPairing(q) /\ q.tried = app[a].tried /\ q.saved = Issued(c)
      BY <2>1, WithSaved
    <3>3. Grown(app[a], q)
      BY <2>1, <3>2, GrownSame
    <3> HIDE DEF q
    <3>4. AppInv' /\ app'[a] = q /\ \A b \in App : Grown(app[b], app'[b])
      BY <2>1, <3>1, <3>2, <3>3, AppUpdate
    <3>5. \A b \in App : b # a => app'[b] = app[b]
      BY <1>0, <3>1
    <3> HIDE DEF a
    <3> QED BY <1>5, <2>2, <3>2, <3>4, <3>5 DEF a
  <2>3. CASE ~Current(c)
    <3> DEFINE q == Identified(app[a], Issued(c))
    <3>1. app' = [app EXCEPT ![a] = q]
      BY <1>0, <1>5, <2>1, <2>3 DEF OnPaired, Identified
    <3>2. IsPairing(q) /\ q.tried = app[a].tried /\ q.saved = app[a].saved
      BY <2>1, WithIdentity
    <3> HIDE DEF q
    <3> QED BY <1>2, <2>1, <3>1, <3>2, GrownSame
  <2> QED BY <2>2, <2>3
<1>6. ASSUME NEW c \in Conn, Unreachable(c) \/ ConnectionLost(c) \/ OnError(c) PROVE Ok
  <2>1. c[1] \in App
    BY ConnFacts
  <2> QED BY <1>1, <1>3, <1>6, <2>1 DEF Unreachable, ConnectionLost, OnError
<1>7. ASSUME NEW a \in App, CandidateTimesOut(a) PROVE Ok
  BY <1>3, <1>7 DEF CandidateTimesOut
<1>8. CASE UNCHANGED vars \/ \E yes \in BOOLEAN : Type(yes)
  BY <1>1, <1>8 DEF vars, Type
<1> HIDE DEF Ok
<1>9. CASE AppSteps
  BY <1>4, <1>5, <1>6, <1>7, <1>8, <1>9 DEF AppSteps
<1>10. CASE HostSteps
  BY <1>1, <1>10, HostStepsLeaveApp
<1> QED BY <1>9, <1>10, AllSteps

\* The token and the address of a connection are fixed when the app has tried it.
LEMMA ConnKept ==
  ASSUME AppInv, [Next]_vars, NEW c \in Conn, Begun(c)
  PROVE  Begun(c)' /\ Tok(c)' = Tok(c) /\ HostOf(c)' = HostOf(c)
<1>1. c[1] \in App /\ c[2] \in Nat \ {0}
  BY ConnFacts
<1> DEFINE p == app[c[1]].tried
           q == app'[c[1]].tried
<1>2. Len(p) <= Len(q) /\ \A i \in 1 .. Len(p) : q[i] = p[i]
  BY <1>1, AppStep DEF Grown
<1>3. AppInv'
  BY AppStep
<1>4. IsSeq(p) /\ IsSeq(q)
  BY <1>1, <1>3 DEF AppInv, IsPairing
<1>5. DOMAIN p = 1 .. Len(p) /\ DOMAIN q = 1 .. Len(q) /\ Len(p) \in Nat /\ Len(q) \in Nat
  BY <1>4, AppendedSeq
<1>6. c[2] \in DOMAIN p
  BY DEF Begun
<1>7. c[2] \in DOMAIN q /\ q[c[2]] = p[c[2]]
  BY <1>1, <1>2, <1>5, <1>6
<1> QED BY <1>7 DEF Begun, Tok, HostOf

-----------------------------------------------------------------------------
(* Types of what the host keeps *)

Row == [state : {"open", "approved", "absent"}, expired : BOOLEAN, name : Name \cup {None}]
Serve == [pc : {"none", "peek", "consume", "queue", "asking", "approve", "reconsume",
                "issue", "reply", "done"},
          name : Name \cup {None}]

HostTypes ==
  /\ row \in [Token -> Row]
  /\ serve \in [Conn -> Serve]
  /\ device \in [Conn -> Name \cup {None}]
  /\ link \in [Conn -> {"none", "up", "paired", "error", "closed"}]
  /\ agreed \subseteq Conn

\* A handler that goes on is still one.
LEMMA GotoTyped ==
  ASSUME HostTypes, NEW c \in Conn, NEW label, Goto(c, label),
         label \in {"none", "peek", "consume", "queue", "asking", "approve", "reconsume",
                    "issue", "reply", "done"}
  PROVE  serve' \in [Conn -> Serve]
BY DEF HostTypes, Goto, Serve

\* A reply leaves every connection in one of its states.
LEMMA ReplyTyped ==
  ASSUME HostTypes, NEW c \in Conn, NEW frame \in {"paired", "error"}, Reply(c, frame)
  PROVE  link' \in [Conn -> {"none", "up", "paired", "error", "closed"}]
BY DEF HostTypes, Reply

\* AfterConsume changes at most the row of the token, to Absent.
LEMMA ConsumeFacts ==
  ASSUME HostTypes, NEW t
  PROVE  /\ AfterConsume(t) \in [Token -> Row]
         /\ \A u \in Token : u # t => AfterConsume(t)[u] = row[u]
         /\ t \in Token => \/ AfterConsume(t)[t] = row[t]
                           \/ AfterConsume(t)[t].state = "absent"
         /\ Consumable(t) => t \in Token /\ AfterConsume(t)[t].state = "absent"
         /\ t \in Token /\ row[t].state = "approved" => AfterConsume(t)[t].state = "absent"
<1>1. Absent \in Row
  BY DEF Absent, Row
<1>2. CASE Consumable(t) \/ (Exists(t) /\ row[t].expired)
  <2>1. t \in Token
    BY <1>2 DEF Consumable, Valid, Exists
  <2>2. AfterConsume(t) = [row EXCEPT ![t] = Absent]
    BY <1>2 DEF AfterConsume
  <2>3. Absent.state = "absent"
    BY DEF Absent
  <2> QED BY <1>1, <2>1, <2>2, <2>3 DEF HostTypes
<1>3. CASE ~(Consumable(t) \/ (Exists(t) /\ row[t].expired))
  <2>1. AfterConsume(t) = row
    BY <1>3 DEF AfterConsume
  <2>2. ~(t \in Token /\ row[t].state = "approved")
    BY <1>3 DEF Consumable, Valid, Exists
  <2> QED BY <1>3, <2>1, <2>2 DEF HostTypes
<1> QED BY <1>2, <1>3

\* An approved row has the name it was approved for.
LEMMA ApproveFacts ==
  ASSUME HostTypes, NEW t \in Token, NEW n \in Name \cup {None},
         row' = [row EXCEPT ![t].state = "approved", ![t].name = n]
  PROVE  /\ row' \in [Token -> Row]
         /\ row'[t].state = "approved" /\ row'[t].name = n
         /\ \A u \in Token : u # t => row'[u] = row[u]
<1> DEFINE q == [row[t] EXCEPT !.state = "approved", !.name = n]
<1>1. row[t] \in Row /\ row \in [Token -> Row]
  BY DEF HostTypes
<1>2. row' = [row EXCEPT ![t] = q]
  BY <1>1
<1>3. q.state = "approved" /\ q.name = n
  BY <1>1 DEF Row
<1>4. "approved" \in {"open", "approved", "absent"}
  OBVIOUS
<1>5. q \in Row
  BY <1>1, <1>4, Zenon DEF Row
<1> HIDE DEF q
<1> QED BY <1>1, <1>2, <1>3, <1>5

\* Expiry leaves state and name.
LEMMA ExpireFacts ==
  ASSUME HostTypes, NEW t \in Token, Expires(t)
  PROVE  \A u \in Token : row'[u].state = row[u].state /\ row'[u].name = row[u].name
<1>1. row \in [Token -> Row] /\ row' = [row EXCEPT ![t].expired = TRUE]
  BY DEF HostTypes, Expires
<1>2. \A u \in Token : u # t => row'[u] = row[u]
  BY <1>1
<1>3. row'[t] = [row[t] EXCEPT !.expired = TRUE] /\ row[t] \in Row
  BY <1>1
<1>4. row'[t].state = row[t].state /\ row'[t].name = row[t].name
  BY <1>3 DEF Row
<1> QED BY <1>2, <1>4

\* Steps that leave the host's handlers, tokens and devices alone.
Quiet == UNCHANGED <<row, serve, device, agreed, cli, overlap, unspent>>

\* An app leaves the handlers, tokens and devices alone.
LEMMA AppStepsAreQuiet ==
  ASSUME AppSteps
  PROVE  Quiet
<1>1. CASE UNCHANGED vars
  BY <1>1 DEF vars, hostVars, historyVars, Quiet
<1>2. CASE \E yes \in BOOLEAN : Type(yes)
  BY <1>2 DEF Type, historyVars, Quiet
<1>3. ASSUME NEW a \in App, CandidateTimesOut(a) \/ \E code \in Code : StartPairing(a, code)
      PROVE  Quiet
  BY <1>3 DEF CandidateTimesOut, StartPairing, hostVars, historyVars, Quiet
<1>4. ASSUME NEW c \in Conn, Unreachable(c) \/ OnPaired(c) \/ OnError(c) \/ ConnectionLost(c)
      PROVE  Quiet
  BY <1>4 DEF Unreachable, OnPaired, OnError, ConnectionLost, hostVars, historyVars, Quiet
<1> QED BY <1>1, <1>2, <1>3, <1>4 DEF AppSteps

\* A step keeps the host's types.
LEMMA TypeStep ==
  ASSUME HostTypes, AppInv, [Next]_vars
  PROVE  HostTypes'
<1> SUFFICES HostTypes'
  OBVIOUS
<1> USE NameAssumption
<1>0. CASE AppSteps
  <2>1. Quiet
    BY <1>0, AppStepsAreQuiet
  <2>2. link' \in [Conn -> {"none", "up", "paired", "error", "closed"}]
    <3>1. CASE UNCHANGED link
      BY <3>1 DEF HostTypes
    <3>2. ASSUME NEW c \in Conn, link' = [link EXCEPT ![c] = "closed"]
          PROVE  link' \in [Conn -> {"none", "up", "paired", "error", "closed"}]
      BY <3>2 DEF HostTypes
    <3> QED BY <1>0, <3>1, <3>2 DEF AppSteps, CandidateTimesOut, StartPairing, Type, Unreachable,
               OnPaired, OnError, ConnectionLost, vars
  <2> QED BY <2>1, <2>2 DEF HostTypes, Quiet
<1>1. ASSUME NEW c \in Conn, Opens(c) PROVE HostTypes'
  BY <1>1, GotoTyped DEF Opens, HostTypes
<1>2. ASSUME NEW c \in Conn, PeekPairingToken(c) PROVE HostTypes'
  BY <1>2, GotoTyped, ReplyTyped DEF PeekPairingToken, Refuse, HostTypes, historyVars
<1>3. ASSUME NEW c \in Conn, ConsumePairingToken(c) PROVE HostTypes'
  <2>1. row' \in [Token -> Row]
    BY <1>3, ConsumeFacts DEF ConsumePairingToken, HostTypes
  <2>2. serve' \in [Conn -> Serve]
    <3>1. CASE Consumable(Tok(c)) /\ serve' = [serve EXCEPT ![c] = [pc |-> "issue", name |-> row[Tok(c)].name]]
      <4>1. Tok(c) \in Token
        BY <3>1, ConsumeFacts
      <4> QED BY <3>1, <4>1 DEF HostTypes, Serve, Row
    <3> QED BY <1>3, <3>1, GotoTyped DEF ConsumePairingToken, AskHost, Refuse
  <2>3. link' \in [Conn -> {"none", "up", "paired", "error", "closed"}]
    BY <1>3, ReplyTyped DEF ConsumePairingToken, AskHost, Refuse, HostTypes
  <2> QED BY <1>3, <2>1, <2>2, <2>3 DEF ConsumePairingToken, HostTypes, historyVars
<1>4. ASSUME NEW c \in Conn, Prompt(c) PROVE HostTypes'
  BY <1>4, GotoTyped DEF Prompt, HostTypes, historyVars
<1>5. ASSUME NEW c \in Conn, TakeLine(c) PROVE HostTypes'
  <2>1. CASE serve' = [serve EXCEPT ![c] = [pc |-> "approve", name |-> c]] /\ agreed' = agreed \cup {c} /\ UNCHANGED link
    <3>1. serve' \in [Conn -> Serve]
      BY <2>1 DEF HostTypes, Serve, Name
    <3> QED BY <1>5, <2>1, <3>1 DEF TakeLine, HostTypes
  <2>2. CASE Refuse(c) /\ UNCHANGED agreed
    BY <1>5, <2>2, GotoTyped, ReplyTyped DEF TakeLine, Refuse, HostTypes
  <2> QED BY <1>5, <2>1, <2>2 DEF TakeLine
<1>6. ASSUME NEW c \in Conn, PromptTimesOut(c) PROVE HostTypes'
  BY <1>6, GotoTyped, ReplyTyped DEF PromptTimesOut, Refuse, HostTypes, historyVars
<1>7. ASSUME NEW c \in Conn, ApprovePairingToken(c) PROVE HostTypes'
  <2>1. CASE /\ Valid(Tok(c))
             /\ row' = [row EXCEPT ![Tok(c)].state = "approved", ![Tok(c)].name = serve[c].name]
             /\ Goto(c, "reconsume") /\ UNCHANGED link
    <3>1. row' \in [Token -> Row]
      <4>1. Tok(c) \in Token /\ serve[c].name \in Name \cup {None}
        BY <2>1 DEF HostTypes, Serve, Valid, Exists
      <4> QED BY <2>1, <4>1, ApproveFacts
    <3> QED BY <1>7, <2>1, <3>1, GotoTyped DEF ApprovePairingToken, HostTypes, historyVars
  <2>2. CASE Refuse(c) /\ UNCHANGED row
    BY <1>7, <2>2, GotoTyped, ReplyTyped DEF ApprovePairingToken, Refuse, HostTypes, historyVars
  <2> QED BY <1>7, <2>1, <2>2 DEF ApprovePairingToken
<1>8. ASSUME NEW c \in Conn, Reconsume(c) PROVE HostTypes'
  <2>1. row' \in [Token -> Row]
    BY <1>8, ConsumeFacts DEF Reconsume, HostTypes
  <2> DEFINE name == IF Consumable(Tok(c)) THEN row[Tok(c)].name ELSE serve[c].name
  <2>2. name \in Name \cup {None}
    <3>1. CASE Consumable(Tok(c))
      <4>1. Tok(c) \in Token
        BY <3>1, ConsumeFacts
      <4> QED BY <3>1, <4>1 DEF HostTypes, Row
    <3> QED BY <3>1 DEF HostTypes, Serve
  <2>3. serve' = [serve EXCEPT ![c] = [pc |-> "issue", name |-> name]] \/ Goto(c, "issue")
    BY <1>8 DEF Reconsume, HostTypes
  <2> HIDE DEF name
  <2>4. serve' \in [Conn -> Serve]
    BY <2>2, <2>3, GotoTyped DEF HostTypes, Serve
  <2> QED BY <1>8, <2>1, <2>4 DEF Reconsume, HostTypes, historyVars
<1>9. ASSUME NEW c \in Conn, IssueCredential(c) PROVE HostTypes'
  <2>1. device' \in [Conn -> Name \cup {None}]
    BY <1>9 DEF IssueCredential, HostTypes, Serve
  <2> QED BY <1>9, <2>1, GotoTyped DEF IssueCredential, HostTypes, historyVars
<1>10. ASSUME NEW c \in Conn, IssueFails(c) PROVE HostTypes'
  BY <1>10, GotoTyped, ReplyTyped DEF IssueFails, Refuse, HostTypes, historyVars
<1>11. ASSUME NEW c \in Conn, ReplyPaired(c) PROVE HostTypes'
  BY <1>11, GotoTyped, ReplyTyped DEF ReplyPaired, HostTypes, historyVars
<1>12. ASSUME NEW t \in Token, CliApproves(t) PROVE HostTypes'
  <2>1. row' \in [Token -> Row]
    BY <1>12, ApproveFacts DEF CliApproves, Name
  <2> QED BY <1>12, <2>1 DEF CliApproves, HostTypes
<1>13. ASSUME NEW t \in Token, Expires(t) PROVE HostTypes'
  <2>1. row' \in [Token -> Row]
    BY <1>13 DEF Expires, HostTypes, Row
  <2> QED BY <1>13, <2>1 DEF Expires, HostTypes, historyVars
<1>14. CASE HostSteps
  BY <1>1, <1>2, <1>3, <1>4, <1>5, <1>6, <1>7, <1>8, <1>9, <1>10, <1>11, <1>12, <1>13, <1>14
     DEF HostSteps, HandlePairing
<1> QED BY <1>0, <1>14, AllSteps

-----------------------------------------------------------------------------
(* What is saved can be used *)

\* What is known of a connection by where its handler is.
Served(c) ==
  /\ link[c] = "none" => serve[c].pc = "none"
  /\ link[c] # "none" => Begun(c)
  /\ link[c] = "paired" \/ serve[c].pc = "reply" => device[c] # None
  /\ device[c] # None => serve[c].pc \in {"reply", "done"}
  /\ serve[c].pc \in {"issue", "approve", "reconsume"} => serve[c].name \in Name
  /\ c \in agreed => serve[c].pc \in {"approve", "reconsume", "issue", "reply", "done"}
  /\ serve[c].pc \in {"approve", "reconsume"} => c \in agreed

RowsAreNamed == \A t \in Token : row[t].state = "approved" => row[t].name \in Name

ServedInv == HostTypes /\ AppInv /\ RowsAreNamed /\ \A c \in Conn : Served(c)

\* The apps' steps keep what is known of a connection by its handler's place.
LEMMA ServedAppStep ==
  ASSUME ServedInv, [Next]_vars, AppSteps, NEW c \in Conn
  PROVE  Served(c)'
<1>1. Quiet
  BY AppStepsAreQuiet
<1>2. \/ link'[c] = link[c]
      \/ link'[c] = "closed" /\ (link[c] # "none" \/ Begun(c))
  <2>1. ASSUME NEW d \in Conn, link' = [link EXCEPT ![d] = "closed"],
               link[d] # "none" \/ Begun(d)
        PROVE  \/ link'[c] = link[c]
               \/ link'[c] = "closed" /\ (link[c] # "none" \/ Begun(c))
    BY <2>1 DEF ServedInv, HostTypes
  <2> QED BY <2>1 DEF AppSteps, CandidateTimesOut, StartPairing, Type, Unreachable, OnPaired,
             OnError, ConnectionLost, vars
<1>3. Begun(c) => Begun(c)'
  BY ConnKept DEF ServedInv
<1>4. Served(c)
  BY DEF ServedInv
<1> QED BY <1>1, <1>2, <1>3, <1>4 DEF Served, Quiet

\* So do the host's.
LEMMA ServedHostStep ==
  ASSUME ServedInv, HostSteps, NEW d \in Conn
  PROVE  Served(d)'
<1> USE NameAssumption
<1>0. app' = app
  BY HostStepsLeaveApp
<1>a. Begun(d)' <=> Begun(d)
  BY <1>0 DEF Begun
<1>b. /\ serve \in [Conn -> Serve] /\ device \in [Conn -> Name \cup {None}]
      /\ link \in [Conn -> {"none", "up", "paired", "error", "closed"}]
      /\ Served(d)
  BY DEF ServedInv, HostTypes
<1> SUFFICES Served(d)'
  OBVIOUS
<1>1. ASSUME NEW c \in Conn, Opens(c) PROVE Served(d)'
  BY <1>1, <1>a, <1>b DEF Opens, Served, Goto, Serve
<1>2. ASSUME NEW c \in Conn, PeekPairingToken(c) PROVE Served(d)'
  BY <1>2, <1>a, <1>b DEF PeekPairingToken, Served, Goto, Serve, Refuse, Reply, historyVars
<1>3. ASSUME NEW c \in Conn, ConsumePairingToken(c) PROVE Served(d)'
  <2>1. CASE /\ Consumable(Tok(c)) /\ UNCHANGED link
             /\ serve' = [serve EXCEPT ![c] = [pc |-> "issue", name |-> row[Tok(c)].name]]
    <3>1. row[Tok(c)].name \in Name
      BY <2>1, ConsumeFacts DEF ServedInv, RowsAreNamed, Consumable
    <3> QED BY <1>3, <2>1, <3>1, <1>a, <1>b DEF ConsumePairingToken, Served, historyVars
  <2>2. CASE Goto(c, "queue") /\ UNCHANGED link
    BY <1>3, <2>2, <1>a, <1>b DEF ConsumePairingToken, Served, Goto, Serve, historyVars
  <2>3. CASE Refuse(c)
    BY <1>3, <2>3, <1>a, <1>b DEF ConsumePairingToken, Served, Goto, Serve, Refuse, Reply, historyVars
  <2> QED BY <1>3, <2>1, <2>2, <2>3 DEF ConsumePairingToken, AskHost
<1>4. ASSUME NEW c \in Conn, Prompt(c) PROVE Served(d)'
  BY <1>4, <1>a, <1>b DEF Prompt, Served, Goto, Serve, historyVars
<1>5. ASSUME NEW c \in Conn, TakeLine(c) PROVE Served(d)'
  <2>1. CASE /\ serve' = [serve EXCEPT ![c] = [pc |-> "approve", name |-> c]]
             /\ agreed' = agreed \cup {c} /\ UNCHANGED link
    BY <1>5, <2>1, <1>a, <1>b DEF TakeLine, Served, Name
  <2>2. CASE Refuse(c) /\ UNCHANGED agreed
    BY <1>5, <2>2, <1>a, <1>b DEF TakeLine, Served, Goto, Serve, Refuse, Reply
  <2> QED BY <1>5, <2>1, <2>2 DEF TakeLine
<1>6. ASSUME NEW c \in Conn, PromptTimesOut(c) PROVE Served(d)'
  BY <1>6, <1>a, <1>b DEF PromptTimesOut, Served, Goto, Serve, Refuse, Reply, historyVars
<1>7. ASSUME NEW c \in Conn, ApprovePairingToken(c) PROVE Served(d)'
  <2>1. CASE Goto(c, "reconsume") /\ UNCHANGED link
    BY <1>7, <2>1, <1>a, <1>b DEF ApprovePairingToken, Served, Goto, Serve, historyVars
  <2>2. CASE Refuse(c)
    BY <1>7, <2>2, <1>a, <1>b DEF ApprovePairingToken, Served, Goto, Serve, Refuse, Reply, historyVars
  <2> QED BY <1>7, <2>1, <2>2 DEF ApprovePairingToken
<1>8. ASSUME NEW c \in Conn, Reconsume(c) PROVE Served(d)'
  <2> DEFINE name == IF Consumable(Tok(c)) THEN row[Tok(c)].name ELSE serve[c].name
  <2>1. name \in Name
    <3>1. CASE Consumable(Tok(c))
      BY <3>1, ConsumeFacts DEF ServedInv, RowsAreNamed, Consumable
    <3>2. CASE ~Consumable(Tok(c))
      BY <1>8, <3>2 DEF ServedInv, Served, Reconsume
    <3> QED BY <3>1, <3>2
  <2>2. serve' = [serve EXCEPT ![c] = [pc |-> "issue", name |-> name]] \/ Goto(c, "issue")
    BY <1>8, <1>b DEF Reconsume
  <2> HIDE DEF name
  <2>3. serve[c].pc = "reconsume" /\ UNCHANGED <<link, device, agreed>>
    BY <1>8 DEF Reconsume
  <2>4. CASE serve' = [serve EXCEPT ![c] = [pc |-> "issue", name |-> name]]
    BY <2>1, <2>3, <2>4, <1>a, <1>b DEF Served
  <2>5. CASE Goto(c, "issue")
    BY <2>3, <2>5, <1>a, <1>b DEF Served, Goto, Serve
  <2> QED BY <2>2, <2>4, <2>5
<1>9. ASSUME NEW c \in Conn, IssueCredential(c) PROVE Served(d)'
  <2>1. serve[c].name \in Name
    BY <1>9 DEF IssueCredential, ServedInv, Served
  <2> QED BY <1>9, <2>1, <1>a, <1>b DEF IssueCredential, Served, Goto, Serve, historyVars
<1>10. ASSUME NEW c \in Conn, IssueFails(c) PROVE Served(d)'
  BY <1>10, <1>a, <1>b DEF IssueFails, Served, Goto, Serve, Refuse, Reply, historyVars
<1>11. ASSUME NEW c \in Conn, ReplyPaired(c) PROVE Served(d)'
  BY <1>11, <1>a, <1>b DEF ReplyPaired, Served, Goto, Serve, Reply, historyVars
<1>12. ASSUME NEW t \in Token, CliApproves(t) \/ Expires(t) PROVE Served(d)'
  BY <1>12, <1>a, <1>b DEF CliApproves, Expires, Served, historyVars
<1> QED BY <1>1, <1>2, <1>3, <1>4, <1>5, <1>6, <1>7, <1>8, <1>9, <1>10, <1>11, <1>12
        DEF HostSteps, HandlePairing

\* What a step does to the row of a token.
LEMMA RowStep ==
  ASSUME ServedInv, [Next]_vars, NEW t \in Token
  PROVE  \/ row'[t].state = row[t].state /\ row'[t].name = row[t].name
         \/ /\ row'[t].state = "absent"
            /\ \E c \in Conn : (ConsumePairingToken(c) \/ Reconsume(c)) /\ Tok(c) = t
         \/ /\ row[t].state # "absent" /\ row'[t].state = "approved"
            /\ \/ CliApproves(t) /\ row'[t].name = Cli
               \/ \E c \in Conn : /\ ApprovePairingToken(c) /\ Tok(c) = t
                                  /\ serve'[c].pc = "reconsume"
                                  /\ row'[t].name = serve[c].name
<1> DEFINE Ok == \/ row'[t].state = row[t].state /\ row'[t].name = row[t].name
                 \/ /\ row'[t].state = "absent"
                    /\ \E c \in Conn : (ConsumePairingToken(c) \/ Reconsume(c)) /\ Tok(c) = t
                 \/ /\ row[t].state # "absent" /\ row'[t].state = "approved"
                    /\ \/ CliApproves(t) /\ row'[t].name = Cli
                       \/ \E c \in Conn : /\ ApprovePairingToken(c) /\ Tok(c) = t
                                          /\ serve'[c].pc = "reconsume"
                                          /\ row'[t].name = serve[c].name
<1> SUFFICES Ok
  OBVIOUS
<1>0. HostTypes /\ serve \in [Conn -> Serve]
  BY DEF ServedInv, HostTypes
<1>1. CASE UNCHANGED row
  BY <1>1
<1>2. ASSUME NEW c \in Conn, ConsumePairingToken(c) \/ Reconsume(c) PROVE Ok
  <2>1. row' = AfterConsume(Tok(c)) \/ row' = row
    BY <1>2 DEF ConsumePairingToken, Reconsume
  <2>2. row'[t] = row[t] \/ (row'[t].state = "absent" /\ Tok(c) = t)
    BY <1>0, <2>1, ConsumeFacts
  <2> QED BY <1>2, <2>2
<1>3. ASSUME NEW c \in Conn, ApprovePairingToken(c) PROVE Ok
  <2>1. CASE UNCHANGED row
    BY <1>1, <2>1
  <2>2. CASE /\ Valid(Tok(c)) /\ Goto(c, "reconsume")
             /\ row' = [row EXCEPT ![Tok(c)].state = "approved", ![Tok(c)].name = serve[c].name]
    <3>1. Tok(c) \in Token /\ row[Tok(c)].state # "absent" /\ serve[c].name \in Name \cup {None}
      BY <1>0, <2>2 DEF Valid, Exists, Serve
    <3>2. /\ row'[Tok(c)].state = "approved" /\ row'[Tok(c)].name = serve[c].name
          /\ \A u \in Token : u # Tok(c) => row'[u] = row[u]
      BY <1>0, <2>2, <3>1, ApproveFacts
    <3>3. serve'[c].pc = "reconsume"
      BY <1>0, <2>2 DEF Goto, Serve
    <3>4. CASE Tok(c) = t
      BY <1>3, <3>1, <3>2, <3>3, <3>4
    <3>5. CASE Tok(c) # t
      BY <3>2, <3>5
    <3> QED BY <3>4, <3>5
  <2> QED BY <1>3, <2>1, <2>2 DEF ApprovePairingToken
<1>4. ASSUME NEW u \in Token, CliApproves(u) PROVE Ok
  <2>1. row[u].state # "absent"
    BY <1>4 DEF CliApproves, Valid, Exists
  <2>2. /\ row'[u].state = "approved" /\ row'[u].name = Cli
        /\ \A v \in Token : v # u => row'[v] = row[v]
    BY <1>0, <1>4, ApproveFacts DEF CliApproves, Name
  <2>3. CASE u = t
    BY <1>4, <2>1, <2>2, <2>3
  <2>4. CASE u # t
    BY <2>2, <2>4
  <2> QED BY <2>3, <2>4
<1>5. ASSUME NEW u \in Token, Expires(u) PROVE Ok
  <2>1. row'[t].state = row[t].state /\ row'[t].name = row[t].name
    BY <1>0, <1>5, ExpireFacts
  <2> QED BY <2>1
<1>6. ASSUME NEW c \in Conn, Opens(c) \/ HandlePairing(c) PROVE Ok
  <2>1. CASE ConsumePairingToken(c) \/ Reconsume(c)
    BY <1>2, <2>1
  <2>2. CASE Opens(c) \/ PeekPairingToken(c) \/ Prompt(c)
    BY <1>1, <2>2 DEF Opens, PeekPairingToken, Prompt
  <2>3. CASE TakeLine(c) \/ PromptTimesOut(c)
    BY <1>1, <2>3 DEF TakeLine, PromptTimesOut
  <2>4. CASE IssueCredential(c) \/ IssueFails(c) \/ ReplyPaired(c)
    BY <1>1, <2>4 DEF IssueCredential, IssueFails, ReplyPaired
  <2> HIDE DEF Ok
  <2> QED BY <1>3, <1>6, <2>1, <2>2, <2>3, <2>4 DEF HandlePairing
<1>7. CASE AppSteps
  BY <1>1, <1>7, AppStepsAreQuiet DEF Quiet
<1> HIDE DEF Ok
<1>8. CASE HostSteps
  BY <1>4, <1>5, <1>6, <1>8 DEF HostSteps
<1> QED BY <1>7, <1>8, AllSteps

\* A row is approved under a name.
LEMMA RowsStep ==
  ASSUME ServedInv, [Next]_vars
  PROVE  RowsAreNamed'
<1>1. ASSUME NEW t \in Token, row'[t].state = "approved" PROVE row'[t].name \in Name
  <2>1. CASE row'[t].state = row[t].state /\ row'[t].name = row[t].name
    BY <1>1, <2>1 DEF ServedInv, RowsAreNamed
  <2>2. CASE row'[t].name = Cli
    BY <2>2 DEF Name
  <2>3. ASSUME NEW c \in Conn, ApprovePairingToken(c), row'[t].name = serve[c].name
        PROVE  row'[t].name \in Name
    BY <2>3 DEF ApprovePairingToken, ServedInv, Served
  <2> QED BY <1>1, <2>1, <2>2, <2>3, RowStep
<1> QED BY <1>1 DEF RowsAreNamed

\* What is known of every connection is kept by a step ...
LEMMA ServedStep == ServedInv /\ [Next]_vars => ServedInv'
<1> SUFFICES ASSUME ServedInv, [Next]_vars PROVE ServedInv'
  OBVIOUS
<1>1. HostTypes' /\ AppInv' /\ RowsAreNamed'
  BY TypeStep, AppStep, RowsStep DEF ServedInv
<1>2. \A c \in Conn : Served(c)'
  BY ServedAppStep, ServedHostStep, AllSteps
<1> QED BY <1>1, <1>2 DEF ServedInv

\* ... and holds at the start.
LEMMA ServedInit == Init => ServedInv
<1> SUFFICES ASSUME Init PROVE ServedInv
  OBVIOUS
<1>1. HostTypes
  BY DEF Init, HostTypes, Row, Serve
<1>2. AppInv
  <2> DEFINE S == App \cup {"idle", None, 0, <<>>}
             new(a) == [of |-> a, phase |-> "idle", code |-> None, try |-> 0,
                        tried |-> <<>>, left |-> <<>>, identity |-> None, saved |-> None]
  <2>1. app = [a \in App |-> new(a)]
    BY DEF Init
  <2>2. ASSUME NEW a \in App PROVE new(a) \in Pairings(S)
    BY DEF Pairings
  <2>3. ASSUME NEW a \in App PROVE IsSeq(new(a).tried)
    BY DEF IsSeq
  <2> HIDE DEF new, S
  <2>4. \A a \in App : IsPairing(app[a])
    BY <2>1, <2>2, <2>3 DEF IsPairing
  <2>5. app \in [App -> Pairings(S)]
    BY <2>1, <2>2
  <2> QED BY <2>4, <2>5 DEF AppInv
<1>3. RowsAreNamed /\ \A c \in Conn : Served(c)
  BY DEF Init, RowsAreNamed, Served
<1> QED BY <1>1, <1>2, <1>3 DEF ServedInv

\* What is saved was issued on a connection of the app.
SavedOf(a, c) ==
  /\ c[1] = a /\ Begun(c) /\ device[c] # None
  /\ app[a].saved.conn = c /\ app[a].saved.url = HostOf(c)

SavedInv ==
  ServedInv /\ \A a \in App : app[a].saved # None => \E c \in Conn : SavedOf(a, c)

\* A device issued stays issued.
LEMMA DeviceKept ==
  ASSUME ServedInv, [Next]_vars, NEW c \in Conn, device[c] # None
  PROVE  device'[c] # None
<1>0. device \in [Conn -> Name \cup {None}]
  BY DEF ServedInv, HostTypes
<1>1. CASE UNCHANGED device
  BY <1>1
<1>2. ASSUME NEW d \in Conn, IssueCredential(d) PROVE device'[c] # None
  BY <1>0, <1>2 DEF ServedInv, Served, IssueCredential
<1>3. ASSUME NEW d \in Conn, Opens(d) \/ HandlePairing(d) PROVE device'[c] # None
  <2>1. CASE ConsumePairingToken(d) \/ Reconsume(d) \/ ApprovePairingToken(d)
    BY <1>1, <2>1 DEF ConsumePairingToken, Reconsume, ApprovePairingToken
  <2>2. CASE Opens(d) \/ PeekPairingToken(d) \/ Prompt(d)
    BY <1>1, <2>2 DEF Opens, PeekPairingToken, Prompt
  <2>3. CASE TakeLine(d) \/ PromptTimesOut(d)
    BY <1>1, <2>3 DEF TakeLine, PromptTimesOut
  <2>4. CASE IssueFails(d) \/ ReplyPaired(d)
    BY <1>1, <2>4 DEF IssueFails, ReplyPaired
  <2> QED BY <1>2, <1>3, <2>1, <2>2, <2>3, <2>4 DEF HandlePairing
<1>4. CASE AppSteps
  BY <1>1, <1>4, AppStepsAreQuiet DEF Quiet
<1>5. CASE HostSteps
  BY <1>1, <1>3, <1>5 DEF HostSteps, CliApproves, Expires
<1> QED BY <1>4, <1>5, AllSteps

\* What is saved was issued on a connection of the app that saves it.
LEMMA SavedStep == SavedInv /\ [Next]_vars => SavedInv'
<1> SUFFICES ASSUME SavedInv, [Next]_vars PROVE SavedInv'
  OBVIOUS
<1>1. ServedInv /\ AppInv /\ ServedInv'
  BY ServedStep DEF SavedInv, ServedInv
<1>2. ASSUME NEW a \in App, app'[a].saved # None
      PROVE  \E c \in Conn : SavedOf(a, c)'
  <2>1. CASE app'[a].saved = app[a].saved
    <3>1. PICK c \in Conn : SavedOf(a, c)
      BY <1>2, <2>1 DEF SavedInv
    <3>2. Begun(c)' /\ HostOf(c)' = HostOf(c)
      BY <1>1, <3>1, ConnKept DEF SavedOf
    <3>3. device'[c] # None
      BY <1>1, <3>1, DeviceKept DEF SavedOf
    <3> QED BY <2>1, <3>1, <3>2, <3>3 DEF SavedOf
  <2>2. ASSUME NEW c \in Conn, OnPaired(c), Current(c), a = c[1], app'[a].saved = Issued(c)
        PROVE  SavedOf(a, c)'
    <3>1. device'[c] # None /\ Begun(c)
      BY <1>1, <2>2 DEF OnPaired, ServedInv, Served, hostVars
    <3>2. Begun(c)' /\ HostOf(c)' = HostOf(c)
      BY <1>1, <3>1, ConnKept
    <3>3. Issued(c).conn = c /\ Issued(c).url = HostOf(c)
      BY <2>2 DEF Issued, HostOf, Current, Last
    <3> QED BY <2>2, <3>1, <3>2, <3>3 DEF SavedOf
  <2> QED BY <1>1, <2>1, <2>2, AppStep
<1> QED BY <1>1, <1>2 DEF SavedInv

\* The invariant behind SavedIsUsable.
LEMMA SavedInvariant == Spec => []SavedInv
<1>1. Init => SavedInv
  BY ServedInit DEF SavedInv, Init
<1> QED BY <1>1, SavedStep, PTL DEF Spec

(***************************************************************************)
(* However its candidates time out, break or answer late, what an app has  *)
(* saved (mobileClient.ts) is an identity the host has issued to it, with  *)
(* the address it was issued at.                                           *)
(***************************************************************************)
THEOREM SavedCorrect == Spec => []SavedIsUsable
<1>1. SavedInv => SavedIsUsable
  BY DEF SavedInv, SavedOf, SavedIsUsable
<1> QED BY <1>1, SavedInvariant, PTL

-----------------------------------------------------------------------------
(* Consent *)

\* The connections that have a device or will have one.
Got(c) == serve[c].pc \in {"issue", "reply"} \/ device[c] # None

\* A connection gets past its token in two places only.
LEMMA GotStep ==
  ASSUME ServedInv, [Next]_vars, NEW d \in Conn, Got(d)'
  PROVE  \/ Got(d)
         \/ ConsumePairingToken(d) /\ Consumable(Tok(d)) /\ row' = AfterConsume(Tok(d))
         \/ Reconsume(d)
<1> DEFINE Ok == \/ Got(d)
                 \/ ConsumePairingToken(d) /\ Consumable(Tok(d)) /\ row' = AfterConsume(Tok(d))
                 \/ Reconsume(d)
<1> SUFFICES Ok
  OBVIOUS
<1>0. /\ serve \in [Conn -> Serve] /\ device \in [Conn -> Name \cup {None}]
      /\ Served(d)
  BY DEF ServedInv, HostTypes
<1>1. CASE UNCHANGED <<serve, device>>
  BY <1>1 DEF Got
<1>2. ASSUME NEW c \in Conn, NEW label, Goto(c, label), UNCHANGED device,
             label \notin {"issue", "reply"}
      PROVE  Ok
  BY <1>0, <1>2 DEF Got, Goto, Serve
<1>3. ASSUME NEW c \in Conn, Opens(c) \/ PeekPairingToken(c) \/ Prompt(c) PROVE Ok
  BY <1>2, <1>3 DEF Opens, PeekPairingToken, Prompt, Refuse
<1>4. ASSUME NEW c \in Conn, ConsumePairingToken(c) PROVE Ok
  <2>1. CASE /\ Consumable(Tok(c)) /\ row' = AfterConsume(Tok(c))
             /\ serve' = [serve EXCEPT ![c] = [pc |-> "issue", name |-> row[Tok(c)].name]]
    <3>1. c # d => serve'[d] = serve[d]
      BY <1>0, <2>1
    <3> QED BY <1>0, <1>4, <2>1, <3>1 DEF ConsumePairingToken, Got
  <2>2. CASE AskHost(c)
    BY <1>2, <1>4, <2>2 DEF ConsumePairingToken, AskHost, Refuse
  <2> QED BY <1>4, <2>1, <2>2 DEF ConsumePairingToken
<1>5. ASSUME NEW c \in Conn, TakeLine(c) \/ PromptTimesOut(c) PROVE Ok
  <2>1. CASE serve' = [serve EXCEPT ![c] = [pc |-> "approve", name |-> c]] /\ UNCHANGED device
    BY <1>0, <2>1 DEF Got
  <2> QED BY <1>2, <1>5, <2>1 DEF TakeLine, PromptTimesOut, Refuse
<1>6. ASSUME NEW c \in Conn, ApprovePairingToken(c) \/ IssueFails(c) PROVE Ok
  BY <1>2, <1>6 DEF ApprovePairingToken, IssueFails, Refuse
<1>7. ASSUME NEW c \in Conn, Reconsume(c) PROVE Ok
  <2>1. c # d => serve'[d] = serve[d]
    BY <1>0, <1>7 DEF Reconsume, Goto
  <2> QED BY <1>0, <1>7, <2>1 DEF Reconsume, Got
<1>8. ASSUME NEW c \in Conn, IssueCredential(c) PROVE Ok
  BY <1>0, <1>8 DEF IssueCredential, Goto, Got, Serve
<1>9. ASSUME NEW c \in Conn, ReplyPaired(c) PROVE Ok
  BY <1>0, <1>9 DEF ReplyPaired, Goto, Got, Serve
<1>10. CASE AppSteps
  BY <1>1, <1>10, AppStepsAreQuiet DEF Quiet
<1> HIDE DEF Ok
<1>11. CASE HostSteps
  <2>1. ASSUME NEW t \in Token, CliApproves(t) \/ Expires(t) PROVE Ok
    BY <1>1, <2>1 DEF CliApproves, Expires
  <2> QED BY <1>3, <1>4, <1>5, <1>6, <1>7, <1>8, <1>9, <1>11, <2>1 DEF HostSteps, HandlePairing
<1> QED BY <1>10, <1>11, AllSteps

\* Consent is not withdrawn.
LEMMA ConsentGrows ==
  ASSUME [Next]_vars
  PROVE  agreed \subseteq agreed' /\ cli \subseteq cli'
<1> DEFINE Ok == agreed \subseteq agreed' /\ cli \subseteq cli'
<1> SUFFICES Ok
  OBVIOUS
<1>1. CASE UNCHANGED <<agreed, cli>>
  BY <1>1
<1>2. ASSUME NEW c \in Conn, HandlePairing(c) \/ Opens(c) PROVE Ok
  <2>1. CASE PeekPairingToken(c) \/ ConsumePairingToken(c) \/ Prompt(c)
    BY <1>1, <2>1 DEF PeekPairingToken, ConsumePairingToken, Prompt, historyVars
  <2>2. CASE TakeLine(c)
    BY <2>2 DEF TakeLine
  <2>3. CASE PromptTimesOut(c) \/ ApprovePairingToken(c) \/ Reconsume(c)
    BY <1>1, <2>3 DEF PromptTimesOut, ApprovePairingToken, Reconsume, historyVars
  <2>4. CASE IssueCredential(c) \/ IssueFails(c) \/ ReplyPaired(c) \/ Opens(c)
    BY <1>1, <2>4 DEF IssueCredential, IssueFails, ReplyPaired, Opens, historyVars
  <2> QED BY <1>2, <2>1, <2>2, <2>3, <2>4 DEF HandlePairing
<1>3. ASSUME NEW t \in Token, CliApproves(t) \/ Expires(t) PROVE Ok
  BY <1>3 DEF CliApproves, Expires, historyVars
<1>4. CASE AppSteps
  BY <1>1, <1>4, AppStepsAreQuiet DEF Quiet
<1> HIDE DEF Ok
<1>5. CASE HostSteps
  BY <1>2, <1>3, <1>5 DEF HostSteps
<1> QED BY <1>4, <1>5, AllSteps


\* Those nobody was asked about.
Unasked(c) == Got(c) /\ c \notin agreed

Consented(t) == t \in cli \/ \E d \in agreed : Tok(d) = t

\* A token takes one connection nobody was asked about to a device, and is
\* used up then; and it has the consent of somebody.
ConsentOf(t) ==
  /\ \A c, d \in Conn : Unasked(c) /\ Unasked(d) /\ Tok(c) = t /\ Tok(d) = t => c = d
  /\ \A c \in Conn : Unasked(c) /\ Tok(c) = t => row[t].state = "absent" /\ Consented(t)
  /\ row[t].state = "approved" => Consented(t)

ConsentInv == ServedInv /\ \A t \in Token : ConsentOf(t)

\* Consent once given is not taken back.
LEMMA ConsentedKept ==
  ASSUME ServedInv, [Next]_vars, NEW t, Consented(t)
  PROVE  Consented(t)'
<1>1. agreed \subseteq agreed' /\ cli \subseteq cli' /\ agreed \subseteq Conn
  BY ConsentGrows DEF ServedInv, HostTypes
<1>2. CASE t \in cli
  BY <1>1, <1>2 DEF Consented
<1>3. ASSUME NEW d \in agreed, Tok(d) = t PROVE Consented(t)'
  <2>1. d \in Conn /\ Begun(d)
    BY <1>1, <1>3 DEF ServedInv, Served
  <2>2. Tok(d)' = t
    BY <1>3, <2>1, ConnKept DEF ServedInv
  <2> QED BY <1>1, <1>3, <2>2 DEF Consented
<1> QED BY <1>2, <1>3 DEF Consented

\* At most one connection of a token was not asked about.
LEMMA ConsentStep ==
  ASSUME ConsentInv, [Next]_vars, NEW t \in Token
  PROVE  ConsentOf(t)'
<1>1. ServedInv /\ ServedInv' /\ ConsentOf(t) /\ agreed \subseteq agreed'
  BY ServedStep, ConsentGrows DEF ConsentInv
\* Who is new used the token up.
<1>2. ASSUME NEW c \in Conn, Unasked(c)', Tok(c)' = t, ~(Unasked(c) /\ Tok(c) = t)
      PROVE  /\ row[t].state = "approved" /\ row'[t].state = "absent"
             /\ ConsumePairingToken(c)
  <2>1. ~Reconsume(c)
    <3>1. Reconsume(c) => c \in agreed
      BY <1>1 DEF Reconsume, ServedInv, Served
    <3> QED BY <1>1, <1>2, <3>1 DEF Unasked
  <2>2. Got(c) => Begun(c)
    BY <1>1 DEF ServedInv, Served, Got
  <2>3. ~Got(c)
    <3>1. Got(c) => Tok(c)' = Tok(c)
      BY <1>1, <2>2, ConnKept DEF ServedInv
    <3> QED BY <1>1, <1>2, <3>1 DEF Unasked
  <2>4. ConsumePairingToken(c) /\ Consumable(Tok(c)) /\ row' = AfterConsume(Tok(c))
    BY <1>1, <1>2, <2>1, <2>3, GotStep DEF Unasked
  <2>5. Begun(c)
    BY <1>1, <2>4 DEF ServedInv, Served, ConsumePairingToken
  <2>6. Tok(c) = t
    BY <1>1, <1>2, <2>5, ConnKept DEF ServedInv
  <2>7. row'[t].state = "absent"
    BY <1>1, <2>4, <2>6, ConsumeFacts DEF ServedInv
  <2> QED BY <2>4, <2>6, <2>7 DEF Consumable
<1>3. ASSUME NEW c \in Conn, NEW d \in Conn, ConsumePairingToken(c), ConsumePairingToken(d),
             Unasked(c)', Unasked(d)'
      PROVE  c = d
  <2>1. c # d => serve'[d] = serve[d] \/ serve'[c] = serve[c]
    BY <1>1, <1>3 DEF ConsumePairingToken, AskHost, Refuse, Goto, ServedInv, HostTypes
  <2>2. ASSUME NEW e \in Conn, ConsumePairingToken(e), Unasked(e)', serve'[e] = serve[e]
        PROVE  FALSE
    <3>1. device'[e] # None
      BY <2>2 DEF Unasked, Got, ConsumePairingToken
    <3> QED BY <1>1, <2>2, <3>1 DEF ServedInv, Served, ConsumePairingToken
  <2> QED BY <1>3, <2>1, <2>2
<1>4. ASSUME NEW c \in Conn, NEW d \in Conn, Unasked(c)', Unasked(d)', Tok(c)' = t, Tok(d)' = t
      PROVE  c = d
  <2>1. CASE Unasked(c) /\ Tok(c) = t
    <3>1. Unasked(d) /\ Tok(d) = t
      BY <1>1, <1>2, <1>4, <2>1 DEF ConsentOf
    <3> QED BY <1>1, <2>1, <3>1 DEF ConsentOf
  <2>2. CASE ~(Unasked(c) /\ Tok(c) = t)
    <3>1. ~(Unasked(d) /\ Tok(d) = t)
      BY <1>1, <1>2, <1>4, <2>2 DEF ConsentOf
    <3> QED BY <1>2, <1>3, <1>4, <2>2, <3>1
  <2> QED BY <2>1, <2>2
<1>5. ASSUME NEW c \in Conn, Unasked(c)', Tok(c)' = t
      PROVE  row'[t].state = "absent" /\ Consented(t)'
  <2>1. CASE Unasked(c) /\ Tok(c) = t
    <3>1. row[t].state = "absent" /\ Consented(t)
      BY <1>1, <2>1 DEF ConsentOf
    <3>2. row'[t].state = "absent"
      BY <1>1, <3>1, RowStep
    <3> QED BY <1>1, <3>1, <3>2, ConsentedKept
  <2>2. CASE ~(Unasked(c) /\ Tok(c) = t)
    <3>1. row[t].state = "approved" /\ row'[t].state = "absent"
      BY <1>2, <1>5, <2>2
    <3>2. Consented(t)
      BY <1>1, <3>1 DEF ConsentOf
    <3> QED BY <1>1, <3>1, <3>2, ConsentedKept
  <2> QED BY <2>1, <2>2
<1>6. ASSUME row'[t].state = "approved" PROVE Consented(t)'
  <2>1. CASE row[t].state = "approved"
    BY <1>1, <2>1, ConsentedKept DEF ConsentOf
  <2>2. CASE CliApproves(t)
    BY <2>2 DEF CliApproves, Consented
  <2>3. ASSUME NEW c \in Conn, ApprovePairingToken(c), Tok(c) = t PROVE Consented(t)'
    <3>1. c \in agreed
      BY <1>1, <2>3 DEF ApprovePairingToken, ServedInv, Served
    <3>2. Consented(t)
      BY <2>3, <3>1 DEF Consented
    <3> QED BY <1>1, <3>2, ConsentedKept
  <2> QED BY <1>1, <1>6, <2>1, <2>2, <2>3, RowStep
<1> QED BY <1>4, <1>5, <1>6 DEF ConsentOf

\* The invariant behind EveryDeviceWasApproved.
LEMMA ConsentInvariant == Spec => []ConsentInv
<1>1. Init => ConsentInv
  BY ServedInit DEF ConsentInv, ConsentOf, Init, Unasked, Got
<1>2. ConsentInv /\ [Next]_vars => ConsentInv'
  BY ServedStep, ConsentStep DEF ConsentInv
<1> QED BY <1>1, <1>2, PTL DEF Spec

\* A set whose members are equal has at most one.
LEMMA AtMostOne ==
  ASSUME NEW S, \A x, y \in S : x = y
  PROVE  Cardinality(S) <= 1
<1>1. CASE S = {}
  BY <1>1, FS_EmptySet
<1>2. CASE S # {}
  <2>1. PICK x : S = {x}
    BY <1>2
  <2> QED BY <2>1, FS_Singleton
<1> QED BY <1>1, <1>2

(***************************************************************************)
(* The host's consent (main.go: RequestApproval, pair --approve): however  *)
(* the apps' connections interleave with the human's answers, and however  *)
(* often a code is scanned, at most one device of a token was not asked    *)
(* about itself, and the token of that one somebody approved.              *)
(***************************************************************************)
THEOREM DevicesAreApproved == Spec => []EveryDeviceWasApproved
<1>1. ASSUME ConsentInv PROVE EveryDeviceWasApproved
  <2> SUFFICES ASSUME NEW t \in Token
               PROVE  /\ Cardinality(DevicesOf(t) \ agreed) <= 1
                      /\ DevicesOf(t) \ agreed # {} => t \in cli \/ \E d \in agreed : Tok(d) = t
    BY DEF EveryDeviceWasApproved
  <2> DEFINE unasked == DevicesOf(t) \ agreed
  <2>1. \A c \in unasked : c \in Conn /\ Unasked(c) /\ Tok(c) = t
    BY DEF DevicesOf, Unasked, Got
  <2>2. ConsentOf(t)
    BY <1>1 DEF ConsentInv
  <2> HIDE DEF unasked
  <2>3. \A c, d \in unasked : c = d
    BY <2>1, <2>2 DEF ConsentOf
  <2>4. unasked # {} => Consented(t)
    BY <2>1, <2>2 DEF ConsentOf
  <2>5. Cardinality(unasked) <= 1
    BY <2>3, AtMostOne
  <2> QED BY <2>4, <2>5 DEF unasked, Consented
<1> QED BY <1>1, ConsentInvariant, PTL

-----------------------------------------------------------------------------
(* One token, one device *)

\* A handler moves by its own steps only.
LEMMA HandlerMoves ==
  ASSUME ServedInv, [Next]_vars, NEW d \in Conn
  PROVE  /\ \/ serve'[d] = serve[d]
            \/ Opens(d) /\ serve'[d].pc = "peek"
            \/ HandlePairing(d)
         /\ device'[d] = device[d] \/ IssueCredential(d)
<1> DEFINE Ok == /\ \/ serve'[d] = serve[d]
                    \/ Opens(d) /\ serve'[d].pc = "peek"
                    \/ HandlePairing(d)
                 /\ device'[d] = device[d] \/ IssueCredential(d)
<1> SUFFICES Ok
  OBVIOUS
<1>0. serve \in [Conn -> Serve] /\ device \in [Conn -> Name \cup {None}]
  BY DEF ServedInv, HostTypes
<1>1. CASE UNCHANGED <<serve, device>>
  BY <1>1
<1>2. ASSUME NEW c \in Conn, Opens(c) PROVE Ok
  BY <1>0, <1>2 DEF Opens, Goto, Serve
<1>3. ASSUME NEW c \in Conn, HandlePairing(c) PROVE Ok
  <2>1. ASSUME NEW e, serve' = [serve EXCEPT ![c] = e]
        PROVE  c # d => serve'[d] = serve[d]
    BY <1>0, <2>1
  <2>2. ASSUME NEW label, Goto(c, label)
        PROVE  c # d => serve'[d] = serve[d]
    BY <1>0, <2>2 DEF Goto
  <2>3. CASE PeekPairingToken(c) \/ ConsumePairingToken(c) \/ Prompt(c)
    BY <1>3, <2>1, <2>2, <2>3 DEF PeekPairingToken, ConsumePairingToken, AskHost, Prompt, Refuse
  <2>4. CASE TakeLine(c) \/ PromptTimesOut(c) \/ ApprovePairingToken(c)
    BY <1>3, <2>1, <2>2, <2>4 DEF TakeLine, PromptTimesOut, ApprovePairingToken, Refuse
  <2>5. CASE Reconsume(c)
    BY <1>0, <1>3, <2>1, <2>2, <2>5 DEF Reconsume
  <2>6. CASE IssueFails(c) \/ ReplyPaired(c)
    BY <1>3, <2>2, <2>6 DEF IssueFails, ReplyPaired, Refuse
  <2>7. CASE IssueCredential(c)
    BY <1>0, <1>3, <2>2, <2>7 DEF IssueCredential
  <2> HIDE DEF Ok
  <2> QED BY <1>3, <2>3, <2>4, <2>5, <2>6, <2>7 DEF HandlePairing
<1>4. ASSUME NEW t \in Token, CliApproves(t) \/ Expires(t) PROVE Ok
  BY <1>1, <1>4 DEF CliApproves, Expires
<1>5. CASE AppSteps
  BY <1>1, <1>5, AppStepsAreQuiet DEF Quiet
<1> HIDE DEF Ok
<1>6. CASE HostSteps
  BY <1>2, <1>3, <1>4, <1>6 DEF HostSteps
<1> QED BY <1>5, <1>6, AllSteps

\* Where a handler may be after its step, and the name it takes there.
LEMMA HandlerNames ==
  ASSUME ServedInv, [Next]_vars, NEW c \in Conn
  PROVE  /\ serve'[c].pc = "approve" => serve'[c] = serve[c] \/ serve'[c].name = c
         /\ serve'[c].pc = "reconsume" =>
              \/ serve'[c] = serve[c]
              \/ ApprovePairingToken(c) /\ serve'[c].name = serve[c].name
         /\ serve'[c].pc = "issue" =>
              \/ serve'[c] = serve[c]
              \/ /\ ConsumePairingToken(c) /\ Consumable(Tok(c))
                 /\ serve'[c].name = row[Tok(c)].name
              \/ /\ Reconsume(c)
                 /\ serve'[c].name \in {row[Tok(c)].name, serve[c].name}
         /\ serve[c].pc = "reconsume" => serve'[c] = serve[c] \/ Reconsume(c)
         /\ Serving(c)' => Serving(c) \/ Opens(c)
<1>0. serve \in [Conn -> Serve]
  BY DEF ServedInv, HostTypes
<1>1. CASE serve'[c] = serve[c]
  BY <1>1 DEF Serving
<1>2. CASE Opens(c) /\ serve'[c].pc = "peek"
  <2>1. serve[c].pc = "none"
    BY <1>2 DEF Opens, ServedInv, Served
  <2> QED BY <1>2, <2>1
<1>3. CASE HandlePairing(c)
  <2>1. CASE PeekPairingToken(c) \/ Prompt(c)
    BY <1>0, <2>1 DEF PeekPairingToken, Prompt, Refuse, Goto, Serve, Serving
  <2>2. CASE ConsumePairingToken(c)
    BY <1>0, <2>2 DEF ConsumePairingToken, AskHost, Refuse, Goto, Serve, Serving
  <2>3. CASE TakeLine(c)
    <3>1. serve[c].pc = "asking"
      BY <2>3 DEF TakeLine
    <3>2. CASE serve' = [serve EXCEPT ![c] = [pc |-> "approve", name |-> c]]
      BY <1>0, <3>1, <3>2 DEF Serving
    <3>3. CASE Refuse(c)
      BY <1>0, <3>1, <3>3 DEF Refuse, Goto, Serve, Serving
    <3> QED BY <2>3, <3>2, <3>3 DEF TakeLine
  <2>4. CASE ApprovePairingToken(c)
    BY <1>0, <2>4 DEF ApprovePairingToken, Refuse, Goto, Serve, Serving
  <2>5. CASE Reconsume(c)
    <3>1. /\ serve'[c].pc = "issue" /\ serve[c].pc = "reconsume"
          /\ serve'[c].name \in {row[Tok(c)].name, serve[c].name}
      BY <1>0, <2>5 DEF Reconsume, Goto, Serve
    <3> QED BY <2>5, <3>1 DEF Serving
  <2>6. CASE PromptTimesOut(c) \/ IssueCredential(c) \/ IssueFails(c) \/ ReplyPaired(c)
    BY <1>0, <2>6 DEF PromptTimesOut, IssueCredential, IssueFails, ReplyPaired, Refuse, Goto,
       Serve, Serving
  <2> QED BY <1>3, <2>1, <2>2, <2>3, <2>4, <2>5, <2>6 DEF HandlePairing
<1> QED BY <1>1, <1>2, <1>3, HandlerMoves

\* A token that two connections present at the same time is noted.
Alone ==
  \A c, d \in Conn : Serving(c) /\ Serving(d) /\ Tok(c) = Tok(d) => c = d \/ Tok(c) \in overlap

\* The human approves under the name of the connection.
OwnName == \A c \in Conn : serve[c].pc \in {"approve", "reconsume"} => serve[c].name = c

\* The tokens whose history excuses a second device.
Excused == overlap \cup unspent

\* A token that was presented twice at once, or left in the store, stays so.
LEMMA OverlapGrows ==
  ASSUME [Next]_vars
  PROVE  overlap \subseteq overlap' /\ Excused \subseteq Excused'
<1> DEFINE Ok == overlap \subseteq overlap' /\ unspent \subseteq unspent'
<1> SUFFICES Ok
  BY DEF Excused
<1>1. CASE UNCHANGED <<overlap, unspent>>
  BY <1>1
<1>2. ASSUME NEW c \in Conn, HandlePairing(c) \/ Opens(c) PROVE Ok
  <2>1. CASE PeekPairingToken(c) \/ ConsumePairingToken(c) \/ Prompt(c)
    BY <1>1, <2>1 DEF PeekPairingToken, ConsumePairingToken, Prompt, historyVars
  <2>2. CASE TakeLine(c) \/ PromptTimesOut(c) \/ ApprovePairingToken(c) \/ Reconsume(c)
    BY <1>1, <2>2 DEF TakeLine, PromptTimesOut, ApprovePairingToken, Reconsume, historyVars
  <2>3. CASE IssueCredential(c) \/ IssueFails(c) \/ ReplyPaired(c)
    BY <1>1, <2>3 DEF IssueCredential, IssueFails, ReplyPaired, historyVars
  <2>4. CASE Opens(c)
    BY <2>4 DEF Opens
  <2> QED BY <1>2, <2>1, <2>2, <2>3, <2>4 DEF HandlePairing
<1>3. ASSUME NEW t \in Token, CliApproves(t) \/ Expires(t) PROVE Ok
  BY <1>3 DEF CliApproves, Expires, historyVars
<1>4. CASE AppSteps
  BY <1>1, <1>4, AppStepsAreQuiet DEF Quiet
<1> HIDE DEF Ok
<1>5. CASE HostSteps
  BY <1>2, <1>3, <1>5 DEF HostSteps
<1> QED BY <1>4, <1>5, AllSteps

\* Handlers of one token are alone until it is presented twice at once.
LEMMA AloneStep ==
  ASSUME ServedInv, Alone, [Next]_vars
  PROVE  Alone'
<1> SUFFICES ASSUME NEW c \in Conn, NEW d \in Conn, c # d,
                    Serving(c)', Serving(d)', Tok(c)' = Tok(d)'
             PROVE  Tok(c)' \in overlap'
  BY DEF Alone
<1>1. ASSUME NEW e \in Conn, Serving(e) PROVE Tok(e)' = Tok(e)
  <2>1. Begun(e)
    BY <1>1 DEF ServedInv, Served, Serving
  <2> QED BY <2>1, ConnKept DEF ServedInv
<1>2. ASSUME NEW e \in Conn, NEW f \in Conn, e # f, Opens(e), Serving(f)', Tok(e)' = Tok(f)'
      PROVE  Tok(e)' \in overlap'
  <2>1. serve'[f] = serve[f]
    BY <1>2 DEF Opens, Goto, ServedInv, HostTypes
  <2>2. Serving(f)
    BY <1>2, <2>1 DEF Serving
  <2>3. app' = app
    BY <1>2 DEF Opens, outside
  <2>4. Tok(e)' = Tok(e) /\ Tok(f)' = Tok(f)
    BY <2>3 DEF Tok
  <2> QED BY <1>2, <2>2, <2>4 DEF Opens
<1>3. CASE Serving(c) /\ Serving(d)
  BY <1>1, <1>3, OverlapGrows DEF Alone
<1>4. CASE Opens(c) \/ Opens(d)
  BY <1>2, <1>4
<1> QED BY <1>3, <1>4, HandlerNames

\* Every approval stays one under the connection's own name.
LEMMA OwnNameStep ==
  ASSUME ServedInv, OwnName, [Next]_vars
  PROVE  OwnName'
<1>1. ASSUME NEW c \in Conn, serve'[c].pc \in {"approve", "reconsume"}
      PROVE  serve'[c].name = c
  BY <1>1, HandlerNames DEF OwnName, ApprovePairingToken
<1> QED BY <1>1 DEF OwnName

\* One token, one device, as it was approved.
OneTimeOf(t) ==
  /\ \A c, d \in Conn : Got(c) /\ Got(d) /\ Tok(c) = t /\ Tok(d) = t => c = d
  /\ \A c \in Conn : Got(c) /\ Tok(c) = t =>
       /\ row[t].state = "absent"
       /\ serve[c].pc = "issue" => serve[c].name \in {c, Cli}
       /\ device[c] \in {c, Cli, None}
  /\ \A c \in Conn : serve[c].pc = "reconsume" /\ Tok(c) = t => row[t].state = "approved"
  /\ row[t].state = "approved" =>
       \/ row[t].name = Cli
       \/ \E d \in Conn : serve[d].pc = "reconsume" /\ Tok(d) = t /\ row[t].name = d

OneTimeInv ==
  ServedInv /\ Alone /\ OwnName /\ \A t \in Token \ Excused : OneTimeOf(t)

\* A token presented once at a time, and deleted, has one device.
LEMMA OneTimeStep ==
  ASSUME OneTimeInv, [Next]_vars, NEW t \in Token \ Excused'
  PROVE  OneTimeOf(t)'
<1>1. /\ ServedInv /\ ServedInv' /\ Alone /\ OwnName /\ OneTimeOf(t)
      /\ t \in Token /\ t \notin overlap /\ t \notin unspent'
  BY ServedStep, OverlapGrows DEF OneTimeInv, Excused
<1>2. ASSUME NEW c \in Conn, serve[c].pc # "none" PROVE Tok(c)' = Tok(c)
  <2>1. Begun(c)
    BY <1>1, <1>2 DEF ServedInv, Served
  <2> QED BY <1>1, <2>1, ConnKept DEF ServedInv
<1>3. ASSUME NEW c \in Conn, Got(c) PROVE serve[c].pc \in {"issue", "reply", "done"}
  BY <1>1, <1>3 DEF Got, ServedInv, Served
\* Who is new has used the token up, alone.
<1>4. ASSUME NEW c \in Conn, Got(c)', Tok(c)' = t, ~(Got(c) /\ Tok(c) = t)
      PROVE  /\ row[t].state = "approved" /\ row'[t].state = "absent"
             /\ serve[c].pc \in {"consume", "reconsume"} /\ Tok(c) = t
             /\ serve'[c].pc = "issue" /\ serve'[c].name \in {c, Cli}
             /\ device'[c] = None
  <2>1. ~Got(c)
    BY <1>2, <1>3, <1>4
  <2>2. \/ ConsumePairingToken(c) /\ Consumable(Tok(c)) /\ row' = AfterConsume(Tok(c))
        \/ Reconsume(c)
    BY <1>1, <1>4, <2>1, GotStep
  <2>3. serve[c].pc \in {"consume", "reconsume"} /\ UNCHANGED device
    BY <2>2 DEF ConsumePairingToken, Reconsume
  <2>4. Tok(c) = t /\ device'[c] = None
    BY <1>2, <1>4, <2>1, <2>3 DEF Got
  <2>5. row[t].state = "approved"
    BY <1>1, <2>2, <2>4 DEF Consumable, Reconsume, OneTimeOf
  <2>6. serve[c].pc \in {"consume", "reconsume"} /\ row' = AfterConsume(Tok(c)) /\ UNCHANGED device
    <3>1. Exists(t)
      BY <1>1, <2>5 DEF Exists
    <3> QED BY <1>1, <2>2, <2>3, <2>4, <3>1 DEF Reconsume
  <2>7. row'[t].state = "absent"
    BY <1>1, <2>6, <2>4, <2>5, ConsumeFacts DEF ServedInv
  <2>8. serve'[c].pc = "issue"
    <3>1. serve \in [Conn -> Serve]
      BY <1>1 DEF ServedInv, HostTypes
    <3>2. CASE Reconsume(c)
      BY <3>1, <3>2 DEF Reconsume, Goto, Serve
    <3>3. serve'[c].pc \in {"issue", "reply"}
      BY <1>4, <2>4 DEF Got
    <3> QED BY <2>2, <3>1, <3>2, <3>3 DEF ConsumePairingToken, AskHost, Refuse, Goto, Serve
  <2>9. row[t].name \in {c, Cli}
    <3>1. ASSUME NEW d \in Conn, serve[d].pc = "reconsume", Tok(d) = t PROVE d = c
      BY <1>1, <2>6, <2>4, <3>1 DEF Alone, Serving
    <3> QED BY <1>1, <2>5, <3>1 DEF OneTimeOf
  <2>10. serve'[c].name \in {c, Cli}
    <3>1. serve[c].pc = "reconsume" => serve[c].name = c
      BY <1>1 DEF OwnName
    <3>2. serve'[c].name \in {row[t].name, serve[c].name}
      BY <1>1, <2>2, <2>6, <2>4, <2>8, HandlerNames
    <3>3. ConsumePairingToken(c) => serve'[c].name = row[t].name
      BY <1>1, <2>4, <2>8, HandlerNames DEF ConsumePairingToken, Reconsume
    <3> QED BY <2>2, <2>9, <3>1, <3>2, <3>3 DEF Reconsume
  <2> QED BY <2>6, <2>4, <2>5, <2>7, <2>8, <2>10
<1>5. ASSUME NEW c \in Conn, NEW d \in Conn, Got(c)', Got(d)', Tok(c)' = t, Tok(d)' = t
      PROVE  c = d
  <2>1. CASE Got(c) /\ Tok(c) = t
    <3>1. Got(d) /\ Tok(d) = t
      BY <1>1, <1>4, <1>5, <2>1 DEF OneTimeOf
    <3> QED BY <1>1, <2>1, <3>1 DEF OneTimeOf
  <2>2. CASE ~(Got(c) /\ Tok(c) = t)
    <3>1. ~(Got(d) /\ Tok(d) = t)
      BY <1>1, <1>4, <1>5, <2>2 DEF OneTimeOf
    <3>2. Serving(c) /\ Serving(d) /\ Tok(c) = t /\ Tok(d) = t
      BY <1>4, <1>5, <2>2, <3>1 DEF Serving
    <3> QED BY <1>1, <3>2 DEF Alone
  <2> QED BY <2>1, <2>2
<1>6. ASSUME NEW c \in Conn, Got(c)', Tok(c)' = t
      PROVE  /\ row'[t].state = "absent"
             /\ serve'[c].pc = "issue" => serve'[c].name \in {c, Cli}
             /\ device'[c] \in {c, Cli, None}
  <2>1. CASE Got(c) /\ Tok(c) = t
    <3>1. /\ row[t].state = "absent"
          /\ serve[c].pc = "issue" => serve[c].name \in {c, Cli}
          /\ device[c] \in {c, Cli, None}
      BY <1>1, <2>1 DEF OneTimeOf
    <3>2. row'[t].state = "absent"
      BY <1>1, <3>1, RowStep
    <3>3. serve[c].pc \in {"issue", "reply", "done"}
      BY <1>3, <2>1
    <3>4. serve'[c].pc = "issue" => serve'[c] = serve[c]
      BY <1>1, <3>3, HandlerNames DEF ConsumePairingToken, Reconsume
    <3>5. device'[c] \in {c, Cli, None}
      <4>1. CASE device'[c] = device[c]
        BY <3>1, <4>1
      <4>2. CASE IssueCredential(c)
        BY <1>1, <3>1, <4>2 DEF IssueCredential, ServedInv, HostTypes
      <4> QED BY <1>1, <4>1, <4>2, HandlerMoves
    <3> QED BY <3>1, <3>2, <3>4, <3>5
  <2>2. CASE ~(Got(c) /\ Tok(c) = t)
    BY <1>4, <1>6, <2>2
  <2> QED BY <2>1, <2>2
<1>7. ASSUME NEW c \in Conn, serve'[c].pc = "reconsume", Tok(c)' = t
      PROVE  row'[t].state = "approved"
  <2>1. CASE ApprovePairingToken(c)
    <3>1. Tok(c) = t
      BY <1>2, <1>7, <2>1 DEF ApprovePairingToken
    <3>2. /\ Valid(t)
          /\ row' = [row EXCEPT ![t].state = "approved", ![t].name = serve[c].name]
      <4>1. ~Refuse(c)
        BY <1>1, <1>7 DEF Refuse, Goto, ServedInv, HostTypes, Serve
      <4> QED BY <2>1, <3>1, <4>1 DEF ApprovePairingToken
    <3>3. HostTypes /\ serve[c].name \in Name \cup {None}
      BY <1>1 DEF ServedInv, HostTypes, Serve
    <3> QED BY <1>1, <3>2, <3>3, ApproveFacts
  <2>2. CASE serve'[c] = serve[c]
    <3>1. Tok(c) = t /\ serve[c].pc = "reconsume"
      BY <1>2, <1>7, <2>2
    <3>2. row[t].state = "approved"
      BY <1>1, <3>1 DEF OneTimeOf
    <3>3. ASSUME NEW e \in Conn, ConsumePairingToken(e) \/ Reconsume(e), Tok(e) = t
          PROVE  FALSE
      <4>1. serve[e].pc \in {"consume", "reconsume"}
        BY <3>3 DEF ConsumePairingToken, Reconsume
      <4>2. e = c
        BY <1>1, <3>1, <3>3, <4>1 DEF Alone, Serving
      <4>3. Reconsume(c)
        BY <3>1, <3>3, <4>2 DEF ConsumePairingToken
      <4>4. serve'[c].pc = "issue"
        BY <1>1, <4>3 DEF Reconsume, Goto, Serve, ServedInv, HostTypes
      <4> QED BY <1>7, <4>4
    <3> QED BY <1>1, <3>2, <3>3, RowStep
  <2> QED BY <1>1, <1>7, <2>1, <2>2, HandlerNames
<1>8. ASSUME row'[t].state = "approved"
      PROVE  \/ row'[t].name = Cli
             \/ \E d \in Conn : serve'[d].pc = "reconsume" /\ Tok(d)' = t /\ row'[t].name = d
  <2>1. CASE row'[t].state = row[t].state /\ row'[t].name = row[t].name
    <3>1. ASSUME NEW d \in Conn, serve[d].pc = "reconsume", Tok(d) = t, row[t].name = d
          PROVE  \E e \in Conn : serve'[e].pc = "reconsume" /\ Tok(e)' = t /\ row'[t].name = e
      <4>1. ~Reconsume(d)
        <5>0. Exists(t)
          BY <1>1, <1>8, <2>1 DEF Exists
        <5>1. Reconsume(d) => row'[t].state = "absent"
          BY <1>1, <1>8, <2>1, <3>1, <5>0, ConsumeFacts DEF Reconsume, ServedInv
        <5> QED BY <1>8, <5>1
      <4>2. serve'[d] = serve[d]
        BY <1>1, <3>1, <4>1, HandlerNames
      <4>3. Tok(d)' = t
        BY <1>2, <3>1
      <4> QED BY <2>1, <3>1, <4>2, <4>3
    <3> QED BY <1>1, <1>8, <2>1, <3>1 DEF OneTimeOf
  <2>2. ASSUME NEW c \in Conn, ApprovePairingToken(c), Tok(c) = t,
               serve'[c].pc = "reconsume", row'[t].name = serve[c].name
        PROVE  \E d \in Conn : serve'[d].pc = "reconsume" /\ Tok(d)' = t /\ row'[t].name = d
    <3>1. Tok(c)' = t
      BY <1>2, <2>2 DEF ApprovePairingToken
    <3>2. serve[c].name = c
      BY <1>1, <2>2 DEF ApprovePairingToken, OwnName
    <3> QED BY <2>2, <3>1, <3>2
  <2> QED BY <1>1, <1>8, <2>1, <2>2, RowStep
<1> QED BY <1>5, <1>6, <1>7, <1>8 DEF OneTimeOf

\* The invariant behind OneTimeUnlessOverlapping.
LEMMA OneTimeInvariant == Spec => []OneTimeInv
<1>1. Init => OneTimeInv
  <2> SUFFICES ASSUME Init PROVE OneTimeInv
    OBVIOUS
  <2>1. /\ \A c \in Conn : serve[c].pc = "none" /\ device[c] = None
        /\ \A t \in Token : row[t].state = "open"
    BY DEF Init
  <2> QED BY <2>1, ServedInit DEF OneTimeInv, Alone, Serving, OwnName, OneTimeOf, Got
<1>2. OneTimeInv /\ [Next]_vars => OneTimeInv'
  BY ServedStep, AloneStep, OwnNameStep, OneTimeStep DEF OneTimeInv
<1> QED BY <1>1, <1>2, PTL DEF Spec

(***************************************************************************)
(* A token is for one time (store.go: ConsumePendingToken deletes the row; *)
(* handlePairing in hub.go): it pairs one device, under the name of its    *)
(* own connection or the one given with --approve, unless two connections  *)
(* with the token were served at the same time, or the store failed to     *)
(* delete the token when the device was issued.                            *)
(***************************************************************************)
THEOREM TokensAreOneTime == Spec => []OneTimeUnlessOverlapping
<1>1. ASSUME OneTimeInv PROVE OneTimeUnlessOverlapping
  <2> SUFFICES ASSUME NEW t \in Token \ (overlap \cup unspent)
               PROVE  /\ Cardinality(DevicesOf(t)) <= 1
                      /\ \A c \in DevicesOf(t) : device[c] \in {c, Cli}
    BY DEF OneTimeUnlessOverlapping
  <2>1. \A c \in DevicesOf(t) : c \in Conn /\ Got(c) /\ Tok(c) = t /\ device[c] # None
    BY DEF DevicesOf, Got
  <2>2. OneTimeOf(t)
    BY <1>1 DEF OneTimeInv, Excused
  <2>3. \A c, d \in DevicesOf(t) : c = d
    BY <2>1, <2>2 DEF OneTimeOf
  <2>4. \A c \in DevicesOf(t) : device[c] \in {c, Cli}
    BY <2>1, <2>2 DEF OneTimeOf
  <2>5. Cardinality(DevicesOf(t)) <= 1
    BY <2>3, AtMostOne
  <2> QED BY <2>4, <2>5
<1> QED BY <1>1, OneTimeInvariant, PTL

-----------------------------------------------------------------------------
(* The candidates of a code *)

\* Of two indices in at the element at the first stands to the other's in R.
SortedByAt(s, at, R) == \A i, j \in at : i < j => <<s[i], s[j]>> \in R

\* What Picked returns: the elements at the indices, in order.
LEMMA PickedFacts ==
  ASSUME NEW S, NEW s \in Seq(S), NEW at, at \subseteq DOMAIN s, NEW R,
         SortedByAt(s, at, R)
  PROVE  LET t == Picked(s, at)
         IN  /\ t \in Seq(S)
             /\ SortedBy(t, R)
             /\ \A v : v \in ToSet(t) <=> \E i \in at : s[i] = v
<1> DEFINE f == [i \in DOMAIN s |-> IF i \in at THEN <<s[i]>> ELSE <<>>]
<1>1. PICK n \in Nat : n = Len(s)
  OBVIOUS
<1>2. DOMAIN s = 1 .. n /\ \A i \in 1 .. n : s[i] \in S
  BY <1>1
<1>3. /\ f \in [1 .. n -> Seq(S)]
      /\ \A i \in 1 .. n : IF i \in at THEN DOMAIN f[i] = {1} /\ f[i][1] = s[i]
                           ELSE DOMAIN f[i] = {}
  <2>1. \A i \in 1 .. n : /\ <<s[i]>> \in Seq(S) /\ DOMAIN <<s[i]>> = {1} /\ <<s[i]>>[1] = s[i]
    BY <1>2, ShortFacts
  <2>2. <<>> \in Seq(S) /\ DOMAIN <<>> = {}
    OBVIOUS
  <2> QED BY <1>2, <2>1, <2>2
<1>4. Picked(s, at) = FlattenSeq(f)
  BY DEF Picked
<1> HIDE DEF f
<1>5. \A i \in 1 .. n : SortedBy(f[i], R)
  <2>1. \A i \in 1 .. n : \A a, b \in DOMAIN f[i] : a = 1 /\ b = 1
    BY <1>3
  <2> QED BY <2>1 DEF SortedBy
<1>6. \A i, j \in 1 .. n : i < j => AllBefore(f[i], f[j], R)
  <2>1. \A i \in 1 .. n : \A a \in DOMAIN f[i] : i \in at /\ f[i][a] = s[i]
    BY <1>3
  <2> QED BY <2>1 DEF AllBefore, SortedByAt
<1> DEFINE t == FlattenSeq(f)
<1>7. /\ t \in Seq(S)
      /\ SortedBy(t, R)
      /\ \A v : v \in ToSet(t) <=> \E i \in 1 .. n : \E a \in DOMAIN f[i] : f[i][a] = v
  <2>1. n \in Nat /\ f \in [1 .. n -> Seq(S)]
    BY <1>1, <1>3
  <2>2. Chained(n, S, f, R)
    BY <2>1, <1>5, <1>6 DEF Chained
  <2>3. Flattened(n, S, f, R, FlattenSeq(f))
    BY <2>2, FlattenSeqFacts
  <2> QED BY <2>3 DEF Flattened
<1>8. ASSUME NEW v
      PROVE  (\E i \in 1 .. n : \E a \in DOMAIN f[i] : f[i][a] = v) <=> \E i \in at : s[i] = v
  <2>1. \A i \in at : i \in 1 .. n /\ 1 \in DOMAIN f[i] /\ f[i][1] = s[i]
    BY <1>2, <1>3
  <2>2. \A i \in 1 .. n : \A a \in DOMAIN f[i] : i \in at /\ f[i][a] = s[i]
    BY <1>3
  <2> QED BY <2>1, <2>2
<1> HIDE DEF t
<1> QED BY <1>4, <1>7, <1>8 DEF t

\* The ranks of addresses.
LEMMA RankFacts ==
  ASSUME NEW h \in Host
  PROVE  RankHost(h) \in 0 .. 3
BY CodeAssumption DEF RankHost, Kind

\* The addresses of one rank.
LEMMA OfRankFacts ==
  ASSUME NEW hosts \in Seq(Host), NEW rank
  PROVE  /\ OfRank(hosts, rank) \in Seq(Host)
         /\ \A v : v \in ToSet(OfRank(hosts, rank)) <=> v \in ToSet(hosts) /\ RankHost(v) = rank
<1> DEFINE at == {i \in DOMAIN hosts : RankHost(hosts[i]) = rank}
           R == Host \X Host
           t == Picked(hosts, at)
<1>1. \A i \in DOMAIN hosts : hosts[i] \in Host
  OBVIOUS
<1>2. at \subseteq DOMAIN hosts /\ SortedByAt(hosts, at, R)
  BY <1>1 DEF SortedByAt
<1>3. t \in Seq(Host) /\ \A v : v \in ToSet(t) <=> \E i \in at : hosts[i] = v
  <2> HIDE DEF at, R
  <2> QED BY <1>2, PickedFacts
<1>4. \A v : (\E i \in at : hosts[i] = v) <=> v \in ToSet(hosts) /\ RankHost(v) = rank
  BY DEF ToSet
<1> HIDE DEF t
<1> QED BY <1>3, <1>4 DEF t, OfRank

\* Ranked loses no address, and puts none before a better one.
LEMMA RankedFacts ==
  ASSUME NEW hosts \in Seq(Host)
  PROVE  LET t == Ranked(hosts)
         IN  /\ t \in Seq(Host)
             /\ \A a, b \in DOMAIN t : a < b => RankHost(t[a]) <= RankHost(t[b])
             /\ \A v : v \in ToSet(t) <=> v \in ToSet(hosts)
<1> DEFINE f == [r \in 1 .. 4 |-> OfRank(hosts, r - 1)]
           R == {x \in Host \X Host : RankHost(x[1]) <= RankHost(x[2])}
<1>1. f \in [1 .. 4 -> Seq(Host)] /\ \A r \in 1 .. 4 : f[r] = OfRank(hosts, r - 1)
  BY OfRankFacts
<1>2. \A x, y \in Host : <<x, y>> \in R <=> RankHost(x) <= RankHost(y)
  OBVIOUS
<1>3. \A r \in 1 .. 4 : \A a \in DOMAIN f[r] : f[r][a] \in Host /\ RankHost(f[r][a]) = r - 1
  <2> SUFFICES ASSUME NEW r \in 1 .. 4, NEW a \in DOMAIN f[r]
               PROVE  f[r][a] \in Host /\ RankHost(f[r][a]) = r - 1
    OBVIOUS
  <2>1. f[r] \in Seq(Host) /\ f[r] = OfRank(hosts, r - 1)
    BY <1>1
  <2>2. f[r][a] \in ToSet(OfRank(hosts, r - 1))
    BY <2>1 DEF ToSet
  <2>3. f[r][a] \in Host
    BY <2>1
  <2> QED BY <2>2, <2>3, OfRankFacts
<1>4. Ranked(hosts) = FlattenSeq(f)
  BY DEF Ranked
<1> HIDE DEF f, R
<1>5. \A i \in 1 .. 4 : SortedBy(f[i], R)
  BY <1>2, <1>3 DEF SortedBy
<1>6. \A i, j \in 1 .. 4 : i < j => AllBefore(f[i], f[j], R)
  BY <1>2, <1>3 DEF AllBefore
<1> DEFINE t == FlattenSeq(f)
<1>7. /\ t \in Seq(Host)
      /\ SortedBy(t, R)
      /\ \A v : v \in ToSet(t) <=> \E i \in 1 .. 4 : \E a \in DOMAIN f[i] : f[i][a] = v
  <2>1. 4 \in Nat /\ f \in [1 .. 4 -> Seq(Host)]
    BY <1>1
  <2>2. Chained(4, Host, f, R)
    BY <2>1, <1>5, <1>6 DEF Chained
  <2>3. Flattened(4, Host, f, R, FlattenSeq(f))
    BY <2>2, FlattenSeqFacts
  <2> QED BY <2>3 DEF Flattened
<1> HIDE DEF t
<1>8. \A a, b \in DOMAIN t : a < b => RankHost(t[a]) <= RankHost(t[b])
  <2>1. \A a \in DOMAIN t : t[a] \in Host
    BY <1>7
  <2> QED BY <1>2, <1>7, <2>1 DEF SortedBy
<1>9. ASSUME NEW v
      PROVE  (\E i \in 1 .. 4 : \E a \in DOMAIN f[i] : f[i][a] = v) <=> v \in ToSet(hosts)
  <2>1. ASSUME NEW i \in 1 .. 4, NEW a \in DOMAIN f[i], f[i][a] = v
        PROVE  v \in ToSet(hosts)
    <3>1. v \in ToSet(OfRank(hosts, i - 1))
      BY <1>1, <2>1 DEF ToSet
    <3> QED BY <3>1, OfRankFacts
  <2>2. ASSUME v \in ToSet(hosts)
        PROVE  \E i \in 1 .. 4 : \E a \in DOMAIN f[i] : f[i][a] = v
    <3>1. v \in Host
      BY <2>2 DEF ToSet
    <3>2. PICK i \in 1 .. 4 : RankHost(v) = i - 1
      <4>1. RankHost(v) \in 0 .. 3
        BY <3>1, RankFacts
      <4>2. RankHost(v) + 1 \in 1 .. 4 /\ RankHost(v) = (RankHost(v) + 1) - 1
        BY <4>1
      <4> QED BY <4>2
    <3>3. v \in ToSet(OfRank(hosts, i - 1))
      BY <2>2, <3>2, OfRankFacts
    <3> QED BY <1>1, <3>3 DEF ToSet
  <2> QED BY <2>1, <2>2
<1> QED BY <1>4, <1>7, <1>8, <1>9 DEF t

\* Distinct loses no element, keeps the order and leaves no duplicate.
LEMMA DistinctFacts ==
  ASSUME NEW S, NEW s \in Seq(S), NEW R,
         SortedBy(s, R)
  PROVE  LET t == Distinct(s)
         IN  /\ t \in Seq(S)
             /\ SortedBy(t, R)
             /\ \A a, b \in DOMAIN t : a < b => t[a] # t[b]
             /\ \A v : v \in ToSet(t) <=> v \in ToSet(s)
<1> DEFINE at == {i \in DOMAIN s : \A j \in 1 .. i - 1 : s[j] # s[i]}
           Q == {x \in S \X S : x \in R /\ x[1] # x[2]}
           t == Picked(s, at)
<1>1. PICK n \in Nat : n = Len(s)
  OBVIOUS
<1>2. DOMAIN s = 1 .. n /\ \A i \in 1 .. n : s[i] \in S
  BY <1>1
<1>3. \A x, y \in S : <<x, y>> \in Q <=> <<x, y>> \in R /\ x # y
  OBVIOUS
<1>4. ASSUME NEW i \in at, NEW j \in at, i < j
      PROVE  <<s[i], s[j]>> \in Q
  <2>1. i \in 1 .. n /\ j \in 1 .. n /\ i \in 1 .. j - 1
    BY <1>2, <1>4
  <2>2. s[i] # s[j]
    BY <2>1
  <2> HIDE DEF Q
  <2> QED BY <1>2, <1>3, <1>4, <2>1, <2>2 DEF SortedBy
<1>5. /\ t \in Seq(S)
      /\ SortedBy(t, Q)
      /\ \A v : v \in ToSet(t) <=> \E i \in at : s[i] = v
  <2>1. at \subseteq DOMAIN s
    OBVIOUS
  <2>2. SortedByAt(s, at, Q)
    BY <1>4 DEF SortedByAt
  <2> HIDE DEF at, Q
  <2> QED BY <2>1, <2>2, PickedFacts
<1>6. ASSUME NEW v
      PROVE  (\E i \in at : s[i] = v) <=> v \in ToSet(s)
  <2>1. ASSUME v \in ToSet(s)
        PROVE  \E i \in at : s[i] = v
    <3> DEFINE T == {i \in 1 .. n : s[i] = v}
    <3>1. T \subseteq Nat /\ T # {}
      BY <1>2, <2>1 DEF ToSet
    <3>2. PICK i \in T : \A j \in T : i <= j
      <4> HIDE DEF T
      <4> QED BY <3>1, LeastElement
    <3>3. \A j \in 1 .. i - 1 : j \in 1 .. n /\ ~(i <= j)
      BY <1>2
    <3>4. i \in at
      BY <1>2, <3>2, <3>3
    <3> QED BY <3>4
  <2> QED BY <2>1 DEF ToSet
<1> HIDE DEF t, Q
<1>7. \A a \in DOMAIN t : t[a] \in S
  BY <1>5
<1>8. /\ t \in Seq(S)
      /\ SortedBy(t, R)
      /\ \A a, b \in DOMAIN t : a < b => t[a] # t[b]
      /\ \A v : v \in ToSet(t) <=> v \in ToSet(s)
  <2> HIDE DEF at
  <2> QED BY <1>3, <1>4, <1>5, <1>6, <1>7 DEF SortedBy
<1>9. t = Distinct(s)
  BY DEF t, Distinct
<1> QED BY <1>8, <1>9

\* The addresses of a code.
Addrs(code) == IF code.addrs = <<>> THEN {Localhost} ELSE ToSet(code.addrs)

\* CandidateUrls has every address of the code, none twice, the better ones first.
LEMMA CandidateFacts ==
  ASSUME NEW code \in Code
  PROVE  LET t == CandidateUrls(code.addrs)
         IN  /\ t \in Seq(Host) /\ t # <<>>
             /\ \A a, b \in DOMAIN t : a < b =>
                  RankHost(t[a]) <= RankHost(t[b]) /\ t[a] # t[b]
             /\ ToSet(t) = Addrs(code)
<1> DEFINE hosts == IF code.addrs = <<>> THEN <<Localhost>> ELSE code.addrs
           s == Ranked(hosts)
           t == Distinct(s)
           R == {x \in Host \X Host : RankHost(x[1]) <= RankHost(x[2])}
<1>1. hosts \in Seq(Host) /\ ToSet(hosts) = Addrs(code) /\ hosts # <<>>
  <2>1. CASE code.addrs = <<>>
    <3>1. Localhost \in Host
      BY CodeAssumption
    <3>2. hosts = <<Localhost>> /\ DOMAIN <<Localhost>> = {1} /\ <<Localhost>>[1] = Localhost
          /\ <<Localhost>> \in Seq(Host) /\ <<Localhost>> # <<>>
      BY <2>1, <3>1
    <3> HIDE DEF hosts
    <3>3. ToSet(<<Localhost>>) = {Localhost}
      BY <3>2 DEF ToSet
    <3> QED BY <2>1, <3>2, <3>3 DEF Addrs
  <2>2. CASE code.addrs # <<>>
    BY <2>2, CodeAssumption DEF Addrs
  <2> QED BY <2>1, <2>2
<1> HIDE DEF hosts
<1>2. /\ s \in Seq(Host)
      /\ \A a, b \in DOMAIN s : a < b => RankHost(s[a]) <= RankHost(s[b])
      /\ \A v : v \in ToSet(s) <=> v \in ToSet(hosts)
  BY <1>1, RankedFacts
<1>3. \A x, y \in Host : <<x, y>> \in R <=> RankHost(x) <= RankHost(y)
  OBVIOUS
<1> HIDE DEF R, s
<1>4. SortedBy(s, R)
  <2>1. \A a \in DOMAIN s : s[a] \in Host
    BY <1>2
  <2> QED BY <1>2, <1>3, <2>1 DEF SortedBy
<1>5. /\ t \in Seq(Host)
      /\ SortedBy(t, R)
      /\ \A a, b \in DOMAIN t : a < b => t[a] # t[b]
      /\ \A v : v \in ToSet(t) <=> v \in ToSet(s)
  BY <1>2, <1>4, DistinctFacts
<1>6. CandidateUrls(code.addrs) = t
  BY DEF CandidateUrls, hosts, s
<1> HIDE DEF t
<1>7. \A a \in DOMAIN t : t[a] \in Host
  BY <1>5
<1>8. ToSet(t) = Addrs(code)
  BY <1>1, <1>2, <1>5
<1>9. t # <<>>
  <2>1. 1 \in DOMAIN hosts
    BY <1>1
  <2>2. hosts[1] \in ToSet(t)
    BY <1>1, <1>8, <2>1 DEF ToSet
  <2>3. ToSet(<<>>) = {}
    BY DEF ToSet
  <2> QED BY <2>2, <2>3
<1> QED BY <1>3, <1>5, <1>6, <1>7, <1>8, <1>9 DEF SortedBy

-----------------------------------------------------------------------------
(* What a phone has tried, and what is left *)

\* After its first k attempts the app has tried the first of the candidates of
\* its code; the others are left.
TriedSince(p, k) ==
  LET cands == CandidateUrls(p.code.addrs)
      n == Len(p.tried) - k
  IN  /\ \A i \in 1 .. Len(p.tried) : p.tried[i].try = p.try <=> i > k
      /\ p.left \in Seq(Host) /\ n + Len(p.left) = Len(cands)
      /\ \A i \in 1 .. n : p.tried[k + i].host = cands[i]
      /\ \A i \in 1 .. Len(p.left) : p.left[i] = cands[n + i]

TriedInv(p) ==
  /\ p.try \in Nat
  /\ \A i \in 1 .. Len(p.tried) : p.tried[i].try \in 0 .. p.try
  /\ p.phase = "idle" => p.code = None
  /\ p.code # None => p.code \in Code /\ \E k \in 0 .. Len(p.tried) : TriedSince(p, k)
  /\ p.phase = "failed" /\ p.code # None => p.left = <<>>

\* So it is with every phone.
MobileInv == \A a \in Mobile : TriedInv(app[a])

\* The attempts of a pairing whose phase is another.
LEMMA PhasedFields ==
  ASSUME NEW p, IsPairing(p), NEW ph
  PROVE  LET q == Phased(p, ph)
         IN  /\ q.phase = ph /\ q.code = p.code /\ q.try = p.try
             /\ q.left = p.left
             /\ q.tried = p.tried
<1>1. PICK S : p \in Pairings(S)
  BY DEF IsPairing
<1> QED BY <1>1 DEF Pairings, Phased

\* The attempts of a pairing that gets an identity.
LEMMA IdentifiedFields ==
  ASSUME NEW p, IsPairing(p), NEW id
  PROVE  LET q == Identified(p, id)
         IN  /\ q.phase = p.phase /\ q.code = p.code /\ q.try = p.try
             /\ q.left = p.left
             /\ q.tried = p.tried
<1>1. PICK S : p \in Pairings(S)
  BY DEF IsPairing
<1> QED BY <1>1 DEF Pairings, Identified

\* The attempts of a pairing that saves an identity.
LEMMA StoredFields ==
  ASSUME NEW p, IsPairing(p), NEW id, NEW ph
  PROVE  LET q == Stored(p, id, ph)
         IN  /\ q.phase = ph /\ q.code = p.code /\ q.try = p.try
             /\ q.left = p.left
             /\ q.tried = p.tried
<1>1. PICK S : p \in Pairings(S)
  BY DEF IsPairing
<1> QED BY <1>1 DEF Pairings, Stored

\* The attempts of a pairing that is given a code.
LEMMA CodedFields ==
  ASSUME NEW p, IsPairing(p), NEW ph, NEW co, NEW tr, NEW le
  PROVE  LET q == Coded(p, ph, co, tr, le)
         IN  /\ q.phase = ph /\ q.code = co /\ q.try = tr
             /\ q.left = le
             /\ q.tried = p.tried
<1>1. PICK S : p \in Pairings(S)
  BY DEF IsPairing
<1> QED BY <1>1 DEF Pairings, Coded

\* The attempts of a pairing that takes the next candidate.
LEMMA NextFields ==
  ASSUME NEW p, IsPairing(p)
  PROVE  LET q == TryNext(p)
         IN  /\ q.phase = p.phase /\ q.code = p.code /\ q.try = p.try
             /\ q.left = Tail(p.left)
             /\ q.tried = Append(p.tried, [token |-> TokenIn(p.of, p.code),
                                        host |-> Head(p.left), try |-> p.try])
<1>1. PICK S : p \in Pairings(S)
  BY DEF IsPairing
<1> QED BY <1>1 DEF Pairings, TryNext

\* An update that leaves code and attempts alone.
LEMMA SameAttempts ==
  ASSUME NEW p, NEW q, TriedInv(p),
         q.tried = p.tried, q.left = p.left, q.try = p.try, q.code = p.code,
         q.phase = "idle" => p.phase = "idle",
         q.phase = "failed" => p.phase \in {"idle", "failed"} \/ p.left = <<>>
  PROVE  TriedInv(q)
<1>1. \A k : TriedSince(p, k) => TriedSince(q, k)
  BY DEF TriedSince
<1> QED BY <1>1 DEF TriedInv

\* The next candidate is taken.
LEMMA NextAttempt ==
  ASSUME NEW p, IsPairing(p), TriedInv(p), p.phase = "pairing", p.code = None \/ p.left # <<>>
  PROVE  TriedInv(TryNext(p))
<1> DEFINE q == TryNext(p)
           attempt == [token |-> TokenIn(p.of, p.code), host |-> Head(p.left), try |-> p.try]
<1>1. /\ q.phase = "pairing" /\ q.code = p.code /\ q.try = p.try
      /\ q.left = Tail(p.left) /\ q.tried = Append(p.tried, attempt)
  BY NextFields
<1>2. attempt.host = Head(p.left) /\ attempt.try = p.try
  OBVIOUS
<1> HIDE DEF q, attempt
<1>3. PICK m \in Nat : m = Len(p.tried)
  BY AppendedSeq DEF IsPairing
<1>4. /\ Len(q.tried) = m + 1
      /\ \A i \in 1 .. m : q.tried[i] = p.tried[i]
      /\ q.tried[m + 1] = attempt
  BY <1>1, <1>3, AppendedSeq DEF IsPairing
<1>5. p.try \in Nat /\ \A i \in 1 .. m : p.tried[i].try \in 0 .. p.try
  BY <1>3 DEF TriedInv
<1>6. \A i \in 1 .. m + 1 : i \in 1 .. m \/ i = m + 1
  OBVIOUS
<1>7. \A i \in 1 .. Len(q.tried) : q.tried[i].try \in 0 .. q.try
  BY <1>1, <1>2, <1>4, <1>5, <1>6
<1>8. ASSUME p.code # None
      PROVE  \E k \in 0 .. Len(q.tried) : TriedSince(q, k)
  <2> DEFINE cands == CandidateUrls(p.code.addrs)
  <2>1. PICK k \in 0 .. m : TriedSince(p, k)
    BY <1>3, <1>8 DEF TriedInv
  <2>2. /\ \A i \in 1 .. m : p.tried[i].try = p.try <=> i > k
        /\ p.left \in Seq(Host) /\ (m - k) + Len(p.left) = Len(cands)
        /\ \A i \in 1 .. m - k : p.tried[k + i].host = cands[i]
        /\ \A i \in 1 .. Len(p.left) : p.left[i] = cands[m - k + i]
    BY <1>3, <2>1 DEF TriedSince
  <2>3. PICK l \in Nat : l = Len(p.left)
    BY <2>2
  <2>4. /\ l # 0 /\ Head(p.left) = p.left[1]
        /\ q.left \in Seq(Host) /\ Len(q.left) = l - 1
        /\ \A i \in 1 .. l - 1 : q.left[i] = p.left[i + 1]
    <3>1. p.left # <<>>
      BY <1>8
    <3> QED BY <1>1, <2>2, <2>3, <3>1, TailFacts
  <2> HIDE DEF cands
  <2>5. \A i \in 1 .. m + 1 : q.tried[i].try = q.try <=> i > k
    BY <1>1, <1>2, <1>4, <1>6, <2>2
  <2>6. \A i \in 1 .. m + 1 - k : q.tried[k + i].host = cands[i]
    <3>1. ASSUME NEW i \in 1 .. m + 1 - k
          PROVE  q.tried[k + i].host = cands[i]
      <4>1. CASE i \in 1 .. m - k
        <5>1. k + i \in 1 .. m
          BY <4>1
        <5> QED BY <1>4, <2>2, <4>1, <5>1
      <4>2. CASE i \notin 1 .. m - k
        <5>1. i = m - k + 1 /\ k + i = m + 1
          BY <4>2
        <5>2. 1 \in 1 .. l
          BY <2>4
        <5> QED BY <1>2, <1>4, <2>2, <2>3, <2>4, <5>1, <5>2
      <4> QED BY <4>1, <4>2
    <3> QED BY <3>1
  <2>7. \A i \in 1 .. l - 1 : q.left[i] = cands[m + 1 - k + i]
    <3>1. \A i \in 1 .. l - 1 : i + 1 \in 1 .. l /\ m - k + (i + 1) = m + 1 - k + i
      OBVIOUS
    <3> QED BY <2>2, <2>3, <2>4, <3>1
  <2>8. (m + 1 - k) + Len(q.left) = Len(cands)
    <3>1. Len(cands) = (m - k) + l /\ Len(q.left) = l - 1
      BY <2>2, <2>3, <2>4
    <3>2. (m + 1 - k) + (l - 1) = (m - k) + l
      OBVIOUS
    <3> QED BY <3>1, <3>2
  <2>9. cands = CandidateUrls(q.code.addrs)
    BY <1>1 DEF cands
  <2>10. TriedSince(q, k)
    BY <1>4, <2>4, <2>5, <2>6, <2>7, <2>8, <2>9 DEF TriedSince
  <2> QED BY <1>4, <2>10
<1> QED BY <1>1, <1>5, <1>7, <1>8 DEF TriedInv, q

\* A pairing begins, with a code that can be read.
LEMMA FirstAttempt ==
  ASSUME NEW p, IsPairing(p), TriedInv(p), NEW code \in Code
  PROVE  TriedInv(TryNext(Coded(p, "pairing", code, p.try + 1, CandidateUrls(code.addrs))))
<1> DEFINE cands == CandidateUrls(code.addrs)
           q == Coded(p, "pairing", code, p.try + 1, cands)
<1>1. cands \in Seq(Host) /\ cands # <<>>
  BY CandidateFacts
<1>2. PICK m \in Nat : m = Len(p.tried)
  BY AppendedSeq DEF IsPairing
<1>3. /\ q.phase = "pairing" /\ q.code = code /\ q.try = p.try + 1
      /\ q.tried = p.tried /\ q.left = cands /\ IsPairing(q)
  <2> DEFINE tr == p.try + 1
             le == CandidateUrls(code.addrs)
  <2> HIDE DEF tr, le
  <2>1. LET r == Coded(p, "pairing", code, tr, le)
        IN  /\ r.phase = "pairing" /\ r.code = code /\ r.try = tr
            /\ r.tried = p.tried /\ r.left = le /\ IsPairing(r)
    BY CodedFields, WithCode
  <2> QED BY <2>1 DEF tr, le
<1>4. p.try \in Nat /\ \A i \in 1 .. m : p.tried[i].try \in 0 .. p.try
  BY <1>2 DEF TriedInv
<1>5. cands = CandidateUrls(q.code.addrs)
  BY <1>3
<1> HIDE DEF q, cands
<1>6. TriedSince(q, m)
  <2>1. \A i \in 1 .. m : q.tried[i].try # q.try /\ ~(i > m)
    BY <1>3, <1>4
  <2>2. Len(q.tried) = m /\ m - m = 0 /\ q.left \in Seq(Host) /\ q.left = cands
    BY <1>1, <1>2, <1>3
  <2>3. Len(cands) \in Nat /\ \A i \in 1 .. Len(cands) : 0 + i = i
    BY <1>1
  <2> QED BY <1>5, <2>1, <2>2, <2>3 DEF TriedSince
<1>7. TriedInv(q)
  <2>1. q.try \in Nat /\ \A i \in 1 .. Len(q.tried) : q.tried[i].try \in 0 .. q.try
    BY <1>2, <1>3, <1>4
  <2>2. m \in 0 .. Len(q.tried)
    BY <1>2, <1>3
  <2> QED BY <1>3, <1>6, <2>1, <2>2 DEF TriedInv
<1>8. TriedInv(TryNext(q))
  BY <1>1, <1>3, <1>7, NextAttempt
<1> QED BY <1>8 DEF q, cands

\* A candidate is given up.
LEMMA AttemptGivenUp ==
  ASSUME NEW p, IsPairing(p), TriedInv(p), p.phase = "pairing"
  PROVE  TriedInv(GivenUp(p))
<1>1. CASE p.left = <<>>
  <2> DEFINE q == Phased(p, "failed")
  <2>1. /\ q.phase = "failed" /\ q.code = p.code /\ q.try = p.try
        /\ q.tried = p.tried /\ q.left = p.left
    BY PhasedFields
  <2>2. GivenUp(p) = q
    BY <1>1 DEF GivenUp, Phased
  <2> HIDE DEF q
  <2> QED BY <1>1, <2>1, <2>2, SameAttempts
<1>2. CASE p.left # <<>>
  <2>1. GivenUp(p) = TryNext(p)
    BY <1>2 DEF GivenUp
  <2> QED BY <1>2, <2>1, NextAttempt
<1> QED BY <1>1, <1>2

-----------------------------------------------------------------------------
(* Every step of the system *)

\* At most one app is changed; the others' attempts are as they were.
LEMMA MobileUpdate ==
  ASSUME AppInv, MobileInv, NEW a \in App, NEW q, app' = [app EXCEPT ![a] = q],
         a \in Mobile => TriedInv(q)
  PROVE  MobileInv'
<1>1. PICK S : app \in [App -> S]
  BY DEF AppInv
<1>2. \A b \in Mobile : b \in App
  BY AppAssumption
<1>3. app'[a] = q /\ \A b \in App : b # a => app'[b] = app[b]
  BY <1>1
<1> QED BY <1>2, <1>3 DEF MobileInv

\* Every step keeps it so.
LEMMA MobileStep ==
  ASSUME AppInv, MobileInv, [Next]_vars
  PROVE  MobileInv'
<1>0. PICK S : app \in [App -> S]
  BY DEF AppInv
<1>1. CASE UNCHANGED app
  BY <1>1 DEF MobileInv
<1>2. ASSUME NEW a \in App, app[a].phase = "pairing", app' = GiveUp(a)
      PROVE  MobileInv'
  <2>1. app' = [app EXCEPT ![a] = GivenUp(app[a])]
    BY <1>0, <1>2 DEF GiveUp, GivenUp
  <2>2. a \in Mobile => TriedInv(GivenUp(app[a]))
    BY <1>2, AttemptGivenUp DEF AppInv, MobileInv
  <2> QED BY <2>1, <2>2, MobileUpdate
<1>3. ASSUME NEW a \in App, NEW code \in Code, StartPairing(a, code)
      PROVE  MobileInv'
  <2>1. IsPairing(app[a])
    BY DEF AppInv
  <2>2. CASE Parses(code) \/ Pasted(a, code)
    <3> DEFINE begun == Coded(app[a], "pairing", code, app[a].try + 1, Candidates(a, code))
    <3>1. app' = [app EXCEPT ![a] = TryNext(begun)]
      BY <1>0, <1>3, <2>2 DEF StartPairing, Coded
    <3>2. ASSUME a \in Mobile
          PROVE  TriedInv(TryNext(begun))
      <4>1. Candidates(a, code) = CandidateUrls(code.addrs)
        BY <3>2 DEF Candidates
      <4>2. TriedInv(app[a])
        BY <3>2 DEF MobileInv
      <4> QED BY <2>1, <4>1, <4>2, FirstAttempt
    <3> HIDE DEF begun
    <3> QED BY <3>1, <3>2, MobileUpdate
  <2>3. CASE ~(Parses(code) \/ Pasted(a, code))
    <3> DEFINE q == Phased(app[a], "failed")
    <3>1. app' = [app EXCEPT ![a] = q] /\ app[a].phase \in {"idle", "failed"}
      BY <1>0, <1>3, <2>3 DEF StartPairing, Phased
    <3>2. /\ q.phase = "failed" /\ q.code = app[a].code /\ q.try = app[a].try
          /\ q.tried = app[a].tried /\ q.left = app[a].left
      BY <2>1, PhasedFields
    <3> HIDE DEF q
    <3>3. a \in Mobile => TriedInv(q)
      BY <3>1, <3>2, SameAttempts DEF MobileInv
    <3> QED BY <3>1, <3>3, MobileUpdate
  <2> QED BY <2>2, <2>3
<1>4. ASSUME NEW c \in Conn, OnPaired(c) PROVE MobileInv'
  <2> DEFINE a == c[1]
  <2>1. a \in App /\ IsPairing(app[a])
    BY ConnFacts DEF AppInv
  <2>2. CASE Current(c)
    <3> DEFINE q == Stored(app[a], Issued(c), "paired")
    <3>1. app' = [app EXCEPT ![a] = q]
      BY <1>0, <1>4, <2>1, <2>2 DEF OnPaired, Stored
    <3>2. /\ q.phase = "paired" /\ q.code = app[a].code /\ q.try = app[a].try
          /\ q.tried = app[a].tried /\ q.left = app[a].left
      BY <2>1, StoredFields
    <3> HIDE DEF q
    <3>3. a \in Mobile => TriedInv(q)
      BY <3>2, SameAttempts DEF MobileInv
    <3> QED BY <2>1, <3>1, <3>3, MobileUpdate
  <2>3. CASE ~Current(c)
    <3> DEFINE q == Identified(app[a], Issued(c))
    <3>1. app' = [app EXCEPT ![a] = q]
      BY <1>0, <1>4, <2>1, <2>3 DEF OnPaired, Identified
    <3>2. /\ q.phase = app[a].phase /\ q.code = app[a].code /\ q.try = app[a].try
          /\ q.tried = app[a].tried /\ q.left = app[a].left
      BY <2>1, IdentifiedFields
    <3> HIDE DEF q
    <3>3. a \in Mobile => TriedInv(q)
      BY <3>2, SameAttempts DEF MobileInv
    <3> QED BY <2>1, <3>1, <3>3, MobileUpdate
  <2> QED BY <2>2, <2>3
<1>5. ASSUME NEW c \in Conn, Unreachable(c) \/ ConnectionLost(c) \/ OnError(c) PROVE MobileInv'
  <2>1. c[1] \in App
    BY ConnFacts
  <2>2. CASE Current(c)
    <3>1. app' = GiveUp(c[1]) /\ app[c[1]].phase = "pairing"
      BY <1>5, <2>2 DEF Unreachable, ConnectionLost, OnError, Current
    <3> QED BY <1>2, <2>1, <3>1
  <2>3. CASE ~Current(c)
    <3>1. app' = app
      BY <1>5, <2>3 DEF Unreachable, ConnectionLost, OnError
    <3> QED BY <1>1, <3>1
  <2> QED BY <2>2, <2>3
<1>6. ASSUME NEW a \in App, CandidateTimesOut(a) PROVE MobileInv'
  BY <1>2, <1>6 DEF CandidateTimesOut
<1>7. CASE UNCHANGED vars \/ \E yes \in BOOLEAN : Type(yes)
  BY <1>1, <1>7 DEF vars, Type
<1>8. CASE AppSteps
  BY <1>3, <1>4, <1>5, <1>6, <1>7, <1>8 DEF AppSteps
<1>9. CASE HostSteps
  BY <1>1, <1>9, HostStepsLeaveApp
<1> QED BY <1>8, <1>9, AllSteps

\* At first nothing has been tried.
LEMMA MobileInit == Init => AppInv /\ MobileInv
<1> SUFFICES ASSUME Init PROVE AppInv /\ MobileInv
  OBVIOUS
<1>1. AppInv
  BY ServedInit DEF ServedInv
<1>2. ASSUME NEW a \in Mobile
      PROVE  TriedInv(app[a])
  <2>1. a \in App
    BY AppAssumption
  <2>2. /\ app[a].try = 0 /\ app[a].tried = <<>> /\ app[a].code = None
        /\ app[a].phase = "idle"
    BY <2>1 DEF Init
  <2>3. Len(<<>>) = 0
    OBVIOUS
  <2> QED BY <2>2, <2>3 DEF TriedInv
<1> QED BY <1>1, <1>2 DEF MobileInv

\* The property follows.
LEMMA TriedFromInv ==
  ASSUME AppInv, MobileInv
  PROVE  EveryAddressTried
<1> SUFFICES ASSUME NEW a \in Mobile, app[a].code # None
             PROVE  LET host(i) == app[a].tried[i].host
                        addrs == Addrs(app[a].code)
                    IN  /\ \A i, j \in Tried(a) : i < j => host(i) # host(j)
                        /\ \A i \in Tried(a) : \A h \in addrs :
                             RankHost(h) < RankHost(host(i)) =>
                               \E j \in Tried(a) : j < i /\ host(j) = h
                        /\ app[a].phase = "failed" => {host(i) : i \in Tried(a)} = addrs
  BY DEF EveryAddressTried, Addrs
<1> DEFINE cands == CandidateUrls(app[a].code.addrs)
<1>1. PICK p : p = app[a]
  OBVIOUS
<1>2. a \in App /\ IsPairing(p) /\ TriedInv(p)
  BY <1>1, AppAssumption DEF AppInv, MobileInv
<1>3. PICK m \in Nat : m = Len(p.tried)
  BY <1>2, AppendedSeq DEF IsPairing
<1>4. DOMAIN p.tried = 1 .. m
  BY <1>2, <1>3, AppendedSeq DEF IsPairing
<1>5. p.code \in Code
  BY <1>1, <1>2 DEF TriedInv
<1>6. PICK k \in 0 .. m : TriedSince(p, k)
  BY <1>1, <1>2, <1>3 DEF TriedInv
<1>7. /\ \A i \in 1 .. m : p.tried[i].try = p.try <=> i > k
      /\ p.left \in Seq(Host) /\ (m - k) + Len(p.left) = Len(cands)
      /\ \A i \in 1 .. m - k : p.tried[k + i].host = cands[i]
  BY <1>1, <1>3, <1>6 DEF TriedSince
<1>8. Tried(a) = k + 1 .. m
  BY <1>1, <1>4, <1>7 DEF Tried
<1>9. /\ cands \in Seq(Host)
      /\ \A i, j \in DOMAIN cands : i < j =>
           RankHost(cands[i]) <= RankHost(cands[j]) /\ cands[i] # cands[j]
      /\ ToSet(cands) = Addrs(app[a].code)
  BY <1>1, <1>5, CandidateFacts
<1> HIDE DEF cands
<1>10. PICK l \in Nat : l = Len(cands)
  BY <1>9
<1>11. DOMAIN cands = 1 .. l /\ m - k <= l /\ (p.left = <<>> => m - k = l)
  <2>1. Len(p.left) \in Nat /\ (p.left = <<>> => Len(p.left) = 0)
    BY <1>7
  <2> QED BY <1>7, <1>9, <1>10, <2>1
<1>12. ASSUME NEW i \in Tried(a)
       PROVE  i - k \in 1 .. l /\ p.tried[i].host = cands[i - k]
  <2>1. i - k \in 1 .. m - k /\ k + (i - k) = i
    BY <1>8
  <2> QED BY <1>7, <1>11, <2>1
<1>13. ASSUME NEW i \in Tried(a), NEW j \in Tried(a), i < j
       PROVE  p.tried[i].host # p.tried[j].host
  <2>1. i - k < j - k
    BY <1>8, <1>13
  <2> QED BY <1>9, <1>11, <1>12, <2>1
<1>14. ASSUME NEW i \in Tried(a), NEW h \in Addrs(app[a].code),
              RankHost(h) < RankHost(p.tried[i].host)
       PROVE  \E j \in Tried(a) : j < i /\ p.tried[j].host = h
  <2>1. PICK b \in 1 .. l : cands[b] = h
    BY <1>9, <1>11 DEF ToSet
  <2>2. b < i - k
    <3>1. i - k \in 1 .. l /\ p.tried[i].host = cands[i - k]
      BY <1>12
    <3>2. RankHost(cands[b]) \in 0 .. 3 /\ RankHost(cands[i - k]) \in 0 .. 3
      BY <1>9, <1>11, <3>1, RankFacts
    <3>3. ~(i - k < b) /\ b # i - k
      BY <1>9, <1>11, <1>14, <2>1, <3>1, <3>2
    <3> QED BY <3>1, <3>3
  <2>3. k + b \in Tried(a) /\ k + b < i /\ (k + b) - k = b
    BY <1>8, <2>2
  <2> QED BY <1>12, <2>1, <2>3
<1>15. ASSUME app[a].phase = "failed"
       PROVE  {p.tried[i].host : i \in Tried(a)} = Addrs(app[a].code)
  <2>1. m - k = l
    BY <1>1, <1>2, <1>11, <1>15 DEF TriedInv
  <2>2. \A i \in Tried(a) : p.tried[i].host \in ToSet(cands)
    BY <1>11, <1>12 DEF ToSet
  <2>3. ASSUME NEW h \in ToSet(cands)
        PROVE  \E i \in Tried(a) : p.tried[i].host = h
    <3>1. PICK b \in 1 .. l : cands[b] = h
      BY <1>11 DEF ToSet
    <3>2. k + b \in Tried(a) /\ (k + b) - k = b
      BY <1>8, <2>1
    <3> QED BY <1>12, <3>1, <3>2
  <2> QED BY <1>9, <2>2, <2>3
<1> QED BY <1>1, <1>13, <1>14, <1>15

\* A phone that reports that it cannot pair has tried every address of the code,
\* none twice and none before a better one (EveryAddressTried), for any code and
\* whatever happens to its connections.
THEOREM EveryAddressIsTried == Spec => []EveryAddressTried
<1>1. Init => AppInv /\ MobileInv
  BY MobileInit
<1>2. AppInv /\ MobileInv /\ [Next]_vars => AppInv' /\ MobileInv'
  BY AppStep, MobileStep
<1>3. AppInv /\ MobileInv => EveryAddressTried
  BY TriedFromInv
<1> QED BY <1>1, <1>2, <1>3, PTL DEF Spec
=============================================================================
