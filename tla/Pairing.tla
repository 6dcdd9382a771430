------------------------------ MODULE Pairing ------------------------------
(***************************************************************************)
(* Pairing a device: the app that is given a code of the host, a token     *)
(* with the host's addresses (pairing.ts, the pair screens), tries one     *)
(* candidate address after the other (mobileClient.ts, client.ts), the     *)
(* hub's handlePairing serves each connection (internal/hub/hub.go), the   *)
(* tokens are rows of the store, and a human at the host's terminal        *)
(* answers the prompts (cmd/harness/main.go) or approves a token with      *)
(* `harness pair --approve`.                                               *)
(*                                                                         *)
(* Every candidate address may reach the daemon, so one app may be served  *)
(* on several connections with one token; a code may be scanned again      *)
(* after a pairing that failed, and by several apps.  A human answers when *)
(* he likes.                                                               *)
(***************************************************************************)
EXTENDS Naturals, Sequences, FiniteSets, SequencesExt

CONSTANTS
  App,       \* apps being paired
  Mobile,    \* those on a phone; the others run in a browser
  Host,      \* addresses, each a record with its kind
  Localhost, \* the address taken when a code has none
  Origin,    \* the address the browser has the page from
  Code,      \* what is scanned or pasted
  Token,     \* one-time tokens
  Cli,       \* the name given by pair --approve
  None,
  Bound,     \* bounds, one of which a behaviour keeps to: how many connections
             \* each app opens in all
  MaxLost    \* bound: connections lost

Conn == UNION {{a} \X (1 .. b[a]) : a \in App, b \in Bound}
Name == Conn \cup {Cli}

Kind == {"tailnet", "private", "name", "public", "loopback"}

ASSUME AppAssumption == Mobile \subseteq App
ASSUME CodeAssumption ==
  /\ \A h \in Host : h.kind \in Kind
  /\ {Localhost, Origin} \subseteq Host
  /\ \A code \in Code :
       /\ code.form \in {"json", "url", "text"} /\ code.token \in Token \cup {None}
       /\ code.spki \in BOOLEAN /\ code.port \in BOOLEAN /\ code.addrs \in Seq(Host)
ASSUME NameAssumption == Cli \notin Conn /\ None \notin Name /\ None \notin Token
ASSUME PairingBounds == Bound \subseteq [App -> Nat] /\ MaxLost \in Nat

VARIABLES
  terminal, \* whether the daemon was started at a terminal (installApprover)
  row,      \* per token: its row in pending_tokens, or that it has none
  serve,    \* per connection: where handlePairing is, and the device's name
  device,   \* per connection: the name of the device issued on it, or None
  console,  \* the connection whose prompt waits for a line (a.mu is held)
  shown,    \* the prompt shown last
  typed,    \* prompts the human has answered
  lines,    \* lines typed and not yet read: whether each says yes
  app,      \* per app: its pairing, and the identity it holds and has saved
  link,     \* per connection: "none", "up", "paired" or "error" (the frame
            \* under way), "closed"
  lost,     \* connections lost so far
  agreed,   \* history: connections whose prompt took a yes
  cli,      \* history: tokens approved with pair --approve
  overlap,  \* history: tokens presented while another connection with the
            \* same token was being served
  unspent,  \* history: tokens the store failed to delete when a device was
            \* issued for them
  bound

hostVars == <<terminal, row, serve, device, console, shown, lines>>
historyVars == <<agreed, cli, overlap, unspent>>
outside == <<terminal, typed, app, lost, bound>>
vars == <<hostVars, typed, app, link, lost, historyVars, bound>>

\* The token and the address of a connection.
Tok(c) == app[c[1]].tried[c[2]].token
HostOf(c) == app[c[1]].tried[c[2]].host
Serving(c) == serve[c].pc \notin {"none", "done"}

Goto(c, label) == serve' = [serve EXCEPT ![c].pc = label]

-----------------------------------------------------------------------------
(* store.go: the rows of pending_tokens *)

Absent == [state |-> "absent", expired |-> FALSE, name |-> None]
Exists(t) == t \in Token /\ row[t].state # "absent"
Valid(t) == Exists(t) /\ ~row[t].expired
Consumable(t) == Valid(t) /\ row[t].state = "approved"

\* Mutant of AfterConsume: only an expired row is deleted.
AfterConsumeExpired(t) ==
  IF Exists(t) /\ row[t].expired THEN [row EXCEPT ![t] = Absent] ELSE row

\* ConsumePendingToken, if the store does not fail: an approved row is deleted,
\* and so is an expired one.
AfterConsume(t) ==
  IF Consumable(t) \/ (Exists(t) /\ row[t].expired) THEN [row EXCEPT ![t] = Absent] ELSE row

-----------------------------------------------------------------------------
(* pairing.ts and the pair screens: what a code says *)

\* What the daemon puts into a code: the address it is bound to, if it is not
\* bound to all of them, and those of its interfaces.
AdvertisedAddrs(bind, lan) == IF bind = None THEN lan ELSE <<bind>> \o lan

\* parsePairingPayload; only a URL may go without a port.
Parses(code) ==
  /\ code.form \in {"json", "url"}
  /\ code.token # None /\ code.spki
  /\ code.form = "json" => code.port

\* The browser parses JSON and takes any other text for a token.
Pasted(a, code) == a \notin Mobile /\ code.form # "json"

TokenIn(a, code) == IF Pasted(a, code) /\ code.form = "url" THEN None ELSE code.token

RankHost(h) ==
  CASE h.kind = "tailnet" -> 0
    [] h.kind \in {"private", "name"} -> 1
    [] h.kind = "public" -> 2
    [] h.kind = "loopback" -> 3

\* The elements of a sequence at some of its indices, in its order.
Picked(s, at) == FlattenSeq([i \in DOMAIN s |-> IF i \in at THEN <<s[i]>> ELSE <<>>])

\* Sorted by rank; the order of a code is kept within a rank.
OfRank(hosts, rank) == Picked(hosts, {i \in DOMAIN hosts : RankHost(hosts[i]) = rank})
Ranked(hosts) == FlattenSeq([r \in 1 .. 4 |-> OfRank(hosts, r - 1)])

\* Duplicates removed: a host bound to one of its own addresses names it twice.
Distinct(s) == Picked(s, {i \in DOMAIN s : \A j \in 1 .. i - 1 : s[j] # s[i]})

CandidateUrls(hosts) == Distinct(Ranked(IF hosts = <<>> THEN <<Localhost>> ELSE hosts))

\* The phone tries them all, the browser the first one of JSON.
Candidates(a, code) ==
  IF a \in Mobile THEN CandidateUrls(code.addrs)
  ELSE IF Pasted(a, code) \/ code.addrs = <<>> THEN <<Origin>> ELSE <<Head(code.addrs)>>

-----------------------------------------------------------------------------
(* The app *)

\* pair: the client takes the next address that is left.
TryNext(pairing) ==
  [pairing EXCEPT !.left = Tail(@),
     !.tried = Append(@, [token |-> TokenIn(pairing.of, pairing.code),
                          host |-> Head(pairing.left), try |-> pairing.try])]

\* A device that is not paired is given a code, perhaps once more.
StartPairing(a, code) ==
  /\ app[a].phase \in {"idle", "failed"} /\ app[a].identity = None
  /\ Len(app[a].tried) + Len(Candidates(a, code)) <= bound[a]
  /\ app' = [app EXCEPT ![a] =
       IF Parses(code) \/ Pasted(a, code)
       THEN TryNext([@ EXCEPT !.phase = "pairing", !.code = code, !.try = app[a].try + 1,
                              !.left = Candidates(a, code)])
       ELSE [@ EXCEPT !.phase = "failed"]]
  /\ UNCHANGED <<hostVars, typed, link, lost, historyVars, bound>>

Begun(c) == c[2] \in DOMAIN app[c[1]].tried
Current(c) == app[c[1]].phase = "pairing" /\ Len(app[c[1]].tried) = c[2]

\* Mutant of GiveUp: the list of candidates is left one too early.
GiveUpTooEarly(a) ==
  [app EXCEPT ![a] = IF Len(@.left) <= 1 THEN [@ EXCEPT !.phase = "failed"] ELSE TryNext(@)]

\* The promise for the candidate tried rejects: the next one, or failure.
GiveUp(a) ==
  [app EXCEPT ![a] = IF @.left = <<>> THEN [@ EXCEPT !.phase = "failed"] ELSE TryNext(@)]

\* withTimeout: the app goes on, the socket stays as it is.
CandidateTimesOut(a) ==
  /\ a \in Mobile
  /\ app[a].phase = "pairing"
  /\ app' = GiveUp(a)
  /\ UNCHANGED <<hostVars, typed, link, lost, historyVars, bound>>

\* The socket opens, perhaps after the app has given the candidate up, and
\* the hello with the token arrives.
Opens(c) ==
  /\ link[c] = "none"
  /\ Begun(c)
  /\ link' = [link EXCEPT ![c] = "up"]
  /\ Goto(c, "peek")
  /\ overlap' = IF \E d \in Conn : Serving(d) /\ Tok(d) = Tok(c)
                THEN overlap \cup {Tok(c)} ELSE overlap
  /\ UNCHANGED <<row, device, console, shown, lines, agreed, cli, unspent, outside>>

\* The host cannot be reached there.
Unreachable(c) ==
  /\ link[c] = "none"
  /\ Begun(c)
  /\ link' = [link EXCEPT ![c] = "closed"]
  /\ app' = IF Current(c) THEN GiveUp(c[1]) ELSE app
  /\ UNCHANGED <<hostVars, typed, lost, historyVars, bound>>

\* The connection breaks; the hub goes on all the same.
ConnectionLost(c) ==
  /\ lost < MaxLost
  /\ link[c] \in {"up", "paired", "error"}
  /\ link' = [link EXCEPT ![c] = "closed"]
  /\ lost' = lost + 1
  /\ app' = IF Current(c) THEN GiveUp(c[1]) ELSE app
  /\ UNCHANGED <<hostVars, typed, historyVars, bound>>

\* The identity gets the url of the client at this moment.
Issued(c) == [conn |-> c, url |-> Last(app[c[1]].tried).host]

\* Mutant of OnPaired: an identity issued after the time-out is saved too.
OnPairedSaved(c) ==
  /\ link[c] = "paired"
  /\ link' = [link EXCEPT ![c] = "closed"]
  /\ app' = [app EXCEPT ![c[1]].identity = Issued(c), ![c[1]].saved = Issued(c),
                        ![c[1]].phase = "paired"]
  /\ UNCHANGED <<hostVars, typed, lost, historyVars, bound>>

\* pair resolves: the client takes the identity and connects; it is saved
\* only by a pairWithInfo that still waits for this candidate.
OnPaired(c) ==
  /\ link[c] = "paired"
  /\ link' = [link EXCEPT ![c] = "closed"]
  /\ app' = IF Current(c)
            THEN [app EXCEPT ![c[1]].identity = Issued(c), ![c[1]].saved = Issued(c),
                             ![c[1]].phase = "paired"]
            ELSE [app EXCEPT ![c[1]].identity = Issued(c)]
  /\ UNCHANGED <<hostVars, typed, lost, historyVars, bound>>

OnError(c) ==
  /\ link[c] = "error"
  /\ link' = [link EXCEPT ![c] = "closed"]
  /\ app' = IF Current(c) THEN GiveUp(c[1]) ELSE app
  /\ UNCHANGED <<hostVars, typed, lost, historyVars, bound>>

-----------------------------------------------------------------------------
(* hub.go: handlePairing *)

\* A frame is written; on a broken connection it goes nowhere.
Reply(c, frame) ==
  link' = IF link[c] = "up" THEN [link EXCEPT ![c] = frame] ELSE link

Refuse(c) == Goto(c, "done") /\ Reply(c, "error")

\* A token that is not valid is refused, and any token if the store fails.
PeekPairingToken(c) ==
  /\ serve[c].pc = "peek"
  /\ \/ Valid(Tok(c)) /\ Goto(c, "consume") /\ UNCHANGED link
     \/ Refuse(c)
  /\ UNCHANGED <<row, device, console, shown, lines, outside, historyVars>>

\* Mutant of ConsumePairingToken: it is not checked that the token is approved.
ConsumeUnapproved(c) ==
  /\ serve[c].pc = "consume"
  /\ Valid(Tok(c))
  /\ serve' = [serve EXCEPT ![c] = [pc |-> "issue", name |-> Cli]]
  /\ row' = [row EXCEPT ![Tok(c)] = Absent]
  /\ UNCHANGED <<device, console, shown, lines, link, outside, historyVars>>

AskHost(c) ==
  \/ terminal /\ Goto(c, "queue") /\ UNCHANGED link
  \/ ~terminal /\ Refuse(c)

\* A token approved before is used up at once; otherwise the human is asked,
\* and so he is if the store fails to delete the token.
ConsumePairingToken(c) ==
  /\ serve[c].pc = "consume"
  /\ \/ /\ Consumable(Tok(c))
        /\ row' = AfterConsume(Tok(c))
        /\ serve' = [serve EXCEPT ![c] = [pc |-> "issue", name |-> row[Tok(c)].name]]
        /\ UNCHANGED link
     \/ ~Consumable(Tok(c)) /\ row' = AfterConsume(Tok(c)) /\ AskHost(c)
     \/ UNCHANGED row /\ AskHost(c)
  /\ UNCHANGED <<device, console, shown, lines, outside, historyVars>>

\* RequestApproval: one prompt at a time.
Prompt(c) ==
  /\ serve[c].pc = "queue"
  /\ console = None
  /\ console' = c
  /\ shown' = c
  /\ Goto(c, "asking")
  /\ UNCHANGED <<row, device, lines, link, outside, historyVars>>

\* The next line is the answer, whichever prompt it was typed for.
TakeLine(c) ==
  /\ serve[c].pc = "asking"
  /\ lines # <<>>
  /\ lines' = Tail(lines)
  /\ console' = None
  /\ \/ /\ Head(lines)
        /\ serve' = [serve EXCEPT ![c] = [pc |-> "approve", name |-> c]]
        /\ agreed' = agreed \cup {c}
        /\ UNCHANGED link
     \/ ~Head(lines) /\ Refuse(c) /\ UNCHANGED agreed
  /\ UNCHANGED <<row, device, shown, cli, overlap, unspent, outside>>

\* Mutant of PromptTimesOut: the mutex is not released.
PromptTimesOutLocked(c) ==
  /\ serve[c].pc = "asking"
  /\ Refuse(c)
  /\ UNCHANGED <<row, device, console, shown, lines, outside, historyVars>>

PromptTimesOut(c) ==
  /\ serve[c].pc = "asking"
  /\ console' = None
  /\ Refuse(c)
  /\ UNCHANGED <<row, device, shown, lines, outside, historyVars>>

\* A token that is not valid any more cannot be approved, and the store may fail.
ApprovePairingToken(c) ==
  /\ serve[c].pc = "approve"
  /\ \/ /\ Valid(Tok(c))
        /\ row' = [row EXCEPT ![Tok(c)].state = "approved",
                              ![Tok(c)].name = serve[c].name]
        /\ Goto(c, "reconsume")
        /\ UNCHANGED link
     \/ Refuse(c) /\ UNCHANGED row
  /\ UNCHANGED <<device, console, shown, lines, outside, historyVars>>

\* The second ConsumePairingToken.  That it fails is ignored: the device is
\* issued under the name the human gave, and if it is the store that failed
\* the token stays as it is.
Reconsume(c) ==
  /\ serve[c].pc = "reconsume"
  /\ \/ /\ row' = AfterConsume(Tok(c))
        /\ serve' = [serve EXCEPT ![c] =
             [pc |-> "issue", name |-> IF Consumable(Tok(c)) THEN row[Tok(c)].name ELSE @.name]]
        /\ UNCHANGED unspent
     \/ /\ Goto(c, "issue")
        /\ unspent' = IF Exists(Tok(c)) THEN unspent \cup {Tok(c)} ELSE unspent
        /\ UNCHANGED row
  /\ UNCHANGED <<device, console, shown, lines, link, agreed, cli, overlap, outside>>

IssueCredential(c) ==
  /\ serve[c].pc = "issue"
  /\ device' = [device EXCEPT ![c] = serve[c].name]
  /\ Goto(c, "reply")
  /\ UNCHANGED <<row, console, shown, lines, link, outside, historyVars>>

\* The store fails: the token is gone and there is no device.
IssueFails(c) ==
  /\ serve[c].pc = "issue"
  /\ Refuse(c)
  /\ UNCHANGED <<row, device, console, shown, lines, outside, historyVars>>

ReplyPaired(c) ==
  /\ serve[c].pc = "reply"
  /\ Goto(c, "done")
  /\ Reply(c, "paired")
  /\ UNCHANGED <<row, device, console, shown, lines, outside, historyVars>>

-----------------------------------------------------------------------------
(* The human at the host *)

\* One answer to each prompt, while it waits or after it has timed out.
Type(yes) ==
  /\ shown # None
  /\ shown \notin typed
  /\ typed' = typed \cup {shown}
  /\ lines' = Append(lines, yes)
  /\ UNCHANGED <<terminal, row, serve, device, console, shown, app, link, lost, historyVars, bound>>

\* harness pair --approve
CliApproves(t) ==
  /\ Valid(t)
  /\ row' = [row EXCEPT ![t].state = "approved", ![t].name = Cli]
  /\ cli' = cli \cup {t}
  /\ UNCHANGED <<serve, device, console, shown, lines, link, agreed, overlap, unspent, outside>>

Expires(t) ==
  /\ Valid(t)
  /\ row' = [row EXCEPT ![t].expired = TRUE]
  /\ UNCHANGED <<serve, device, console, shown, lines, link, outside, historyVars>>

-----------------------------------------------------------------------------
\* The tokens have been made: one at the daemon's start, others by pair.
Init ==
  /\ terminal \in BOOLEAN
  /\ row = [t \in Token |-> [state |-> "open", expired |-> FALSE, name |-> None]]
  /\ serve = [c \in Conn |-> [pc |-> "none", name |-> None]]
  /\ device = [c \in Conn |-> None]
  /\ console = None
  /\ shown = None
  /\ typed = {}
  /\ lines = <<>>
  /\ app = [a \in App |-> [of |-> a, phase |-> "idle", code |-> None, try |-> 0,
                           tried |-> <<>>, left |-> <<>>,
                           identity |-> None, saved |-> None]]
  /\ link = [c \in Conn |-> "none"]
  /\ lost = 0
  /\ agreed = {}
  /\ cli = {}
  /\ overlap = {}
  /\ unspent = {}
  /\ bound \in Bound

HandlePairing(c) ==
  \/ PeekPairingToken(c) \/ ConsumePairingToken(c)
  \/ Prompt(c) \/ TakeLine(c) \/ PromptTimesOut(c)
  \/ ApprovePairingToken(c) \/ Reconsume(c)
  \/ IssueCredential(c) \/ IssueFails(c) \/ ReplyPaired(c)

Dial(c) == Opens(c) \/ Unreachable(c)
Receive(c) == OnPaired(c) \/ OnError(c)

Next ==
  \/ \E a \in App : CandidateTimesOut(a) \/ \E code \in Code : StartPairing(a, code)
  \/ \E c \in Conn : Dial(c) \/ Receive(c) \/ ConnectionLost(c) \/ HandlePairing(c)
  \/ \E yes \in BOOLEAN : Type(yes)
  \/ \E t \in Token : CliApproves(t) \/ Expires(t)

Spec == Init /\ [][Next]_vars

(***************************************************************************)
(* Handlers run, a mutex that is free is taken, dialing ends, what is      *)
(* written on a connection that holds arrives, and timers fire.  The human *)
(* is under no obligation.                                                 *)
(***************************************************************************)
Fairness ==
  \A c \in Conn : WF_vars(HandlePairing(c)) /\ WF_vars(Dial(c)) /\ WF_vars(Receive(c))

FairSpec == Spec /\ Fairness

-----------------------------------------------------------------------------
(* Properties *)

\* The attempts of an app with the code it was given last.
Tried(a) == {i \in DOMAIN app[a].tried : app[a].tried[i].try = app[a].try}

\* However its sockets time out, break or answer late, an app that tells its
\* user that it cannot pair has tried every address of the code, and tried none
\* twice or before one that is better.
EveryAddressTried ==
  \A a \in Mobile : app[a].code # None /\ Parses(app[a].code) =>
    LET host(i) == app[a].tried[i].host
        addrs == IF app[a].code.addrs = <<>> THEN {Localhost} ELSE ToSet(app[a].code.addrs)
    IN  /\ \A i, j \in Tried(a) : i < j => host(i) # host(j)
        /\ \A i \in Tried(a) : \A h \in addrs :
             RankHost(h) < RankHost(host(i)) => \E j \in Tried(a) : j < i /\ host(j) = h
        /\ app[a].phase = "failed" => {host(i) : i \in Tried(a)} = addrs

DevicesOf(t) == {c \in Conn : device[c] # None /\ Tok(c) = t}

\* The host's consent: of the devices paired with a token at most one was not
\* asked about itself, and then the token was approved by somebody: with
\* --approve, or at another connection's prompt.
EveryDeviceWasApproved ==
  \A t \in Token :
    LET unasked == DevicesOf(t) \ agreed
    IN  /\ Cardinality(unasked) <= 1
        /\ unasked # {} => t \in cli \/ \E d \in agreed : Tok(d) = t

\* A token pairs one device, named as it was approved, unless connections with
\* that token were served at the same time, or the store failed to delete the
\* token when the device was issued (hub.go:219 goes on all the same).
OneTimeUnlessOverlapping ==
  \A t \in Token \ (overlap \cup unspent) :
    /\ Cardinality(DevicesOf(t)) <= 1
    /\ \A c \in DevicesOf(t) : device[c] \in {c, Cli}

\* What an app has saved can be used after its next start: the host issued it,
\* and it names the address it was issued at.
SavedIsUsable ==
  \A a \in App : app[a].saved # None =>
    LET c == app[a].saved.conn
    IN  device[c] # None /\ c[1] = a /\ app[a].saved.url = HostOf(c)

\* Every app that pairs is told how it ended, and every connection is served
\* to its end, however long the human takes.
PairingEnds ==
  /\ \A a \in App : app[a].phase = "pairing" ~> app[a].phase \in {"paired", "failed"}
  /\ \A c \in Conn : Serving(c) ~> ~Serving(c)

\* client.ts: "Pair with a one-time token, persist the issued credential, then
\* connect".  When its pairing has ended an app has saved the identity it uses.
IdentityIsSaved ==
  \A a \in App :
    app[a].phase \in {"paired", "failed"} => app[a].saved = app[a].identity
=============================================================================
