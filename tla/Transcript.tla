----------------------------- MODULE Transcript -----------------------------
(***************************************************************************)
(* From what claude prints to what a phone shows: the lines of stream-json *)
(* become events (internal/agent/claude/adapter.go), which with those of   *)
(* the devices' commands make the session's log, and the reducer           *)
(* (clients/packages/harness-protocol/src/reducer.ts) makes of the log the *)
(* items and the cards on the screen.  The phone remembers the last seq it *)
(* has shown, and may be killed and opened again (apps/mobile); the daemon *)
(* may restart with a new session.                                         *)
(*                                                                         *)
(* HubCommands has the handlers that append events, with the bounded       *)
(* channel between adapter and hub, and SyncSystem the sockets: here a     *)
(* connection takes its snapshot in one step and then delivers in order    *)
(* until it breaks.  The text of a delta is its seq.                       *)
(***************************************************************************)
EXTENDS Naturals, Sequences, FiniteSets, SequencesExt, FiniteSetsExt

CONSTANTS
  Request,     \* ids of permission requests
  None,        \* the absent id
  MaxText,     \* MAX_TEXT_BYTES, in deltas
  MaxNotices,  \* MAX_NOTICES
  MaxItems,    \* MAX_ITEMS of the phone
  Bound        \* bounds, one of which a behaviour keeps to: events of a session,
               \* sessions, connections lost and apps killed, types of lines read

ASSUME TranscriptAssumption ==
  /\ None \notin Request
  /\ {MaxText, MaxNotices, MaxItems} \subseteq Nat \ {0}
  /\ Bound \subseteq [events : Nat, sessions : Nat \ {0}, breaks : Nat, lines : SUBSET STRING]

VARIABLES
  out,      \* events of the line just read, on their way to the log
  log,      \* the events of the session
  session,  \* the daemon's session
  conn,     \* the phone's connection: whether it is up, the next seq on it
  screen,   \* SessionState
  saved,    \* the lastSeq in AsyncStorage, and the session it was of
  timer,    \* the lastSeq that is about to be saved; seq 0 when there is none
  shown,    \* history: the last seq of the session ever on the screen
  breaks,   \* connections lost and apps killed so far
  bound

hubVars == <<out, log, session>>
phoneVars == <<conn, screen, saved, timer, shown>>
vars == <<hubVars, phoneVars, breaks, bound>>

Event(kind, ref) == [kind |-> kind, ref |-> ref]
Plain(kind) == Event(kind, None)

-----------------------------------------------------------------------------
(* handleStreamJSON *)

\* A tool_use carries the tool's name, "" when there is none, a tool_result
\* never does.
ToolName == "tool"
NoName == ""

\* The events of a line.  "text" is a partial message and a text block or line,
\* "tool_use" a block or line, "message" an assistant message with one of each:
\* more blocks come one by one anyway.  "permission" is a control_request to use
\* a tool, "stop" a message_stop, "garbage" a line that is no JSON.  "other" is
\* an event that leaves no trace among the items: usage_update, status_change.
EventsOf(line) ==
  CASE line.type = "text" -> <<Plain("text_delta")>>
    [] line.type = "tool_use" -> <<Event("tool_call_start", line.ref)>>
    [] line.type = "message" -> <<Plain("text_delta"), Event("tool_call_start", line.ref)>>
    [] line.type = "tool_result" -> <<Event("tool_call_end", NoName)>>
    [] line.type = "permission" -> <<Event("permission_request", line.ref)>>
    [] line.type = "result" -> <<Plain("turn_complete"), Plain("other")>>
    [] line.type = "metered_result" -> <<Plain("other"), Plain("turn_complete"), Plain("other")>>
    [] line.type = "stop" -> <<Plain("turn_complete")>>
    [] line.type = "status" -> <<Plain("other")>>
    [] line.type = "garbage" -> <<Plain("error")>>

Line ==
  [type : {"text", "tool_result", "result", "metered_result", "stop", "status", "garbage"},
   ref : {None}]
    \cup [type : {"tool_use", "message"}, ref : {ToolName, NoName}]
    \cup [type : {"permission"}, ref : Request]

HandleStreamJSON(line) ==
  /\ out = <<>>
  /\ line.type \in bound.lines
  /\ Len(log) + Len(EventsOf(line)) <= bound.events
  /\ out' = EventsOf(line)
  /\ UNCHANGED <<log, session, phoneVars, breaks, bound>>

IngestEvent ==
  /\ out # <<>>
  /\ log' = Append(log, Head(out))
  /\ out' = Tail(out)
  /\ UNCHANGED <<session, phoneVars, breaks, bound>>

-----------------------------------------------------------------------------
(* What the devices' commands append, and the daemon's restart *)

Open(events) ==
  {r \in Request : \E i \in DOMAIN events :
     /\ events[i] = Event("permission_request", r)
     /\ \A j \in i + 1 .. Len(events) : events[j] # Event("permission_resolved", r)}

CommandEvent(ev) ==
  /\ Len(log) + Len(out) < bound.events
  /\ log' = Append(log, ev)
  /\ UNCHANGED <<out, session, phoneVars, breaks, bound>>

SendPrompt == CommandEvent(Plain("user_prompt"))
AnswerPermission(r) == r \in Open(log) /\ CommandEvent(Event("permission_resolved", r))

Restart ==
  /\ session < bound.sessions
  /\ session' = session + 1
  /\ out' = <<>> /\ log' = <<>> /\ shown' = 0
  /\ conn' = [conn EXCEPT !.up = FALSE]
  /\ UNCHANGED <<screen, saved, timer, breaks, bound>>

-----------------------------------------------------------------------------
(* reducer.ts: items *)

Item(kind, seq, ref) ==
  [kind |-> kind, seq |-> seq, ref |-> ref, text |-> <<>>, done |-> FALSE]

\* Mutant of ClampText: all of it is kept.
ClampNothing(text) == text

\* clampText: nine tenths of it, from its beginning.
ClampText(text) ==
  IF Len(text) <= MaxText THEN text ELSE SubSeq(text, 1, (9 * Len(text)) \div 10)

\* Mutant of IsOpenAssistant: the seal is not looked at.
IsAssistant(items) == items # <<>> /\ Last(items).kind = "assistant"

IsOpenAssistant(items) ==
  items # <<>> /\ Last(items).kind = "assistant" /\ ~Last(items).done

AppendAssistant(items, seq) ==
  IF IsOpenAssistant(items)
  THEN [items EXCEPT ![Len(items)].text = ClampText(Append(@, seq))]
  ELSE Append(items, [Item("assistant", seq, None) EXCEPT !.text = <<seq>>])

SealOpenAssistant(items) ==
  IF IsOpenAssistant(items) THEN [items EXCEPT ![Len(items)].done = TRUE] ELSE items

Unfinished(items, name) ==
  {i \in DOMAIN items : items[i].kind = "tool" /\ ~items[i].done /\ items[i].ref = name}

\* Mutant of FinishTool: the first call that waits is finished, not the last.
FinishFirst(items, seq, name) ==
  IF Unfinished(items, name) # {}
  THEN [items EXCEPT ![Min(Unfinished(items, name))].done = TRUE]
  ELSE Append(items, [Item("tool", seq, name) EXCEPT !.done = TRUE])

\* finishTool, and the item for an end that nothing was waiting for.
FinishTool(items, seq, name) ==
  IF Unfinished(items, name) # {}
  THEN [items EXCEPT ![Max(Unfinished(items, name))].done = TRUE]
  ELSE Append(items, [Item("tool", seq, name) EXCEPT !.done = TRUE])

\* pushNotice keeps the newest MAX_NOTICES; there is one too many at most.
DropNotices(items) ==
  LET notices == {i \in DOMAIN items : items[i].kind = "notice"}
  IN  IF Cardinality(notices) <= MaxNotices THEN items ELSE RemoveAt(items, Min(notices))

Known(items, r) == \E i \in DOMAIN items : items[i].kind = "permission" /\ items[i].ref = r

\* Mutant of Resolve: only the last item is looked at.
ResolveLast(items, r) ==
  [i \in DOMAIN items |->
    IF i = Len(items) /\ items[i].kind = "permission" /\ items[i].ref = r
    THEN [items[i] EXCEPT !.done = TRUE] ELSE items[i]]

Resolve(items, r) ==
  [i \in DOMAIN items |->
    IF items[i].kind = "permission" /\ items[i].ref = r
    THEN [items[i] EXCEPT !.done = TRUE] ELSE items[i]]

ItemsAfter(items, seq, ev) ==
  CASE ev.kind = "user_prompt" ->
         Append(SealOpenAssistant(items), Item("prompt", seq, None))
    [] ev.kind = "text_delta" -> AppendAssistant(items, seq)
    [] ev.kind = "turn_complete" -> SealOpenAssistant(items)
    [] ev.kind = "tool_call_start" -> Append(items, Item("tool", seq, ev.ref))
    [] ev.kind = "tool_call_end" -> FinishTool(items, seq, ev.ref)
    [] ev.kind = "permission_request" ->
         IF Known(items, ev.ref) THEN items ELSE Append(items, Item("permission", seq, ev.ref))
    [] ev.kind = "permission_resolved" -> Resolve(items, ev.ref)
    [] ev.kind = "error" -> DropNotices(Append(items, Item("notice", seq, None)))
    [] ev.kind = "other" -> items

CardsAfter(cards, ev) ==
  CASE ev.kind = "permission_request" -> cards \cup {ev.ref}
    [] ev.kind = "permission_resolved" -> cards \ {ev.ref}
    [] OTHER -> cards

\* Mutant of TrimItems: the newest items are dropped.
TrimTail(items) == SubSeq(items, 1, Min({Len(items), MaxItems}))

TrimItems(items) == IF Len(items) <= MaxItems THEN items
                    ELSE SubSeq(items, Len(items) - MaxItems + 1, Len(items))

-----------------------------------------------------------------------------
(* The phone *)

\* A SessionState that starts after the seq of a session.
NewScreen(from, of) ==
  [session |-> 0, lastSeq |-> from, tipSeq |-> 0, items |-> <<>>, cards |-> {},
   from |-> from, of |-> of]

\* applySnapshot: of another session than before, it starts from nothing.
ApplySnapshot ==
  [(IF screen.session \in {0, session} THEN screen ELSE NewScreen(0, session))
     EXCEPT !.session = session, !.tipSeq = Len(log), !.cards = Open(log)]

\* The hub sends what is after the seq of the hello, then what happens.
Connect ==
  /\ ~conn.up
  /\ conn' = [up |-> TRUE, next |-> Min({screen.lastSeq, Len(log)}) + 1]
  /\ screen' = ApplySnapshot
  /\ UNCHANGED <<hubVars, saved, timer, shown, breaks, bound>>

\* Mutant of SeqToSave: where the snapshot's tip is.
TipToSave(state) == state.tipSeq
SeqToSave(state) == state.lastSeq

\* The subscription of bootstrap: only a higher seq restarts the timer.
SaveLater(state) ==
  timer' = IF SeqToSave(state) > saved.seq
           THEN [seq |-> SeqToSave(state), of |-> state.session] ELSE timer

\* handleEvent, by the seq of the event: seen already, the next, or a gap.
OnEvent ==
  /\ conn.up /\ conn.next <= Len(log)
  /\ IF conn.next > screen.lastSeq + 1
     THEN conn' = [conn EXCEPT !.up = FALSE] /\ UNCHANGED <<screen, timer, shown>>
     ELSE /\ conn' = [conn EXCEPT !.next = @ + 1]
          /\ IF conn.next <= screen.lastSeq
             THEN UNCHANGED <<screen, timer, shown>>
             ELSE /\ screen' = [screen EXCEPT
                       !.lastSeq = conn.next,
                       !.items = TrimItems(ItemsAfter(@, conn.next, log[conn.next])),
                       !.cards = CardsAfter(@, log[conn.next])]
                  /\ SaveLater(screen')
                  /\ shown' = Max({shown, conn.next})
  /\ UNCHANGED <<hubVars, saved, breaks, bound>>

\* saveLastSeq, two seconds later; of use to an app that may yet be killed.
TimerFires ==
  /\ timer.seq > 0 /\ breaks < bound.breaks
  /\ saved' = timer
  /\ timer' = [seq |-> 0, of |-> 0]
  /\ UNCHANGED <<hubVars, conn, screen, shown, breaks, bound>>

ConnectionLost ==
  /\ conn.up /\ breaks < bound.breaks
  /\ breaks' = breaks + 1
  /\ conn' = [conn EXCEPT !.up = FALSE]
  /\ UNCHANGED <<hubVars, screen, saved, timer, shown, bound>>

\* The app is killed and opened again: bootstrap and setLastSeq.
AppRestart ==
  /\ breaks < bound.breaks
  /\ breaks' = breaks + 1
  /\ conn' = [conn EXCEPT !.up = FALSE]
  /\ screen' = NewScreen(saved.seq, saved.of)
  /\ timer' = [seq |-> 0, of |-> 0]
  /\ UNCHANGED <<hubVars, saved, shown, bound>>

-----------------------------------------------------------------------------
Init ==
  /\ out = <<>> /\ log = <<>> /\ session = 1
  /\ conn = [up |-> FALSE, next |-> 1]
  /\ screen = NewScreen(0, 1)
  /\ saved = [seq |-> 0, of |-> 1] /\ timer = [seq |-> 0, of |-> 0]
  /\ shown = 0 /\ breaks = 0
  /\ bound \in Bound

Next ==
  \/ \E line \in Line : HandleStreamJSON(line)
  \/ IngestEvent \/ SendPrompt \/ Restart
  \/ \E r \in Request : AnswerPermission(r)
  \/ Connect \/ OnEvent \/ TimerFires \/ ConnectionLost \/ AppRestart

Spec == Init /\ [][Next]_vars

-----------------------------------------------------------------------------
(* Properties *)

EventKind ==
  {"user_prompt", "text_delta", "turn_complete", "tool_call_start", "tool_call_end",
   "permission_request", "permission_resolved", "error", "other"}

Ref == Request \cup {None, ToolName, NoName}

\* The type of every variable; the items keep within the phone's bound.
TypeOK ==
  /\ out \in Seq([kind : EventKind, ref : Ref])
  /\ log \in Seq([kind : EventKind, ref : Ref]) /\ Len(log) <= bound.events
  /\ session \in 1 .. bound.sessions /\ breaks \in 0 .. bound.breaks /\ shown \in 0 .. bound.events
  /\ conn \in [up : BOOLEAN, next : 1 .. bound.events + 1]
  /\ saved \in [seq : 0 .. bound.events, of : 1 .. session]
  /\ timer \in [seq : 0 .. bound.events, of : 0 .. session]
  /\ screen.session \in 0 .. session /\ screen.cards \subseteq Request
  /\ {screen.lastSeq, screen.tipSeq, screen.from} \subseteq 0 .. bound.events
  /\ Len(screen.items) <= MaxItems
  /\ \A i \in DOMAIN screen.items :
       /\ screen.items[i].kind \in {"prompt", "assistant", "tool", "permission", "notice"}
       /\ Len(screen.items[i].text) <= MaxText

\* The screen is of the daemon's session, and started in it.
Current == screen.session = session /\ screen.of = session

Items == screen.items
Applied(kind) == {n \in screen.from + 1 .. screen.lastSeq : log[n].kind = kind}
Trimmed(n) == Len(Items) = MaxItems /\ n < Items[1].seq
ItemsOf(kind) == {i \in DOMAIN Items : Items[i].kind = kind}
Texts == FlattenSeq([i \in DOMAIN Items |-> Items[i].text])

\* What of a text that reaches its limit is never cut off again, in deltas.
Kept == (9 * (MaxText + 1)) \div 10

\* What claude says is on the screen in its order and once, through every
\* interleaving with tools, prompts and requests and over every reconnection;
\* a piece is missing only above the first item of a trimmed list, or where it
\* belongs to an assistant item whose text has been cut.
TextIsKept ==
  Current =>
    /\ ToSet(Texts) \subseteq Applied("text_delta")
    /\ \A i, j \in DOMAIN Texts : i < j => Texts[i] < Texts[j]
    /\ \A n \in Applied("text_delta") \ ToSet(Texts) :
         Trimmed(n) \/ \E i \in ItemsOf("assistant") :
           /\ Len(Items[i].text) >= Kept /\ Items[i].seq <= n
           /\ i < Len(Items) => n < Items[i + 1].seq

\* reducer.ts:352: "Trim from the front so the most recent output is preserved."
\* The newest piece of text that was applied ends the text of its item.
NewestIsKept ==
  Current /\ Applied("text_delta") # {} =>
    LET newest == Max(Applied("text_delta"))
    IN  Trimmed(newest) \/ \E i \in ItemsOf("assistant") : Last(Items[i].text) = newest

\* No assistant item has text of two turns, or from before and after a prompt.
TurnsDoNotMix ==
  Current => \A i \in ItemsOf("assistant") :
    \A n \in Applied("turn_complete") \cup Applied("user_prompt") :
      n < Items[i].text[1] \/ Last(Items[i].text) < n

\* The calls of a tool that started, or ended, after seq n and up to m.
Calls(kind, name, n, m) == {k \in n + 1 .. m : log[k] = Event(kind, name)}

\* PHASE2.md: "`tool_call_end` matches LIFO on the last unfinished tool of the
\* same name".  A call is shown as done just when the ends of its name since
\* its start have ever outnumbered the starts, which the later calls' ends
\* alone cannot do: however calls are nested, prompts and requests come in
\* between, notices are dropped and the list is trimmed.  (A call with a name
\* is never done: no end that claude's adapter sends has one.)
ToolsFinishLifo ==
  Current => \A i \in ItemsOf("tool") :
    LET n == Items[i].seq
        name == log[n].ref
    IN  log[n].kind = "tool_call_start" =>
          (Items[i].done <=> \E m \in n + 1 .. screen.lastSeq :
             Cardinality(Calls("tool_call_end", name, n, m)) >
               Cardinality(Calls("tool_call_start", name, n, m)))

Live == conn.up /\ screen.lastSeq >= screen.tipSeq

\* When the phone is live, the cards it shows are the requests of the log it
\* has seen that nobody has answered, also after it was killed; so is what the
\* request looks like in the stream, unless it was asked again.
CardsAreOpenRequests ==
  Live /\ Current =>
    /\ screen.cards = Open(SubSeq(log, 1, screen.lastSeq))
    /\ \A i \in ItemsOf("permission") :
         \/ Items[i].done <=> Items[i].ref \notin screen.cards
         \/ \E m, n \in Applied("permission_request") : m # n /\ log[m] = log[n]

\* PHASE2.md: "reopen -> snapshot + catch-up, no gaps/duplicates".  A live phone
\* to which everything has been delivered has shown every event of the session,
\* now or before it was killed, unless the seq it had stored was of an older
\* session: then the events of the new one up to that seq are lost to it
\* (mobileClient.ts:45, :52), and that loss is what is excused.
NothingIsSkipped ==
  Live /\ conn.next > Len(log) =>
    \/ screen.lastSeq = Len(log) /\ shown = Len(log)
    \/ screen.of # session
=============================================================================
