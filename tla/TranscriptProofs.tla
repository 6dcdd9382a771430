-------------------------- MODULE TranscriptProofs --------------------------
(***************************************************************************)
(* Proofs about Transcript: the properties that its run checks, for every  *)
(* set of requests and every limit of the reducer and of a behaviour.      *)
(*                                                                         *)
(* The invariant says what the items of a screen are of the events that    *)
(* were applied to it (Stream, a conjunction of six parts), and where the  *)
(* seqs of the connection, of the storage and of the screen may be.  What  *)
(* an event does to Stream is proved for the reducer's operators one by    *)
(* one, and every step of the system from that.                            *)
(***************************************************************************)
EXTENDS Transcript, SequenceLemmas, FiniteSetTheorems

-----------------------------------------------------------------------------
(* The inductive invariant *)

ItemKind == {"prompt", "assistant", "tool", "permission", "notice"}

ItemType ==
  [kind : ItemKind, seq : Nat, ref : Ref,
   text : Seq(Nat), done : BOOLEAN]

\* An event, with the request it is about when it is about one.
EventType ==
  {e \in [kind : EventKind, ref : Ref] :
     e.kind \in {"permission_request", "permission_resolved"} => e.ref \in Request}

\* The types that every step keeps.
TypeInv ==
  /\ bound \in Bound
  /\ out \in Seq(EventType) /\ log \in Seq(EventType) /\ Len(log) + Len(out) <= bound.events
  /\ session \in 1 .. bound.sessions /\ breaks \in 0 .. bound.breaks
  /\ shown \in 0 .. Len(log)
  /\ conn \in [up : BOOLEAN, next : 1 .. bound.events + 1]
  /\ saved \in [seq : 0 .. bound.events, of : 1 .. session]
  /\ timer \in [seq : 0 .. bound.events, of : 0 .. session]
  /\ timer.seq > 0 => timer.of > 0
  /\ screen \in [session : 0 .. session, lastSeq : 0 .. bound.events, tipSeq : 0 .. bound.events,
                 items : Seq(ItemType), cards : SUBSET Request,
                 from : 0 .. bound.events, of : 1 .. session]
  /\ screen.from <= screen.lastSeq
  /\ Len(screen.items) <= MaxItems
  /\ \A i \in DOMAIN screen.items : Len(screen.items[i].text) <= MaxText

\* Where the seqs are that belong to the daemon's session.
SeqInv ==
  /\ screen.of = session => screen.lastSeq <= shown
  /\ saved.of = session => saved.seq <= shown
  /\ timer.of = session => timer.seq <= shown
  /\ conn.up =>
       /\ screen.session = session /\ screen.tipSeq <= Len(log)
       /\ conn.next <= Len(log) + 1
       /\ conn.next <= screen.lastSeq + 1 \/ screen.lastSeq < screen.tipSeq

\* Between the catch-up and the tip of the snapshot a card is as the events
\* that were seen leave it, or as the snapshot said.
CardsInv ==
  conn.up /\ screen.of = session =>
    \A r \in Request :
      \/ r \in screen.cards <=> r \in Open(SubSeq(log, 1, screen.lastSeq))
      \/ /\ screen.lastSeq < screen.tipSeq
         /\ r \in screen.cards <=> r \in Open(SubSeq(log, 1, screen.tipSeq))

\* Items stand in the order of their events, of those applied.
Ordered(items, from, m) ==
  \A i \in DOMAIN items :
    /\ from < items[i].seq /\ items[i].seq <= m
    /\ \A j \in DOMAIN items : i < j => items[i].seq < items[j].seq

\* Text is of deltas, in their order, and lies between its item and the next.
Written(items, events, from, m) ==
  \A i \in DOMAIN items :
    /\ items[i].kind # "assistant" => items[i].text = <<>>
    /\ items[i].kind = "assistant" => items[i].text # <<>> /\ items[i].text[1] = items[i].seq
    /\ \A a \in DOMAIN items[i].text :
         /\ from < items[i].text[a] /\ items[i].text[a] <= m
         /\ events[items[i].text[a]].kind = "text_delta"
         /\ \A b \in DOMAIN items[i].text : a < b => items[i].text[a] < items[i].text[b]
         /\ \A j \in DOMAIN items : i < j => items[i].text[a] < items[j].seq

Ends == {"turn_complete", "user_prompt"}

\* A turn or prompt ends an assistant item: what comes after it is not added.
Unmixed(items, events, from, m) ==
  \A i \in DOMAIN items : items[i].kind = "assistant" =>
    \A n \in from + 1 .. m : events[n].kind \in Ends =>
      \/ n < items[i].seq
      \/ /\ \A a \in DOMAIN items[i].text : items[i].text[a] < n
         /\ i < Len(items) \/ items[i].done

\* A request is marked resolved when its resolution was applied after it.
Answered(items, events, m) ==
  \A i \in DOMAIN items : items[i].kind = "permission" =>
    /\ events[items[i].seq] = Event("permission_request", items[i].ref)
    /\ items[i].done <=>
         \E j \in items[i].seq + 1 .. m : events[j] = Event("permission_resolved", items[i].ref)

\* What became of a delta: trimmed off the head, shown, or cut off a full item.
Above(items, full, n) == full /\ items # <<>> /\ n < items[1].seq

Wrote(items, n) == \E i \in DOMAIN items : \E a \in DOMAIN items[i].text : items[i].text[a] = n

Cut(items, n) ==
  \E i \in DOMAIN items :
    /\ items[i].kind = "assistant"
    /\ Len(items[i].text) >= Kept /\ items[i].text[Kept] < n
    /\ \A j \in DOMAIN items : i < j => n < items[j].seq

\* Every delta that was applied is accounted for.
Covered(items, full, events, from, m) ==
  \A n \in from + 1 .. m : events[n].kind = "text_delta" =>
    Above(items, full, n) \/ Wrote(items, n) \/ Cut(items, n)

\* The ends, or starts, of a tool's calls after seq n and up to m.
CallsOf(events, kind, name, n, m) == {k \in n + 1 .. m : events[k] = Event(kind, name)}
Count(events, kind, name, n, m) == Cardinality(CallsOf(events, kind, name, n, m))

\* The ends have at some time outnumbered the starts.
Outnumbered(events, name, n, m) ==
  \E k \in n + 1 .. m :
    Count(events, "tool_call_end", name, n, k) > Count(events, "tool_call_start", name, n, k)

\* The tools among the items, and the later calls of a name that still wait.
Tools(items) == {items[i] : i \in {j \in DOMAIN items : items[j].kind = "tool"}}
Waiting(tools, name, n) ==
  {q \in Nat : q > n /\ \E t \in tools : t.seq = q /\ t.ref = name /\ ~t.done}

\* A call is done when ends have outnumbered starts since it started; until
\* then those that started and did not end are the later calls that wait.
CallRight(t, tools, events, m) ==
  /\ events[t.seq].kind = "tool_call_start" =>
       events[t.seq].ref = t.ref /\ (t.done <=> Outnumbered(events, t.ref, t.seq, m))
  /\ ~t.done =>
       /\ events[t.seq].kind = "tool_call_start"
       /\ Count(events, "tool_call_end", t.ref, t.seq, m)
            + Cardinality(Waiting(tools, t.ref, t.seq))
          = Count(events, "tool_call_start", t.ref, t.seq, m)

Nested(tools, events, m) == \A t \in tools : CallRight(t, tools, events, m)

\* What the items of a screen are of the events applied to it.
Stream(items, full, events, from, m) ==
  /\ Ordered(items, from, m)
  /\ Written(items, events, from, m)
  /\ Unmixed(items, events, from, m)
  /\ Answered(items, events, m)
  /\ Covered(items, full, events, from, m)
  /\ Nested(Tools(items), events, m)

\* Nothing has been delivered to the screen since it was made.
Blank == screen.items = <<>> /\ screen.from = screen.lastSeq

\* The items are of the session that was last connected to, in which the screen
\* may have gone on from a seq of an older one.
StreamInv ==
  /\ screen.session = 0 => Blank
  /\ screen.session = session =>
       /\ screen.lastSeq <= Len(log) \/ Blank
       /\ Stream(Items, Len(Items) >= MaxItems, log, screen.from, screen.lastSeq)

Inv == TypeInv /\ SeqInv /\ CardsInv /\ StreamInv

-----------------------------------------------------------------------------
(* The calls of tools *)

\* What there is to count, and what one more event adds.
LEMMA CountFacts ==
  ASSUME NEW events, NEW kind, NEW name, NEW n \in Nat, NEW m \in Nat, n <= m
  PROVE  /\ Count(events, kind, name, n, m) \in Nat
         /\ Count(events, kind, name, n, n) = 0
         /\ events[m + 1] = Event(kind, name) =>
              Count(events, kind, name, n, m + 1) = Count(events, kind, name, n, m) + 1
         /\ events[m + 1] # Event(kind, name) =>
              Count(events, kind, name, n, m + 1) = Count(events, kind, name, n, m)
<1> DEFINE now == CallsOf(events, kind, name, n, m)
           next == CallsOf(events, kind, name, n, m + 1)
<1>1. IsFiniteSet(now)
  <2>1. IsFiniteSet(n + 1 .. m)
    BY FS_Interval
  <2>2. now \subseteq n + 1 .. m
    BY DEF CallsOf
  <2> QED BY <2>1, <2>2, FS_Subset
<1>2. n + 1 .. m + 1 = (n + 1 .. m) \cup {m + 1} /\ m + 1 \notin n + 1 .. m
  OBVIOUS
<1>3. m + 1 \notin now
  BY <1>2 DEF CallsOf
<1>4. ASSUME events[m + 1] = Event(kind, name)
      PROVE  Cardinality(next) = Cardinality(now) + 1
  <2>1. next = now \cup {m + 1}
    BY <1>2, <1>4 DEF CallsOf
  <2> QED BY <1>1, <1>3, <2>1, FS_AddElement
<1>5. ASSUME events[m + 1] # Event(kind, name)
      PROVE  next = now
  BY <1>2, <1>5 DEF CallsOf
<1>6. CallsOf(events, kind, name, n, n) = {}
  BY DEF CallsOf
<1> QED BY <1>1, <1>4, <1>5, <1>6, FS_CardinalityType, FS_EmptySet DEF Count

\* The same of ends and starts together: an event is one, or the other, or none.
LEMMA CallCounts ==
  ASSUME NEW events, NEW name, NEW n \in Nat, NEW m \in Nat, n <= m
  PROVE  LET e(k) == Count(events, "tool_call_end", name, n, k)
             s(k) == Count(events, "tool_call_start", name, n, k)
         IN  /\ e(m) \in Nat /\ s(m) \in Nat /\ e(n) = 0 /\ s(n) = 0
             /\ events[m + 1] = Event("tool_call_end", name) =>
                  e(m + 1) = e(m) + 1 /\ s(m + 1) = s(m)
             /\ events[m + 1] = Event("tool_call_start", name) =>
                  e(m + 1) = e(m) /\ s(m + 1) = s(m) + 1
             /\ events[m + 1] \notin {Event("tool_call_end", name), Event("tool_call_start", name)} =>
                  e(m + 1) = e(m) /\ s(m + 1) = s(m)
<1> DEFINE e(k) == Count(events, "tool_call_end", name, n, k)
           s(k) == Count(events, "tool_call_start", name, n, k)
           end == Event("tool_call_end", name)
           start == Event("tool_call_start", name)
<1>0. ASSUME NEW kind
      PROVE  /\ Count(events, kind, name, n, m) \in Nat
             /\ Count(events, kind, name, n, n) = 0
             /\ events[m + 1] = Event(kind, name) =>
                  Count(events, kind, name, n, m + 1) = Count(events, kind, name, n, m) + 1
             /\ events[m + 1] # Event(kind, name) =>
                  Count(events, kind, name, n, m + 1) = Count(events, kind, name, n, m)
  BY CountFacts
<1>1. /\ e(m) \in Nat /\ e(n) = 0
      /\ events[m + 1] = end => e(m + 1) = e(m) + 1
      /\ events[m + 1] # end => e(m + 1) = e(m)
  BY <1>0
<1>2. /\ s(m) \in Nat /\ s(n) = 0
      /\ events[m + 1] = start => s(m + 1) = s(m) + 1
      /\ events[m + 1] # start => s(m + 1) = s(m)
  BY <1>0
<1>3. end # start
  BY DEF Event
<1> HIDE DEF e, s, end, start
<1>4. /\ e(m) \in Nat /\ s(m) \in Nat /\ e(n) = 0 /\ s(n) = 0
      /\ events[m + 1] = end => e(m + 1) = e(m) + 1 /\ s(m + 1) = s(m)
      /\ events[m + 1] = start => e(m + 1) = e(m) /\ s(m + 1) = s(m) + 1
      /\ events[m + 1] \notin {end, start} => e(m + 1) = e(m) /\ s(m + 1) = s(m)
  BY <1>1, <1>2, <1>3
<1> QED BY <1>4 DEF e, s, end, start

\* Ends that have outnumbered the starts have done so for ever; with an event
\* more they begin to only if it is an end.
LEMMA OutnumberedFacts ==
  ASSUME NEW events, NEW name, NEW n \in Nat, NEW m \in Nat, n <= m
  PROVE  /\ Outnumbered(events, name, n, m) => Outnumbered(events, name, n, m + 1)
         /\ ~Outnumbered(events, name, n, n)
         /\ Count(events, "tool_call_end", name, n, m + 1) >
              Count(events, "tool_call_start", name, n, m + 1)
            => Outnumbered(events, name, n, m + 1)
         /\ Outnumbered(events, name, n, m + 1) =>
              \/ Outnumbered(events, name, n, m)
              \/ /\ events[m + 1] = Event("tool_call_end", name)
                 /\ Count(events, "tool_call_end", name, n, m + 1) >
                      Count(events, "tool_call_start", name, n, m + 1)
<1> DEFINE e(k) == Count(events, "tool_call_end", name, n, k)
           s(k) == Count(events, "tool_call_start", name, n, k)
<1>1. n + 1 .. m + 1 = (n + 1 .. m) \cup {m + 1} /\ n + 1 .. n = {}
  OBVIOUS
<1>2. /\ e(m) \in Nat /\ s(m) \in Nat /\ e(n) = 0 /\ s(n) = 0
      /\ s(m + 1) = s(m) \/ s(m + 1) = s(m) + 1
      /\ events[m + 1] # Event("tool_call_end", name) => e(m + 1) = e(m)
  <2>1. /\ e(m) \in Nat /\ s(m) \in Nat /\ e(n) = 0 /\ s(n) = 0
        /\ events[m + 1] = Event("tool_call_end", name) =>
             e(m + 1) = e(m) + 1 /\ s(m + 1) = s(m)
        /\ events[m + 1] = Event("tool_call_start", name) =>
             e(m + 1) = e(m) /\ s(m + 1) = s(m) + 1
        /\ events[m + 1] \notin {Event("tool_call_end", name), Event("tool_call_start", name)} =>
             e(m + 1) = e(m) /\ s(m + 1) = s(m)
    BY CallCounts
  <2> HIDE DEF e, s
  <2> QED BY <2>1
<1>3. ASSUME events[m + 1] # Event("tool_call_end", name), e(m + 1) > s(m + 1)
      PROVE  Outnumbered(events, name, n, m)
  <2> HIDE DEF e, s
  <2>1. e(m) > s(m)
    BY <1>2, <1>3
  <2>2. m # n
    BY <1>2, <2>1
  <2>3. m \in n + 1 .. m
    BY <2>2
  <2> QED BY <2>1, <2>3 DEF Outnumbered, e, s
<1> HIDE DEF e, s
<1>4. \A p \in Nat : Outnumbered(events, name, n, p) <=> \E k \in n + 1 .. p : e(k) > s(k)
  BY DEF Outnumbered, e, s
<1> QED BY <1>1, <1>3, <1>4 DEF e, s

\* What one more event does to the counts of a call.
LEMMA CallFacts ==
  ASSUME NEW t, NEW events, NEW m \in Nat, t.seq \in 1 .. m
  PROVE  LET e(k) == Count(events, "tool_call_end", t.ref, t.seq, k)
             s(k) == Count(events, "tool_call_start", t.ref, t.seq, k)
             over(k) == Outnumbered(events, t.ref, t.seq, k)
         IN  /\ e(m) \in Nat /\ s(m) \in Nat
             /\ events[m + 1] = Event("tool_call_end", t.ref) =>
                  e(m + 1) = e(m) + 1 /\ s(m + 1) = s(m)
             /\ events[m + 1] = Event("tool_call_start", t.ref) =>
                  e(m + 1) = e(m) /\ s(m + 1) = s(m) + 1 /\ (over(m + 1) => over(m))
             /\ events[m + 1] \notin
                  {Event("tool_call_end", t.ref), Event("tool_call_start", t.ref)} =>
                  e(m + 1) = e(m) /\ s(m + 1) = s(m) /\ (over(m + 1) => over(m))
             /\ over(m) => over(m + 1)
             /\ e(m + 1) > s(m + 1) => over(m + 1)
             /\ over(m + 1) => over(m) \/ e(m + 1) > s(m + 1)
<1>1. PICK n \in Nat : n = t.seq /\ n <= m
  OBVIOUS
<1>2. PICK name : name = t.ref
  OBVIOUS
<1> DEFINE e(k) == Count(events, "tool_call_end", name, n, k)
           s(k) == Count(events, "tool_call_start", name, n, k)
           over(k) == Outnumbered(events, name, n, k)
           end == Event("tool_call_end", name)
           start == Event("tool_call_start", name)
<1>3. /\ e(m) \in Nat /\ s(m) \in Nat /\ e(n) = 0 /\ s(n) = 0
      /\ events[m + 1] = end => e(m + 1) = e(m) + 1 /\ s(m + 1) = s(m)
      /\ events[m + 1] = start => e(m + 1) = e(m) /\ s(m + 1) = s(m) + 1
      /\ events[m + 1] \notin {end, start} => e(m + 1) = e(m) /\ s(m + 1) = s(m)
  <2>1. n \in Nat /\ m \in Nat /\ n <= m
    BY <1>1
  <2> QED BY <2>1, CallCounts
<1>4. /\ over(m) => over(m + 1)
      /\ e(m + 1) > s(m + 1) => over(m + 1)
      /\ over(m + 1) => over(m) \/ (events[m + 1] = end /\ e(m + 1) > s(m + 1))
  BY <1>1, OutnumberedFacts
<1>5. end # start
  BY DEF Event
<1> HIDE DEF e, s, over, end, start
<1>6. events[m + 1] # end => (over(m + 1) => over(m))
  BY <1>4, <1>5
<1>7. /\ e(m) \in Nat /\ s(m) \in Nat
      /\ events[m + 1] = end => e(m + 1) = e(m) + 1 /\ s(m + 1) = s(m)
      /\ events[m + 1] = start =>
           e(m + 1) = e(m) /\ s(m + 1) = s(m) + 1 /\ (over(m + 1) => over(m))
      /\ events[m + 1] \notin {end, start} =>
           e(m + 1) = e(m) /\ s(m + 1) = s(m) /\ (over(m + 1) => over(m))
      /\ over(m) => over(m + 1)
      /\ e(m + 1) > s(m + 1) => over(m + 1)
      /\ over(m + 1) => over(m) \/ e(m + 1) > s(m + 1)
  BY <1>3, <1>4, <1>5, <1>6
<1> QED BY <1>1, <1>2, <1>7 DEF e, s, over, end, start

\* How many calls wait.
LEMMA WaitingFacts ==
  ASSUME NEW tools, NEW m \in Nat, \A t \in tools : t.seq \in 1 .. m, NEW name, NEW n
  PROVE  /\ IsFiniteSet(Waiting(tools, name, n)) /\ m + 1 \notin Waiting(tools, name, n)
         /\ Cardinality(Waiting(tools, name, n)) \in Nat
<1>1. Waiting(tools, name, n) \subseteq 1 .. m /\ m + 1 \notin 1 .. m
  BY DEF Waiting
<1>2. IsFiniteSet(1 .. m)
  BY FS_Interval
<1> QED BY <1>1, <1>2, FS_Subset, FS_CardinalityType

\* An event that is no call of its tool, or after it is done, changes no tool.
LEMMA CallKept ==
  ASSUME NEW t, NEW tools, NEW more, NEW events, NEW m \in Nat, t.seq \in 1 .. m,
         CallRight(t, tools, events, m),
         \/ t.done
         \/ /\ Waiting(more, t.ref, t.seq) = Waiting(tools, t.ref, t.seq)
            /\ events[m + 1] # Event("tool_call_start", t.ref)
            /\ events[m + 1] # Event("tool_call_end", t.ref)
  PROVE  CallRight(t, more, events, m + 1)
<1>1. CASE t.done
  <2>1. Outnumbered(events, t.ref, t.seq, m) => Outnumbered(events, t.ref, t.seq, m + 1)
    BY CallFacts
  <2> QED BY <1>1, <2>1 DEF CallRight
<1>2. CASE ~t.done
  <2>1. events[m + 1] \notin {Event("tool_call_end", t.ref), Event("tool_call_start", t.ref)}
    BY <1>2
  <2>2. /\ Count(events, "tool_call_end", t.ref, t.seq, m + 1)
             = Count(events, "tool_call_end", t.ref, t.seq, m)
        /\ Count(events, "tool_call_start", t.ref, t.seq, m + 1)
             = Count(events, "tool_call_start", t.ref, t.seq, m)
        /\ Outnumbered(events, t.ref, t.seq, m + 1) => Outnumbered(events, t.ref, t.seq, m)
    BY <2>1, CallFacts
  <2> QED BY <1>2, <2>2 DEF CallRight
<1> QED BY <1>1, <1>2

\* One more call starts, and waits.
LEMMA CallStarts ==
  ASSUME NEW t, NEW tools, NEW more, NEW events, NEW m \in Nat, t.seq \in 1 .. m, ~t.done,
         CallRight(t, tools, events, m), \A u \in tools : u.seq \in 1 .. m,
         events[m + 1] = Event("tool_call_start", t.ref),
         Waiting(more, t.ref, t.seq) = Waiting(tools, t.ref, t.seq) \cup {m + 1}
  PROVE  CallRight(t, more, events, m + 1)
<1> DEFINE e(k) == Count(events, "tool_call_end", t.ref, t.seq, k)
           s(k) == Count(events, "tool_call_start", t.ref, t.seq, k)
           over(k) == Outnumbered(events, t.ref, t.seq, k)
           w == Cardinality(Waiting(tools, t.ref, t.seq))
           v == Cardinality(Waiting(more, t.ref, t.seq))
<1>1. /\ e(m + 1) = e(m) /\ s(m + 1) = s(m) + 1 /\ e(m) \in Nat /\ s(m) \in Nat
      /\ over(m + 1) => over(m)
  BY CallFacts
<1>2. v = w + 1 /\ w \in Nat
  BY WaitingFacts, FS_AddElement
<1>3. /\ e(m) + w = s(m) /\ ~over(m)
      /\ events[t.seq].kind = "tool_call_start" /\ events[t.seq].ref = t.ref
  BY DEF CallRight
<1> HIDE DEF e, s, over, w, v
<1>4. e(m + 1) + v = s(m + 1) /\ ~over(m + 1)
  BY <1>1, <1>2, <1>3
<1> QED BY <1>3, <1>4 DEF CallRight, e, s, over, v

\* A later call ends, and waits no more.
LEMMA LaterEnds ==
  ASSUME NEW t, NEW tools, NEW more, NEW events, NEW m \in Nat, t.seq \in 1 .. m, ~t.done,
         CallRight(t, tools, events, m), \A u \in tools : u.seq \in 1 .. m,
         events[m + 1] = Event("tool_call_end", t.ref),
         NEW q \in Waiting(tools, t.ref, t.seq),
         Waiting(more, t.ref, t.seq) = Waiting(tools, t.ref, t.seq) \ {q}
  PROVE  CallRight(t, more, events, m + 1)
<1> DEFINE e(k) == Count(events, "tool_call_end", t.ref, t.seq, k)
           s(k) == Count(events, "tool_call_start", t.ref, t.seq, k)
           over(k) == Outnumbered(events, t.ref, t.seq, k)
           w == Cardinality(Waiting(tools, t.ref, t.seq))
           v == Cardinality(Waiting(more, t.ref, t.seq))
<1>1. /\ e(m + 1) = e(m) + 1 /\ s(m + 1) = s(m) /\ e(m) \in Nat /\ s(m) \in Nat
      /\ over(m + 1) => over(m) \/ e(m + 1) > s(m + 1)
  BY CallFacts
<1>2. v = w - 1 /\ w \in Nat /\ v \in Nat
  <2>1. IsFiniteSet(Waiting(tools, t.ref, t.seq)) /\ w \in Nat
    BY WaitingFacts
  <2>2. IsFiniteSet(Waiting(more, t.ref, t.seq)) /\ v = w - 1
    BY <2>1, FS_RemoveElement
  <2> QED BY <2>1, <2>2, FS_CardinalityType
<1>3. /\ e(m) + w = s(m) /\ ~over(m)
      /\ events[t.seq].kind = "tool_call_start" /\ events[t.seq].ref = t.ref
  BY DEF CallRight
<1> HIDE DEF e, s, over, w, v
<1>4. e(m + 1) + v = s(m + 1) /\ ~(e(m + 1) > s(m + 1))
  BY <1>1, <1>2, <1>3
<1>5. ~over(m + 1)
  BY <1>1, <1>3, <1>4
<1> QED BY <1>3, <1>4, <1>5 DEF CallRight, e, s, over, v

\* The last call that waits ends, and is done.
LEMMA LastEnds ==
  ASSUME NEW t, NEW d, NEW tools, NEW more, NEW events, NEW m \in Nat, t.seq \in 1 .. m,
         ~t.done, CallRight(t, tools, events, m),
         events[m + 1] = Event("tool_call_end", t.ref), Waiting(tools, t.ref, t.seq) = {},
         d.seq = t.seq, d.ref = t.ref, d.done
  PROVE  CallRight(d, more, events, m + 1)
<1> DEFINE e(k) == Count(events, "tool_call_end", t.ref, t.seq, k)
           s(k) == Count(events, "tool_call_start", t.ref, t.seq, k)
           over(k) == Outnumbered(events, t.ref, t.seq, k)
<1>1. /\ e(m + 1) = e(m) + 1 /\ s(m + 1) = s(m) /\ e(m) \in Nat /\ s(m) \in Nat
      /\ e(m + 1) > s(m + 1) => over(m + 1)
  BY CallFacts
<1>2. e(m) + 0 = s(m) /\ events[t.seq].ref = t.ref
  BY FS_EmptySet DEF CallRight
<1> HIDE DEF e, s, over
<1>3. over(m + 1)
  BY <1>1, <1>2
<1> QED BY <1>2, <1>3 DEF CallRight, over

\* A call that has just started waits; an end that nothing waited for is done.
LEMMA NewCall ==
  ASSUME NEW t, NEW tools, NEW events, NEW m \in Nat, t.seq = m + 1,
         \A u \in tools : u.seq \in Nat /\ u.seq <= m + 1,
         IF t.done THEN events[m + 1].kind # "tool_call_start"
         ELSE events[m + 1] = Event("tool_call_start", t.ref)
  PROVE  CallRight(t, tools, events, m + 1)
<1>1. CASE t.done
  BY <1>1 DEF CallRight
<1>2. CASE ~t.done
  <2>1. events[t.seq].kind = "tool_call_start" /\ events[t.seq].ref = t.ref
    BY <1>2 DEF Event
  <2>2. m + 1 \in Nat /\ m + 1 <= m + 1
    OBVIOUS
  <2>3. /\ Count(events, "tool_call_end", t.ref, m + 1, m + 1) = 0
        /\ Count(events, "tool_call_start", t.ref, m + 1, m + 1) = 0
    BY <2>2, CountFacts
  <2>4. ~Outnumbered(events, t.ref, m + 1, m + 1)
    BY <2>2, OutnumberedFacts
  <2>5. Waiting(tools, t.ref, m + 1) = {}
    BY DEF Waiting
  <2> QED BY <1>2, <2>1, <2>3, <2>4, <2>5, FS_EmptySet DEF CallRight
<1> QED BY <1>1, <1>2

-----------------------------------------------------------------------------
(* The reducer's operators on items *)

\* The items of a screen after some of them were marked done.
Marked(items, new) ==
  /\ new \in Seq(ItemType) /\ Len(new) = Len(items) /\ DOMAIN new = DOMAIN items
  /\ \A i \in DOMAIN items :
       /\ new[i].kind = items[i].kind /\ new[i].seq = items[i].seq
       /\ new[i].ref = items[i].ref /\ new[i].text = items[i].text
       /\ items[i].done => new[i].done

\* What an item is.
LEMMA ItemFacts ==
  ASSUME NEW it \in ItemType
  PROVE  /\ it.kind \in ItemKind /\ it.seq \in Nat /\ it.text \in Seq(Nat)
         /\ it.ref \in Ref /\ it.done \in BOOLEAN
         /\ [it EXCEPT !.done = TRUE] \in ItemType
         /\ [it EXCEPT !.done = TRUE].kind = it.kind
         /\ [it EXCEPT !.done = TRUE].seq = it.seq
         /\ [it EXCEPT !.done = TRUE].ref = it.ref
         /\ [it EXCEPT !.done = TRUE].text = it.text
         /\ [it EXCEPT !.done = TRUE].done
BY DEF ItemType

\* A new item.
LEMMA NewItemFacts ==
  ASSUME NEW k \in ItemKind, NEW n \in Nat, NEW r \in Ref
  PROVE  /\ Item(k, n, r) \in ItemType
         /\ Item(k, n, r).kind = k /\ Item(k, n, r).seq = n /\ Item(k, n, r).ref = r
         /\ Item(k, n, r).text = <<>> /\ ~Item(k, n, r).done
<1>1. <<>> \in Seq(Nat)
  OBVIOUS
<1> QED BY <1>1 DEF Item, ItemType

\* Items of which one is marked done.
LEMMA MarkOne ==
  ASSUME NEW items \in Seq(ItemType), NEW k \in DOMAIN items
  PROVE  LET new == [items EXCEPT ![k].done = TRUE]
         IN  /\ Marked(items, new) /\ new[k].done
             /\ new[k] = [items[k] EXCEPT !.done = TRUE]
             /\ \A i \in DOMAIN items : i # k => new[i] = items[i]
<1> DEFINE new == [items EXCEPT ![k].done = TRUE]
<1>1. PICK n \in Nat : n = Len(items)
  OBVIOUS
<1>2. DOMAIN items = 1 .. n /\ \A i \in 1 .. n : items[i] \in ItemType
  BY <1>1
<1>3. DOMAIN new = 1 .. n /\ new[k] = [items[k] EXCEPT !.done = TRUE]
      /\ \A i \in 1 .. n : i # k => new[i] = items[i]
  BY <1>2
<1> HIDE DEF new
<1>4. \A i \in 1 .. n : new[i] \in ItemType
  BY <1>2, <1>3, ItemFacts
<1>5. new \in [1 .. n -> ItemType]
  <2>1. new = [i \in 1 .. n |-> new[i]]
    BY <1>2 DEF new
  <2> QED BY <1>4, <2>1
<1>6. new \in Seq(ItemType) /\ Len(new) = n
  BY <1>5, FunctionFacts
<1>7. ASSUME NEW i \in DOMAIN items
      PROVE  /\ new[i].kind = items[i].kind /\ new[i].seq = items[i].seq
             /\ new[i].ref = items[i].ref /\ new[i].text = items[i].text
             /\ items[i].done => new[i].done
  <2>1. items[i] \in ItemType
    BY <1>2
  <2>2. CASE i = k
    <3>1. new[i] = [items[i] EXCEPT !.done = TRUE]
      BY <1>3, <2>2
    <3> QED BY <2>1, <3>1, ItemFacts
  <2>3. CASE i # k
    BY <1>2, <1>3, <2>3
  <2> QED BY <2>2, <2>3
<1>8. Marked(items, new)
  BY <1>1, <1>2, <1>3, <1>6, <1>7 DEF Marked
<1>9. new[k].done
  BY <1>2, <1>3, ItemFacts
<1> QED BY <1>2, <1>3, <1>8, <1>9 DEF new

\* Items that were left alone.
LEMMA MarkNone ==
  ASSUME NEW items \in Seq(ItemType)
  PROVE  Marked(items, items)
BY DEF Marked

\* sealOpenAssistant: the last item, when it is an assistant's, is done.
LEMMA SealFacts ==
  ASSUME NEW items \in Seq(ItemType)
  PROVE  LET new == SealOpenAssistant(items)
         IN  /\ Marked(items, new)
             /\ \A i \in DOMAIN items :
                  IF i = Len(items) /\ items[i].kind = "assistant"
                  THEN new[i].done ELSE new[i] = items[i]
<1> DEFINE new == SealOpenAssistant(items)
<1>1. PICK n \in Nat : n = Len(items)
  OBVIOUS
<1>2. DOMAIN items = 1 .. n
  BY <1>1
<1>3. CASE IsOpenAssistant(items)
  <2>1. n \in DOMAIN items /\ items[n].kind = "assistant"
    BY <1>1, <1>2, <1>3 DEF IsOpenAssistant, Last
  <2>2. new = [items EXCEPT ![n].done = TRUE]
    BY <1>1, <1>3 DEF SealOpenAssistant
  <2> HIDE DEF new
  <2>3. /\ Marked(items, new) /\ new[n].done
        /\ \A i \in DOMAIN items : i # n => new[i] = items[i]
    BY <2>1, <2>2, MarkOne
  <2> QED BY <1>1, <2>1, <2>3 DEF new
<1>4. CASE ~IsOpenAssistant(items)
  <2>1. new = items
    BY <1>4 DEF SealOpenAssistant
  <2>2. ASSUME NEW i \in DOMAIN items, i = Len(items), items[i].kind = "assistant"
        PROVE  items[i].done
    BY <1>4, <2>2 DEF IsOpenAssistant, Last
  <2> HIDE DEF new
  <2> QED BY <2>1, <2>2, MarkNone DEF new
<1> QED BY <1>3, <1>4

\* Resolve: the items of a request, and no others, are done.
LEMMA ResolveFacts ==
  ASSUME NEW items \in Seq(ItemType), NEW r
  PROVE  LET new == Resolve(items, r)
         IN  /\ Marked(items, new)
             /\ \A i \in DOMAIN items :
                  IF items[i].kind = "permission" /\ items[i].ref = r
                  THEN new[i].done ELSE new[i] = items[i]
<1> DEFINE new == Resolve(items, r)
<1>1. PICK n \in Nat : n = Len(items)
  OBVIOUS
<1>2. DOMAIN items = 1 .. n /\ \A i \in 1 .. n : items[i] \in ItemType
  BY <1>1
<1>3. new = [i \in 1 .. n |-> new[i]]
  BY <1>2 DEF Resolve
<1>4. \A i \in 1 .. n :
        new[i] = IF items[i].kind = "permission" /\ items[i].ref = r
                 THEN [items[i] EXCEPT !.done = TRUE] ELSE items[i]
  BY <1>2 DEF Resolve
<1> HIDE DEF new
<1>5. ASSUME NEW i \in 1 .. n
      PROVE  new[i] \in ItemType
  <2>1. items[i] \in ItemType
    BY <1>2
  <2>2. [items[i] EXCEPT !.done = TRUE] \in ItemType
    BY <2>1, ItemFacts
  <2> QED BY <1>4, <2>1, <2>2
<1>6. new \in [1 .. n -> ItemType]
  BY <1>3, <1>5
<1>7. new \in Seq(ItemType) /\ Len(new) = n /\ DOMAIN new = 1 .. n
  BY <1>6, FunctionFacts
<1>8. ASSUME NEW i \in 1 .. n
      PROVE  /\ new[i].kind = items[i].kind /\ new[i].seq = items[i].seq
             /\ new[i].ref = items[i].ref /\ new[i].text = items[i].text
             /\ items[i].done => new[i].done
             /\ items[i].kind = "permission" /\ items[i].ref = r => new[i].done
  <2>1. items[i] \in ItemType
    BY <1>2
  <2>2. CASE items[i].kind = "permission" /\ items[i].ref = r
    <3>1. new[i] = [items[i] EXCEPT !.done = TRUE]
      BY <1>4, <2>2
    <3> QED BY <2>1, <2>2, <3>1, ItemFacts
  <2>3. CASE ~(items[i].kind = "permission" /\ items[i].ref = r)
    <3>1. new[i] = items[i]
      BY <1>4, <2>3
    <3> QED BY <2>3, <3>1
  <2> QED BY <2>2, <2>3
<1>9. Marked(items, new)
  BY <1>1, <1>2, <1>7, <1>8 DEF Marked
<1> QED BY <1>2, <1>4, <1>8, <1>9 DEF new

\* What is kept of a text that reaches its limit.
LEMMA KeptFacts == Kept \in Nat /\ 1 <= Kept /\ Kept <= MaxText
<1>1. MaxText \in Nat /\ MaxText >= 1
  BY TranscriptAssumption
<1> QED BY <1>1 DEF Kept

\* clampText keeps a prefix: all of a text within the limit, else Kept of it.
LEMMA ClampFacts ==
  ASSUME NEW t \in Seq(Nat), Len(t) <= MaxText + 1, t # <<>>
  PROVE  LET c == ClampText(t)
         IN  /\ c \in Seq(Nat) /\ DOMAIN c = 1 .. Len(c)
             /\ Len(c) \in 1 .. MaxText
             /\ Len(c) = IF Len(t) <= MaxText THEN Len(t) ELSE Kept
             /\ DOMAIN c \subseteq DOMAIN t /\ \A a \in DOMAIN c : c[a] = t[a]
<1>1. PICK n \in Nat : n = Len(t)
  OBVIOUS
<1>2. n >= 1 /\ n <= MaxText + 1 /\ MaxText \in Nat \ {0} /\ DOMAIN t = 1 .. n
  BY <1>1, TranscriptAssumption
<1>3. CASE n <= MaxText
  BY <1>1, <1>2, <1>3 DEF ClampText
<1>4. CASE ~(n <= MaxText)
  <2>1. n = MaxText + 1
    BY <1>2, <1>4
  <2>2. ClampText(t) = SubSeq(t, 1, Kept)
    BY <1>1, <1>4, <2>1 DEF ClampText, Kept
  <2>3. Kept \in 0 .. Len(t)
    BY <1>1, <1>2, <2>1, KeptFacts
  <2>4. /\ SubSeq(t, 1, Kept) \in Seq(Nat) /\ DOMAIN SubSeq(t, 1, Kept) = 1 .. Kept
        /\ \A i \in 1 .. Kept : i \in DOMAIN t /\ SubSeq(t, 1, Kept)[i] = t[i]
    BY <2>3, PrefixFacts
  <2>5. Len(SubSeq(t, 1, Kept)) = Kept
    BY <2>4, KeptFacts
  <2> DEFINE c == SubSeq(t, 1, Kept)
  <2> HIDE DEF c
  <2>6. c \in Seq(Nat) /\ Len(c) = Kept /\ DOMAIN c = 1 .. Len(c)
        /\ \A a \in DOMAIN c : a \in DOMAIN t /\ c[a] = t[a]
    BY <2>4, <2>5 DEF c
  <2>7. Len(c) \in 1 .. MaxText
    BY <2>6, KeptFacts, TranscriptAssumption
  <2>8. ClampText(t) = c /\ ~(Len(t) <= MaxText)
    BY <1>1, <1>4, <2>2 DEF c
  <2> QED BY <2>6, <2>7, <2>8
<1> QED BY <1>3, <1>4

\* Items to which one was added at the end.
Added(items, new, x) ==
  /\ new \in Seq(ItemType) /\ Len(new) = Len(items) + 1
  /\ DOMAIN new = 1 .. (Len(items) + 1)
  /\ \A i \in DOMAIN items : new[i] = items[i]
  /\ new[Len(items) + 1] = x

\* Items whose last one, an assistant's that is not done, got the text of n.
Extended(items, new, n) ==
  /\ new \in Seq(ItemType) /\ Len(new) = Len(items) /\ DOMAIN new = DOMAIN items
  /\ Len(items) \in DOMAIN items
  /\ items[Len(items)].kind = "assistant" /\ ~items[Len(items)].done
  /\ \A i \in DOMAIN items : i # Len(items) => new[i] = items[i]
  /\ LET k == Len(items)
     IN  /\ new[k].kind = "assistant" /\ new[k].seq = items[k].seq /\ ~new[k].done
         /\ new[k].text = ClampText(Append(items[k].text, n))

\* Appending an item adds it.
LEMMA AddFacts ==
  ASSUME NEW items \in Seq(ItemType), NEW x \in ItemType
  PROVE  Added(items, Append(items, x), x)
BY AppendFacts DEF Added

\* finishTool: the last call of the name that waits is done, or an item more.
LEMMA FinishFacts ==
  ASSUME NEW items \in Seq(ItemType), NEW n \in Nat, NEW name \in Ref
  PROVE  LET new == FinishTool(items, n, name)
         IN  \/ /\ Marked(items, new)
                /\ \E k \in Unfinished(items, name) :
                     /\ \A j \in Unfinished(items, name) : j <= k
                     /\ new[k] = [items[k] EXCEPT !.done = TRUE]
                     /\ \A i \in DOMAIN items : i # k => new[i] = items[i]
             \/ /\ Unfinished(items, name) = {}
                /\ \E x \in ItemType :
                     /\ x.kind = "tool" /\ x.seq = n /\ x.ref = name
                     /\ x.text = <<>> /\ x.done
                     /\ Added(items, new, x)
<1> DEFINE new == FinishTool(items, n, name)
           found == Unfinished(items, name)
<1>1. PICK l \in Nat : l = Len(items)
  OBVIOUS
<1>2. DOMAIN items = 1 .. l
  BY <1>1
<1>3. CASE found # {}
  <2>1. found \subseteq 1 .. l
    BY <1>2 DEF Unfinished
  <2> DEFINE k == Max(found)
  <2>2. k \in found /\ \A j \in found : j <= k
    BY <1>3, <2>1, MaxFacts
  <2>3. k \in DOMAIN items
    BY <2>2 DEF Unfinished
  <2>4. new = [items EXCEPT ![k].done = TRUE]
    BY <1>3 DEF FinishTool
  <2> HIDE DEF new, k
  <2>5. /\ Marked(items, new) /\ new[k] = [items[k] EXCEPT !.done = TRUE]
        /\ \A i \in DOMAIN items : i # k => new[i] = items[i]
    BY <2>3, <2>4, MarkOne
  <2> QED BY <2>2, <2>5 DEF new
<1>4. CASE found = {}
  <2> DEFINE it == Item("tool", n, name)
             x == [it EXCEPT !.done = TRUE]
  <2>1. it \in ItemType /\ it.kind = "tool" /\ it.seq = n /\ it.ref = name /\ it.text = <<>>
    BY NewItemFacts DEF ItemKind
  <2>2. new = Append(items, x)
    BY <1>4 DEF FinishTool
  <2> HIDE DEF it, new
  <2>3. /\ x \in ItemType /\ x.kind = "tool" /\ x.seq = n /\ x.ref = name
        /\ x.text = <<>> /\ x.done
    BY <2>1, ItemFacts
  <2> HIDE DEF x
  <2>4. Added(items, new, x)
    BY <2>2, <2>3, AddFacts
  <2> QED BY <1>4, <2>3, <2>4 DEF new
<1> QED BY <1>3, <1>4

\* appendAssistant: the last item gets the text, or there is a new item with it.
LEMMA AssistantFacts ==
  ASSUME NEW items \in Seq(ItemType), NEW n \in Nat,
         \A i \in DOMAIN items :
           /\ Len(items[i].text) <= MaxText
           /\ items[i].kind = "assistant" => items[i].text # <<>>
  PROVE  LET new == AppendAssistant(items, n)
         IN  \/ Extended(items, new, n)
             \/ \E x \in ItemType :
                  /\ x.kind = "assistant" /\ x.seq = n /\ x.text = <<n>> /\ ~x.done
                  /\ Added(items, new, x)
                  /\ \A i \in DOMAIN items :
                       i = Len(items) /\ items[i].kind = "assistant" => items[i].done
<1> DEFINE new == AppendAssistant(items, n)
<1>1. PICK l \in Nat : l = Len(items)
  OBVIOUS
<1>2. DOMAIN items = 1 .. l /\ \A i \in 1 .. l : items[i] \in ItemType
  BY <1>1
<1>3. CASE IsOpenAssistant(items)
  <2>1. l \in DOMAIN items /\ items[l].kind = "assistant" /\ ~items[l].done
    BY <1>1, <1>2, <1>3 DEF IsOpenAssistant, Last
  <2>2. PICK c : c = ClampText(Append(items[l].text, n))
    OBVIOUS
  <2>3. new = [items EXCEPT ![l].text = c]
    BY <1>1, <1>3, <2>2 DEF AppendAssistant
  <2>4. items[l] \in ItemType /\ items[l].text \in Seq(Nat) /\ Len(items[l].text) <= MaxText
    BY <1>2, <2>1, ItemFacts
  <2>5. PICK t \in Seq(Nat) : t = Append(items[l].text, n)
    BY <2>4, AppendFacts
  <2>6. Len(t) <= MaxText + 1 /\ t # <<>>
    <3>1. Len(t) = Len(items[l].text) + 1 /\ Len(items[l].text) \in Nat
      BY <2>4, <2>5, AppendFacts
    <3>2. PICK a \in Nat : a = Len(items[l].text)
      BY <3>1
    <3>3. Len(t) = a + 1 /\ a <= MaxText /\ MaxText \in Nat
      BY <2>4, <3>1, <3>2, TranscriptAssumption
    <3>4. Len(<<>>) = 0
      OBVIOUS
    <3> QED BY <3>2, <3>3, <3>4
  <2>7. c \in Seq(Nat)
    BY <2>2, <2>5, <2>6, ClampFacts
  <2>8. DOMAIN new = 1 .. l /\ new[l] = [items[l] EXCEPT !.text = c]
        /\ \A i \in 1 .. l : i # l => new[i] = items[i]
    BY <1>2, <2>1, <2>3
  <2>9. new = [i \in 1 .. l |-> new[i]]
    BY <1>2, <2>3
  <2> HIDE DEF new
  <2>10. /\ new[l] \in ItemType /\ new[l].kind = "assistant" /\ new[l].seq = items[l].seq
         /\ ~new[l].done /\ new[l].text = c
    BY <2>1, <2>4, <2>7, <2>8 DEF ItemType
  <2>11. \A i \in 1 .. l : new[i] \in ItemType
    BY <1>2, <2>8, <2>10
  <2>12. new \in [1 .. l -> ItemType]
    BY <2>9, <2>11
  <2>13. new \in Seq(ItemType) /\ Len(new) = l
    BY <2>12, FunctionFacts
  <2>14. Extended(items, new, n)
    BY <1>1, <1>2, <2>1, <2>2, <2>8, <2>10, <2>13 DEF Extended
  <2> QED BY <2>14 DEF new
<1>4. CASE ~IsOpenAssistant(items)
  <2> DEFINE it == Item("assistant", n, None)
             x == [it EXCEPT !.text = <<n>>]
  <2>1. it \in ItemType /\ it.kind = "assistant" /\ it.seq = n /\ ~it.done
    BY NewItemFacts DEF ItemKind, Ref
  <2>2. new = Append(items, x)
    BY <1>4 DEF AppendAssistant
  <2> HIDE DEF it, new
  <2>3. x \in ItemType /\ x.kind = "assistant" /\ x.seq = n /\ x.text = <<n>> /\ ~x.done
    <3>1. <<n>> \in Seq(Nat)
      OBVIOUS
    <3> QED BY <2>1, <3>1 DEF ItemType
  <2> HIDE DEF x
  <2>4. Added(items, new, x)
    BY <2>2, <2>3, AddFacts
  <2>5. \A i \in DOMAIN items :
          i = Len(items) /\ items[i].kind = "assistant" => items[i].done
    BY <1>4 DEF IsOpenAssistant, Last
  <2> QED BY <2>3, <2>4, <2>5 DEF new
<1> QED BY <1>3, <1>4

\* Items without the k-th, which is not the last.
Removed(items, new, k) ==
  /\ new \in Seq(ItemType) /\ k \in DOMAIN items /\ k < Len(items)
  /\ Len(new) = Len(items) - 1 /\ DOMAIN new = 1 .. (Len(items) - 1)
  /\ \A i \in DOMAIN new : new[i] = IF i < k THEN items[i] ELSE items[i + 1]

\* pushNotice: a notice more, and then perhaps an older one less.
LEMMA NoticeFacts ==
  ASSUME NEW items \in Seq(ItemType), NEW x \in ItemType, x.kind = "notice"
  PROVE  LET all == Append(items, x)
             new == DropNotices(all)
         IN  new = all \/ \E k \in DOMAIN all : all[k].kind = "notice" /\ Removed(all, new, k)
<1> DEFINE all == Append(items, x)
           new == DropNotices(all)
           notices == {i \in DOMAIN all : all[i].kind = "notice"}
<1>1. PICK l \in Nat : l = Len(items)
  OBVIOUS
<1>2. /\ all \in Seq(ItemType) /\ Len(all) = l + 1 /\ DOMAIN all = 1 .. (l + 1)
      /\ all[l + 1] = x
  BY <1>1, AppendFacts
<1>3. new = IF Cardinality(notices) <= MaxNotices THEN all ELSE RemoveAt(all, Min(notices))
  BY DEF DropNotices
<1> HIDE DEF all, new
<1>4. l + 1 \in notices /\ notices \subseteq Nat
  BY <1>2
<1>5. CASE Cardinality(notices) <= MaxNotices
  BY <1>3, <1>5 DEF all, new
<1>6. CASE ~(Cardinality(notices) <= MaxNotices)
  <2> DEFINE k == Min(notices)
  <2>1. k \in notices /\ \A i \in notices : k <= i
    BY <1>4, MinFacts
  <2>2. k # l + 1
    <3>1. SUFFICES ASSUME k = l + 1
                   PROVE  FALSE
      OBVIOUS
    <3>2. \A i \in notices : i = l + 1
      <4>1. ASSUME NEW i \in notices
            PROVE  i = l + 1
        <5>1. i \in 1 .. (l + 1)
          BY <1>2
        <5>2. l + 1 <= i
          BY <2>1, <3>1
        <5> QED BY <5>1, <5>2
      <4> QED BY <4>1
    <3>3. notices = {l + 1}
      BY <1>4, <3>2
    <3>4. Cardinality(notices) = 1
      BY <3>3, FS_Singleton
    <3> QED BY <1>6, <3>4, TranscriptAssumption
  <2>3. k \in DOMAIN all /\ k < Len(all) /\ all[k].kind = "notice"
    BY <1>2, <2>1, <2>2
  <2>4. new = RemoveAt(all, k)
    BY <1>3, <1>6
  <2> HIDE DEF k
  <2>5. /\ new \in Seq(ItemType) /\ Len(new) = Len(all) - 1
        /\ DOMAIN new = 1 .. (Len(all) - 1)
        /\ \A i \in 1 .. (Len(all) - 1) : new[i] = IF i < k THEN all[i] ELSE all[i + 1]
    BY <1>2, <2>3, <2>4, RemoveFacts
  <2>6. Removed(all, new, k)
    BY <2>3, <2>5 DEF Removed
  <2> QED BY <2>3, <2>6 DEF all, new
<1> QED BY <1>5, <1>6

\* trimItems: with one item too many, the first goes.
LEMMA TrimFacts ==
  ASSUME NEW items \in Seq(ItemType), Len(items) <= MaxItems + 1
  PROVE  LET new == TrimItems(items)
         IN  \/ new = items /\ Len(items) <= MaxItems
             \/ Removed(items, new, 1) /\ Len(new) = MaxItems
<1>1. PICK l \in Nat : l = Len(items)
  OBVIOUS
<1>2. DOMAIN items = 1 .. l /\ MaxItems \in Nat \ {0} /\ l <= MaxItems + 1
  BY <1>1, TranscriptAssumption
<1>3. CASE l <= MaxItems
  BY <1>1, <1>3 DEF TrimItems
<1>4. CASE ~(l <= MaxItems)
  <2>1. l = MaxItems + 1 /\ l - MaxItems + 1 = 2
    BY <1>2, <1>4
  <2>2. TrimItems(items) = SubSeq(items, 2, l)
    BY <1>1, <1>4, <2>1 DEF TrimItems
  <2>3. SubSeq(items, 2, l) = [i \in 1 .. (l - 2 + 1) |-> items[i + 2 - 1]]
    OBVIOUS
  <2>4. l - 2 + 1 = l - 1 /\ l - 1 \in Nat /\ l - 1 = MaxItems
    BY <1>2, <2>1
  <2>5. \A i \in 1 .. (l - 1) : i + 2 - 1 = i + 1 /\ i + 1 \in DOMAIN items
    BY <1>2, <2>4
  <2>6. TrimItems(items) = [i \in 1 .. (l - 1) |-> items[i + 1]]
    BY <2>2, <2>3, <2>4, <2>5
  <2>7. \A i \in 1 .. (l - 1) : items[i + 1] \in ItemType
    BY <1>2, <2>5
  <2> DEFINE new == TrimItems(items)
  <2> HIDE DEF new
  <2>8. new \in [1 .. (l - 1) -> ItemType] /\ \A i \in 1 .. (l - 1) : new[i] = items[i + 1]
    BY <2>6, <2>7 DEF new
  <2>9. new \in Seq(ItemType) /\ Len(new) = l - 1 /\ DOMAIN new = 1 .. (l - 1)
    BY <2>4, <2>8, FunctionFacts
  <2>10. \A i \in DOMAIN new : new[i] = IF i < 1 THEN items[i] ELSE items[i + 1]
    BY <2>4, <2>8, <2>9
  <2>11. 1 \in DOMAIN items /\ 1 < Len(items)
    BY <1>1, <1>2, <2>1
  <2>12. Removed(items, new, 1)
    BY <1>1, <2>9, <2>10, <2>11 DEF Removed
  <2> QED BY <2>4, <2>9, <2>12 DEF new
<1> QED BY <1>3, <1>4

-----------------------------------------------------------------------------
(* What the operators do to the parts of Stream: items left alone *)

\* What is in a sequence of items.
LEMMA ItemsFacts ==
  ASSUME NEW items \in Seq(ItemType)
  PROVE  /\ Len(items) \in Nat /\ DOMAIN items = 1 .. Len(items)
         /\ \A i \in DOMAIN items :
              /\ items[i] \in ItemType /\ items[i].seq \in Nat
              /\ Len(items[i].text) \in Nat
              /\ DOMAIN items[i].text = 1 .. Len(items[i].text)
              /\ \A a \in DOMAIN items[i].text : items[i].text[a] \in Nat
<1>1. Len(items) \in Nat /\ DOMAIN items = 1 .. Len(items)
  OBVIOUS
<1>2. ASSUME NEW i \in DOMAIN items
      PROVE  /\ items[i] \in ItemType /\ items[i].seq \in Nat
             /\ Len(items[i].text) \in Nat
             /\ DOMAIN items[i].text = 1 .. Len(items[i].text)
             /\ \A a \in DOMAIN items[i].text : items[i].text[a] \in Nat
  <2>1. items[i] \in ItemType
    OBVIOUS
  <2>2. PICK t \in Seq(Nat) : t = items[i].text
    BY <2>1, ItemFacts
  <2>3. Len(t) \in Nat /\ DOMAIN t = 1 .. Len(t) /\ \A a \in DOMAIN t : t[a] \in Nat
    OBVIOUS
  <2> QED BY <2>1, <2>2, <2>3, ItemFacts
<1> QED BY <1>1, <1>2

\* An event that leaves the items alone.
LEMMA OrderedAdvance ==
  ASSUME NEW items, NEW from \in Nat, NEW m \in Nat, Ordered(items, from, m),
         \A i \in DOMAIN items : items[i].seq \in Nat
  PROVE  Ordered(items, from, m + 1)
BY DEF Ordered

\* The texts of the items, when there is one more event.
LEMMA WrittenAdvance ==
  ASSUME NEW items \in Seq(ItemType), NEW events, NEW from \in Nat, NEW m \in Nat,
         Written(items, events, from, m)
  PROVE  Written(items, events, from, m + 1)
<1>1. \A i \in DOMAIN items : \A a \in DOMAIN items[i].text : items[i].text[a] \in Nat
  BY ItemsFacts
<1> QED BY <1>1 DEF Written

\* The end of a turn, or any other event, when no assistant is open.
LEMMA UnmixedAdvance ==
  ASSUME NEW items \in Seq(ItemType), NEW events, NEW from \in Nat, NEW m \in Nat,
         from <= m, Written(items, events, from, m), Unmixed(items, events, from, m),
         \/ events[m + 1].kind \notin Ends
         \/ \A i \in DOMAIN items :
              i = Len(items) /\ items[i].kind = "assistant" => items[i].done
  PROVE  Unmixed(items, events, from, m + 1)
<1> SUFFICES ASSUME NEW i \in DOMAIN items, items[i].kind = "assistant",
                    NEW n \in from + 1 .. m + 1, events[n].kind \in Ends
             PROVE  \/ n < items[i].seq
                    \/ /\ \A a \in DOMAIN items[i].text : items[i].text[a] < n
                       /\ i < Len(items) \/ items[i].done
  BY DEF Unmixed
<1>1. CASE n \in from + 1 .. m
  BY <1>1 DEF Unmixed
<1>2. CASE n = m + 1
  <2>1. \A a \in DOMAIN items[i].text : items[i].text[a] \in Nat /\ items[i].text[a] <= m
    BY ItemsFacts DEF Written
  <2>2. i < Len(items) \/ i = Len(items)
    OBVIOUS
  <2>3. i < Len(items) \/ items[i].done
    BY <1>2, <2>2
  <2> QED BY <1>2, <2>1, <2>3
<1> QED BY <1>1, <1>2

\* An event that answers no request.
LEMMA AnsweredAdvance ==
  ASSUME NEW items \in Seq(ItemType), NEW events, NEW from \in Nat, NEW m \in Nat,
         Ordered(items, from, m), Answered(items, events, m),
         events[m + 1].kind # "permission_resolved"
  PROVE  Answered(items, events, m + 1)
<1> SUFFICES ASSUME NEW i \in DOMAIN items, items[i].kind = "permission"
             PROVE  /\ events[items[i].seq] = Event("permission_request", items[i].ref)
                    /\ items[i].done <=>
                         \E j \in items[i].seq + 1 .. m + 1 :
                           events[j] = Event("permission_resolved", items[i].ref)
  BY DEF Answered
<1>1. items[i].seq \in Nat /\ items[i].seq <= m
  BY ItemsFacts DEF Ordered
<1>2. events[m + 1] # Event("permission_resolved", items[i].ref)
  BY DEF Event
<1>3. \A j \in items[i].seq + 1 .. m + 1 :
        j = m + 1 \/ j \in items[i].seq + 1 .. m
  BY <1>1
<1>4. items[i].seq + 1 .. m \subseteq items[i].seq + 1 .. m + 1
  BY <1>1
<1> QED BY <1>2, <1>3, <1>4 DEF Answered

\* An event that is no text.
LEMMA CoveredAdvance ==
  ASSUME NEW items, NEW full, NEW events, NEW from \in Nat, NEW m \in Nat, from <= m,
         Covered(items, full, events, from, m), events[m + 1].kind # "text_delta"
  PROVE  Covered(items, full, events, from, m + 1)
<1>1. \A n \in from + 1 .. m + 1 : n = m + 1 \/ n \in from + 1 .. m
  OBVIOUS
<1> QED BY <1>1 DEF Covered

\* An event that is no call of a tool.
LEMMA NestedAdvance ==
  ASSUME NEW tools, NEW events, NEW m \in Nat, \A t \in tools : t.seq \in 1 .. m,
         Nested(tools, events, m),
         events[m + 1].kind \notin {"tool_call_start", "tool_call_end"}
  PROVE  Nested(tools, events, m + 1)
<1>1. \A v : /\ events[m + 1] # Event("tool_call_start", v)
             /\ events[m + 1] # Event("tool_call_end", v)
  BY DEF Event
<1> QED BY <1>1, CallKept DEF Nested

\* Where the tools are.
LEMMA ToolsFacts ==
  ASSUME NEW items \in Seq(ItemType), NEW from \in Nat, NEW m \in Nat, Ordered(items, from, m)
  PROVE  \A t \in Tools(items) : t.seq \in 1 .. m /\ t.seq \in Nat /\ t.seq <= m
<1> SUFFICES ASSUME NEW i \in DOMAIN items PROVE items[i].seq \in 1 .. m
  BY DEF Tools
<1> QED BY ItemsFacts DEF Ordered

-----------------------------------------------------------------------------
(* What the operators do to the parts of Stream: items marked done *)

\* Marking items done changes neither their order nor their texts.
LEMMA MarkedKeeps ==
  ASSUME NEW items, NEW new, NEW full, NEW events, NEW from, NEW m, Marked(items, new)
  PROVE  /\ Ordered(items, from, m) => Ordered(new, from, m)
         /\ Written(items, events, from, m) => Written(new, events, from, m)
         /\ Unmixed(items, events, from, m) => Unmixed(new, events, from, m)
         /\ Covered(items, full, events, from, m) => Covered(new, full, events, from, m)
<1> USE DEF Marked
<1>1. Ordered(items, from, m) => Ordered(new, from, m)
  BY DEF Ordered
<1>2. Written(items, events, from, m) => Written(new, events, from, m)
  BY DEF Written
<1>3. Unmixed(items, events, from, m) => Unmixed(new, events, from, m)
  BY DEF Unmixed
<1>4. ASSUME NEW n, Cut(items, n)
      PROVE  Cut(new, n)
  BY <1>4 DEF Cut
<1>5. ASSUME NEW n, Wrote(items, n)
      PROVE  Wrote(new, n)
  BY <1>5 DEF Wrote
<1>6. ASSUME NEW n, Above(items, full, n)
      PROVE  Above(new, full, n)
  <2>1. items # <<>> /\ 1 \in DOMAIN items
    BY <1>6 DEF Above
  <2> QED BY <1>6, <2>1 DEF Above
<1>7. Covered(items, full, events, from, m) => Covered(new, full, events, from, m)
  BY <1>4, <1>5, <1>6 DEF Covered
<1> QED BY <1>1, <1>2, <1>3, <1>7

\* Marking other items than requests.
LEMMA MarkedAnswers ==
  ASSUME NEW items, NEW new, NEW events, NEW m, Marked(items, new),
         \A i \in DOMAIN items : items[i].kind = "permission" => new[i] = items[i],
         Answered(items, events, m)
  PROVE  Answered(new, events, m)
BY DEF Marked, Answered

\* Marking other items than tools.
LEMMA MarkedTools ==
  ASSUME NEW items, NEW new, Marked(items, new),
         \A i \in DOMAIN items : items[i].kind = "tool" => new[i] = items[i]
  PROVE  Tools(new) = Tools(items)
<1>1. \A i \in DOMAIN items : new[i].kind = items[i].kind
  BY DEF Marked
<1>2. DOMAIN new = DOMAIN items
  BY DEF Marked
<1> QED BY <1>1, <1>2 DEF Tools

-----------------------------------------------------------------------------
(* What the operators do to the parts of Stream: an item more *)

\* Where an item more is, and where the others are.
LEMMA AddedFacts ==
  ASSUME NEW items \in Seq(ItemType), NEW new, NEW x, Added(items, new, x)
  PROVE  /\ new \in Seq(ItemType) /\ Len(items) \in Nat
         /\ DOMAIN items = 1 .. Len(items) /\ Len(new) = Len(items) + 1
         /\ \A i \in DOMAIN new :
              \/ i \in DOMAIN items /\ i < Len(new) /\ new[i] = items[i]
              \/ i = Len(items) + 1 /\ i = Len(new) /\ new[i] = x
         /\ \A i \in DOMAIN items : i \in DOMAIN new /\ new[i] = items[i] /\ i < Len(new)
         /\ Len(new) \in DOMAIN new /\ new[Len(new)] = x
<1>1. PICK l \in Nat : l = Len(items)
  OBVIOUS
<1>2. DOMAIN items = 1 .. l /\ Len(new) = l + 1 /\ DOMAIN new = 1 .. (l + 1)
      /\ new \in Seq(ItemType) /\ new[l + 1] = x
      /\ \A i \in 1 .. l : new[i] = items[i]
  BY <1>1 DEF Added
<1>3. \A i \in 1 .. (l + 1) : i = l + 1 \/ (i \in 1 .. l /\ i < l + 1)
  OBVIOUS
<1>4. \A i \in 1 .. l : i \in 1 .. (l + 1) /\ i < l + 1
  OBVIOUS
<1>5. l + 1 \in 1 .. (l + 1)
  OBVIOUS
<1> QED BY <1>1, <1>2, <1>3, <1>4, <1>5

\* The item of an event comes after all others.
LEMMA OrderedAdd ==
  ASSUME NEW items \in Seq(ItemType), NEW new, NEW x \in ItemType, Added(items, new, x),
         NEW from \in Nat, NEW m \in Nat, from <= m, x.seq = m + 1, Ordered(items, from, m)
  PROVE  Ordered(new, from, m + 1)
<1> SUFFICES ASSUME NEW i \in DOMAIN new
             PROVE  /\ from < new[i].seq /\ new[i].seq <= m + 1
                    /\ \A j \in DOMAIN new : i < j => new[i].seq < new[j].seq
  BY DEF Ordered
<1>1. \A k \in DOMAIN items :
        /\ items[k].seq \in Nat /\ from < items[k].seq /\ items[k].seq <= m
        /\ \A j \in DOMAIN items : k < j => items[k].seq < items[j].seq
  BY ItemsFacts DEF Ordered
<1>2. CASE i \in DOMAIN items
  <2>1. ASSUME NEW j \in DOMAIN new, i < j
        PROVE  new[i].seq < new[j].seq
    <3>1. CASE j \in DOMAIN items
      BY <1>1, <1>2, <2>1, <3>1, AddedFacts
    <3>2. CASE j \notin DOMAIN items
      <4>1. new[j].seq = m + 1 /\ new[i] = items[i]
        BY <1>2, <3>2, AddedFacts
      <4> QED BY <1>1, <1>2, <4>1
    <3> QED BY <3>1, <3>2
  <2>2. new[i] = items[i]
    BY <1>2, AddedFacts
  <2> QED BY <1>1, <1>2, <2>1, <2>2
<1>3. CASE i \notin DOMAIN items
  <2>1. new[i] = x /\ i = Len(new)
    BY <1>3, AddedFacts
  <2>2. \A j \in DOMAIN new : ~(i < j)
    <3>1. new \in Seq(ItemType)
      BY AddedFacts
    <3>2. PICK l \in Nat : l = Len(new)
      BY <3>1
    <3>3. DOMAIN new = 1 .. l
      BY <3>1, <3>2
    <3> QED BY <2>1, <3>2, <3>3
  <2> QED BY <2>1, <2>2
<1> QED BY <1>2, <1>3

\* The texts before an item are older than it; its own is its event's.
LEMMA WrittenAdd ==
  ASSUME NEW items \in Seq(ItemType), NEW new, NEW x \in ItemType, Added(items, new, x),
         NEW events, NEW from \in Nat, NEW m \in Nat, from <= m, x.seq = m + 1,
         Written(items, events, from, m),
         IF x.kind = "assistant"
         THEN x.text = <<m + 1>> /\ events[m + 1].kind = "text_delta"
         ELSE x.text = <<>>
  PROVE  Written(new, events, from, m + 1)
<1> SUFFICES ASSUME NEW i \in DOMAIN new
             PROVE  /\ new[i].kind # "assistant" => new[i].text = <<>>
                    /\ new[i].kind = "assistant" =>
                         new[i].text # <<>> /\ new[i].text[1] = new[i].seq
                    /\ \A a \in DOMAIN new[i].text :
                         /\ from < new[i].text[a] /\ new[i].text[a] <= m + 1
                         /\ events[new[i].text[a]].kind = "text_delta"
                         /\ \A b \in DOMAIN new[i].text : a < b => new[i].text[a] < new[i].text[b]
                         /\ \A j \in DOMAIN new : i < j => new[i].text[a] < new[j].seq
  BY DEF Written
<1>1. CASE i \in DOMAIN items
  <2>1. new[i] = items[i]
    BY <1>1, AddedFacts
  <2>2. ASSUME NEW a \in DOMAIN items[i].text, NEW j \in DOMAIN new, i < j
        PROVE  items[i].text[a] < new[j].seq
    <3>1. CASE j \in DOMAIN items
      <4>1. new[j] = items[j]
        BY <3>1, AddedFacts
      <4> QED BY <1>1, <2>2, <3>1, <4>1 DEF Written
    <3>2. CASE j \notin DOMAIN items
      <4>1. new[j].seq = m + 1
        BY <3>2, AddedFacts
      <4>2. items[i].text[a] \in Nat /\ items[i].text[a] <= m
        BY <1>1, ItemsFacts DEF Written
      <4> QED BY <4>1, <4>2
    <3> QED BY <3>1, <3>2
  <2>3. \A a \in DOMAIN items[i].text :
          /\ from < items[i].text[a] /\ items[i].text[a] <= m + 1
          /\ events[items[i].text[a]].kind = "text_delta"
          /\ \A b \in DOMAIN items[i].text : a < b => items[i].text[a] < items[i].text[b]
    BY <1>1, ItemsFacts DEF Written
  <2>4. /\ items[i].kind # "assistant" => items[i].text = <<>>
        /\ items[i].kind = "assistant" => items[i].text # <<>> /\ items[i].text[1] = items[i].seq
    BY <1>1 DEF Written
  <2> QED BY <2>1, <2>2, <2>3, <2>4
<1>2. CASE i \notin DOMAIN items
  <2>1. new[i] = x /\ i = Len(new)
    BY <1>2, AddedFacts
  <2>2. \A j \in DOMAIN new : ~(i < j)
    <3>1. new \in Seq(ItemType)
      BY AddedFacts
    <3>2. PICK l \in Nat : l = Len(new)
      BY <3>1
    <3>3. DOMAIN new = 1 .. l
      BY <3>1, <3>2
    <3> QED BY <2>1, <3>2, <3>3
  <2>3. CASE x.kind = "assistant"
    <3>1. DOMAIN x.text = {1} /\ x.text[1] = m + 1 /\ x.text # <<>>
          /\ events[m + 1].kind = "text_delta"
      BY <2>3
    <3> QED BY <2>1, <2>2, <2>3, <3>1
  <2>4. CASE x.kind # "assistant"
    <3>1. DOMAIN x.text = {}
      BY <2>4
    <3> QED BY <2>1, <2>2, <2>4, <3>1
  <2> QED BY <2>3, <2>4
<1> QED BY <1>1, <1>2

\* A new item starts after every end of a turn so far.
LEMMA UnmixedAdd ==
  ASSUME NEW items \in Seq(ItemType), NEW new, NEW x \in ItemType, Added(items, new, x),
         NEW events, NEW from \in Nat, NEW m \in Nat, from <= m, x.seq = m + 1,
         Unmixed(items, events, from, m + 1),
         x.kind = "assistant" => events[m + 1].kind \notin Ends
  PROVE  Unmixed(new, events, from, m + 1)
<1> SUFFICES ASSUME NEW i \in DOMAIN new, new[i].kind = "assistant",
                    NEW n \in from + 1 .. m + 1, events[n].kind \in Ends
             PROVE  \/ n < new[i].seq
                    \/ /\ \A a \in DOMAIN new[i].text : new[i].text[a] < n
                       /\ i < Len(new) \/ new[i].done
  BY DEF Unmixed
<1>1. CASE i \in DOMAIN items
  <2>1. new[i] = items[i] /\ i < Len(new)
    BY <1>1, AddedFacts
  <2> QED BY <1>1, <2>1 DEF Unmixed
<1>2. CASE i \notin DOMAIN items
  <2>1. new[i] = x
    BY <1>2, AddedFacts
  <2>2. n # m + 1
    BY <2>1
  <2> QED BY <2>1, <2>2
<1> QED BY <1>1, <1>2

\* A new request is that of the event, and open.
LEMMA AnsweredAdd ==
  ASSUME NEW items \in Seq(ItemType), NEW new, NEW x \in ItemType, Added(items, new, x),
         NEW events, NEW m \in Nat, x.seq = m + 1,
         Answered(items, events, m + 1),
         x.kind = "permission" =>
           ~x.done /\ events[m + 1] = Event("permission_request", x.ref)
  PROVE  Answered(new, events, m + 1)
<1> SUFFICES ASSUME NEW i \in DOMAIN new, new[i].kind = "permission"
             PROVE  /\ events[new[i].seq] = Event("permission_request", new[i].ref)
                    /\ new[i].done <=>
                         \E j \in new[i].seq + 1 .. m + 1 :
                           events[j] = Event("permission_resolved", new[i].ref)
  BY DEF Answered
<1>1. CASE i \in DOMAIN items
  <2>1. new[i] = items[i]
    BY <1>1, AddedFacts
  <2> QED BY <1>1, <2>1 DEF Answered
<1>2. CASE i \notin DOMAIN items
  <2>1. new[i] = x
    BY <1>2, AddedFacts
  <2>2. ~\E j \in x.seq + 1 .. m + 1 : TRUE
    OBVIOUS
  <2> QED BY <2>1, <2>2
<1> QED BY <1>1, <1>2

\* A text is covered by its own item, and the others as before.
LEMMA CoveredAdd ==
  ASSUME NEW items \in Seq(ItemType), NEW new, NEW x \in ItemType, Added(items, new, x),
         NEW full, NEW events, NEW from \in Nat, NEW m \in Nat, from <= m, x.seq = m + 1,
         Covered(items, full, events, from, m),
         events[m + 1].kind = "text_delta" => x.text = <<m + 1>>
  PROVE  Covered(new, full, events, from, m + 1)
<1> SUFFICES ASSUME NEW n \in from + 1 .. m + 1, events[n].kind = "text_delta"
             PROVE  Above(new, full, n) \/ Wrote(new, n) \/ Cut(new, n)
  BY DEF Covered
<1>1. CASE n = m + 1
  <2>1. Len(new) \in DOMAIN new /\ new[Len(new)] = x
    BY AddedFacts
  <2>2. 1 \in DOMAIN x.text /\ x.text[1] = n
    BY <1>1
  <2>3. Wrote(new, n)
    BY <2>1, <2>2 DEF Wrote
  <2> QED BY <2>3
<1>2. CASE n # m + 1
  <2>1. n \in from + 1 .. m
    BY <1>2
  <2>2. Above(items, full, n) \/ Wrote(items, n) \/ Cut(items, n)
    BY <2>1 DEF Covered
  <2>3. CASE Above(items, full, n)
    <3>1. 1 \in DOMAIN items
      BY <2>3 DEF Above
    <3>2. 1 \in DOMAIN new /\ new[1] = items[1]
      BY <3>1, AddedFacts
    <3>3. new # <<>>
      BY <3>2
    <3> QED BY <2>3, <3>2, <3>3 DEF Above
  <2>4. CASE Wrote(items, n)
    <3>1. Wrote(new, n)
      BY <2>4, AddedFacts DEF Wrote
    <3> QED BY <3>1
  <2>5. CASE Cut(items, n)
    <3>1. PICK i \in DOMAIN items :
            /\ items[i].kind = "assistant"
            /\ Len(items[i].text) >= Kept /\ items[i].text[Kept] < n
            /\ \A j \in DOMAIN items : i < j => n < items[j].seq
      BY <2>5 DEF Cut
    <3>2. i \in DOMAIN new /\ new[i] = items[i]
      BY AddedFacts
    <3>3. ASSUME NEW j \in DOMAIN new, i < j
          PROVE  n < new[j].seq
      <4>1. CASE j \in DOMAIN items
        BY <3>1, <3>3, <4>1, AddedFacts
      <4>2. CASE j \notin DOMAIN items
        <5>1. new[j].seq = m + 1
          BY <4>2, AddedFacts
        <5> QED BY <2>1, <5>1
      <4> QED BY <4>1, <4>2
    <3>4. Cut(new, n)
      BY <3>1, <3>2, <3>3 DEF Cut
    <3> QED BY <3>4
  <2> QED BY <2>2, <2>3, <2>4, <2>5
<1> QED BY <1>1, <1>2

\* An item more is a tool more, or none.
LEMMA ToolsAdd ==
  ASSUME NEW items \in Seq(ItemType), NEW new, NEW x, Added(items, new, x)
  PROVE  /\ x.kind = "tool" => Tools(new) = Tools(items) \cup {x}
         /\ x.kind # "tool" => Tools(new) = Tools(items)
<1>1. \A i \in DOMAIN new : (i \in DOMAIN items /\ new[i] = items[i]) \/ new[i] = x
  BY AddedFacts
<1>2. \A i \in DOMAIN items : i \in DOMAIN new /\ new[i] = items[i]
  BY AddedFacts
<1>3. Len(new) \in DOMAIN new /\ new[Len(new)] = x
  BY AddedFacts
<1>4. ASSUME NEW t \in Tools(new) PROVE t \in Tools(items) \/ (t = x /\ x.kind = "tool")
  BY <1>1 DEF Tools
<1>5. ASSUME NEW t \in Tools(items) PROVE t \in Tools(new)
  BY <1>2 DEF Tools
<1>6. x.kind = "tool" => x \in Tools(new)
  BY <1>3 DEF Tools
<1> QED BY <1>4, <1>5, <1>6

\* The new item x is a call that starts, an end that no call waited for, or
\* neither it nor the event is about a call.
AddsCall(items, x, e) ==
  /\ x.kind = "tool" <=> e.kind \in {"tool_call_start", "tool_call_end"}
  /\ x.kind = "tool" /\ ~x.done => e = Event("tool_call_start", x.ref)
  /\ x.kind = "tool" /\ x.done => e = Event("tool_call_end", x.ref) /\ Unfinished(items, x.ref) = {}

\* A new item keeps the calls right.
LEMMA NestedAdd ==
  ASSUME NEW items \in Seq(ItemType), NEW new, NEW x \in ItemType, Added(items, new, x),
         NEW events, NEW from \in Nat, NEW m \in Nat, Ordered(items, from, m),
         Nested(Tools(items), events, m), x.seq = m + 1, AddsCall(items, x, events[m + 1])
  PROVE  Nested(Tools(new), events, m + 1)
<1> USE DEF AddsCall
<1>1. \A t \in Tools(items) : t.seq \in 1 .. m /\ t.seq \in Nat /\ t.seq <= m
  BY ToolsFacts
<1>2. CASE x.kind # "tool"
  <2>1. Tools(new) = Tools(items)
    BY <1>2, ToolsAdd
  <2> QED BY <1>1, <1>2, <2>1, NestedAdvance
<1>3. CASE x.kind = "tool"
  <2>1. Tools(new) = Tools(items) \cup {x}
    BY <1>3, ToolsAdd
  <2>2. \A t \in Tools(new) : t.seq \in Nat /\ t.seq <= m + 1
    BY <1>1, <2>1
  <2>3. CallRight(x, Tools(new), events, m + 1)
    <3>1. IF x.done THEN events[m + 1].kind # "tool_call_start"
          ELSE events[m + 1] = Event("tool_call_start", x.ref)
      BY <1>3 DEF Event
    <3> QED BY <2>2, <3>1, NewCall
  <2>4. ASSUME NEW t \in Tools(items) PROVE CallRight(t, Tools(new), events, m + 1)
    <3>0. CallRight(t, Tools(items), events, m)
      BY DEF Nested
    <3>1. CASE t.done
      BY <1>1, <3>0, <3>1, CallKept
    <3>2. CASE ~t.done /\ t.ref # x.ref
      <4>1. Waiting(Tools(new), t.ref, t.seq) = Waiting(Tools(items), t.ref, t.seq)
        BY <2>1, <3>2 DEF Waiting
      <4>2. /\ events[m + 1] # Event("tool_call_start", t.ref)
            /\ events[m + 1] # Event("tool_call_end", t.ref)
        BY <1>3, <3>2 DEF Event
      <4> QED BY <1>1, <3>0, <4>1, <4>2, CallKept
    <3>3. CASE ~t.done /\ t.ref = x.ref /\ ~x.done
      <4>1. Waiting(Tools(new), t.ref, t.seq) = Waiting(Tools(items), t.ref, t.seq) \cup {m + 1}
        <5>1. t.seq < m + 1 /\ m + 1 \in Nat
          BY <1>1
        <5> QED BY <2>1, <3>3, <5>1 DEF Waiting
      <4>2. events[m + 1] = Event("tool_call_start", t.ref)
        BY <1>3, <3>3
      <4> QED BY <1>1, <3>0, <3>3, <4>1, <4>2, CallStarts
    <3>4. CASE ~t.done /\ t.ref = x.ref /\ x.done
      <4>1. PICK i \in DOMAIN items : items[i].kind = "tool" /\ t = items[i]
        BY DEF Tools
      <4>2. i \in Unfinished(items, x.ref)
        BY <3>4, <4>1 DEF Unfinished
      <4> QED BY <1>3, <3>4, <4>2
    <3> QED BY <3>1, <3>2, <3>3, <3>4
  <2> QED BY <2>1, <2>3, <2>4 DEF Nested
<1> QED BY <1>2, <1>3

\* The last call of a name that waits is done.
LEMMA NestedFinish ==
  ASSUME NEW items \in Seq(ItemType), NEW new, NEW k \in DOMAIN items, NEW name,
         k \in Unfinished(items, name), \A j \in Unfinished(items, name) : j <= k,
         DOMAIN new = DOMAIN items, new[k] = [items[k] EXCEPT !.done = TRUE],
         \A i \in DOMAIN items : i # k => new[i] = items[i],
         NEW events, NEW from \in Nat, NEW m \in Nat, Ordered(items, from, m),
         Nested(Tools(items), events, m), events[m + 1] = Event("tool_call_end", name)
  PROVE  Nested(Tools(new), events, m + 1)
<1> DEFINE q == items[k].seq
<1>1. \A t \in Tools(items) : t.seq \in 1 .. m /\ t.seq \in Nat /\ t.seq <= m
  BY ToolsFacts
<1>2. /\ items[k] \in ItemType /\ items[k].kind = "tool" /\ ~items[k].done
      /\ items[k].ref = name /\ items[k] \in Tools(items)
  BY DEF Unfinished, Tools
<1>3. new[k].kind = "tool" /\ new[k].seq = q /\ new[k].ref = name /\ new[k].done
  BY <1>2, ItemFacts
<1>4. \A i, j \in DOMAIN items : i < j => items[i].seq < items[j].seq
  BY DEF Ordered
<1>5. /\ DOMAIN items \subseteq Nat /\ k \in Nat
      /\ \A i \in DOMAIN items : items[i].seq \in Nat
  BY ItemsFacts
<1>6. ASSUME NEW v, NEW n \in Nat
      PROVE  /\ v = name => Waiting(Tools(new), v, n) = Waiting(Tools(items), v, n) \ {q}
             /\ v # name => Waiting(Tools(new), v, n) = Waiting(Tools(items), v, n)
  <2>1. ASSUME NEW p \in Nat, NEW t \in Tools(new), t.seq = p, t.ref = v, ~t.done
        PROVE  /\ \E u \in Tools(items) : u.seq = p /\ u.ref = v /\ ~u.done
               /\ v = name => p # q
    <3>1. PICK i \in DOMAIN new : new[i].kind = "tool" /\ t = new[i]
      BY DEF Tools
    <3>2. i # k /\ new[i] = items[i]
      BY <1>3, <2>1, <3>1
    <3>3. items[i].seq # q
      BY <1>4, <1>5, <3>2
    <3>4. t \in Tools(items)
      BY <3>1, <3>2 DEF Tools
    <3> QED BY <2>1, <3>1, <3>2, <3>3, <3>4
  <2>2. ASSUME NEW p \in Nat, NEW t \in Tools(items), t.seq = p, t.ref = v, ~t.done,
               v = name => p # q
        PROVE  \E u \in Tools(new) : u.seq = p /\ u.ref = v /\ ~u.done
    <3>1. PICK i \in DOMAIN items : items[i].kind = "tool" /\ t = items[i]
      BY DEF Tools
    <3>2. i # k
      BY <1>2, <2>2, <3>1
    <3>3. new[i] = items[i]
      BY <3>2
    <3>4. t \in Tools(new)
      BY <3>1, <3>3 DEF Tools
    <3> QED BY <2>2, <3>4
  <2>3. ASSUME NEW p \in Nat, p \in Waiting(Tools(new), v, n)
        PROVE  p \in Waiting(Tools(items), v, n) /\ (v = name => p # q)
    BY <2>1, <2>3 DEF Waiting
  <2>4. ASSUME NEW p \in Nat, p \in Waiting(Tools(items), v, n), v = name => p # q
        PROVE  p \in Waiting(Tools(new), v, n)
    BY <2>2, <2>4 DEF Waiting
  <2>5. \A u, w : Waiting(u, v, w) \subseteq Nat
    BY DEF Waiting
  <2> QED BY <2>3, <2>4, <2>5
<1>7. Waiting(Tools(items), name, q) = {}
  <2> SUFFICES ASSUME NEW p \in Waiting(Tools(items), name, q) PROVE FALSE
    OBVIOUS
  <2>1. p > q /\ \E t \in Tools(items) : t.seq = p /\ t.ref = name /\ ~t.done
    BY DEF Waiting
  <2>2. PICK i \in DOMAIN items :
          items[i].kind = "tool" /\ items[i].seq = p /\ items[i].ref = name /\ ~items[i].done
    BY <2>1 DEF Tools
  <2>3. i \in Unfinished(items, name)
    BY <2>2 DEF Unfinished
  <2>4. i <= k
    BY <2>3
  <2>5. i = k \/ i < k
    BY <1>5, <2>4
  <2>6. items[i].seq <= q
    BY <1>4, <1>5, <2>5
  <2> QED BY <1>5, <2>1, <2>2, <2>6
<1> SUFFICES ASSUME NEW i \in DOMAIN new, new[i].kind = "tool"
             PROVE  CallRight(new[i], Tools(new), events, m + 1)
  BY DEF Nested, Tools
<1>8. CASE i = k
  <2>1. CallRight(items[k], Tools(items), events, m) /\ items[k].seq \in 1 .. m
    BY <1>1, <1>2 DEF Nested
  <2> QED BY <1>2, <1>3, <1>7, <1>8, <2>1, LastEnds
<1>9. CASE i # k
  <2>1. new[i] = items[i] /\ items[i] \in Tools(items)
    BY <1>9 DEF Tools
  <2> DEFINE t == items[i]
  <2>2. CallRight(t, Tools(items), events, m) /\ t.seq \in 1 .. m /\ t.seq \in Nat
    BY <1>1, <2>1 DEF Nested
  <2>3. CASE t.done
    BY <2>1, <2>2, <2>3, CallKept
  <2>4. CASE ~t.done /\ t.ref # name
    <3>1. Waiting(Tools(new), t.ref, t.seq) = Waiting(Tools(items), t.ref, t.seq)
      BY <1>6, <2>2, <2>4
    <3>2. /\ events[m + 1] # Event("tool_call_start", t.ref)
          /\ events[m + 1] # Event("tool_call_end", t.ref)
      BY <2>4 DEF Event
    <3> QED BY <2>1, <2>2, <3>1, <3>2, CallKept
  <2>5. CASE ~t.done /\ t.ref = name
    <3>1. Waiting(Tools(new), t.ref, t.seq) = Waiting(Tools(items), t.ref, t.seq) \ {q}
      BY <1>6, <2>2, <2>5
    <3>2. i \in Unfinished(items, name)
      BY <2>1, <2>5 DEF Unfinished
    <3>3. i < k
      <4>1. i <= k /\ i \in Nat
        BY <1>5, <3>2
      <4> QED BY <1>5, <1>9, <4>1
    <3>4. q > t.seq /\ q \in Nat
      BY <1>4, <1>5, <3>3
    <3>5. q \in Waiting(Tools(items), t.ref, t.seq)
      BY <1>2, <2>5, <3>4 DEF Waiting
    <3>6. events[m + 1] = Event("tool_call_end", t.ref)
      BY <2>5
    <3> HIDE DEF q, t
    <3>7. CallRight(t, Tools(new), events, m + 1)
      BY <1>1, <2>2, <2>5, <3>1, <3>5, <3>6, LaterEnds
    <3> QED BY <2>1, <3>7 DEF t
  <2> QED BY <2>3, <2>4, <2>5
<1> QED BY <1>8, <1>9

-----------------------------------------------------------------------------
(* What the operators do to the parts of Stream: a text that goes on *)

\* What the text of the last item becomes.
LEMMA ExtendedFacts ==
  ASSUME NEW items \in Seq(ItemType), NEW new, NEW n \in Nat, Extended(items, new, n),
         \A i \in DOMAIN items : Len(items[i].text) <= MaxText
  PROVE  LET k == Len(items)
             old == items[k].text
             text == new[k].text
         IN  /\ k \in DOMAIN items /\ DOMAIN new = DOMAIN items
             /\ \A i \in DOMAIN items : i <= k
             /\ Len(old) \in Nat /\ DOMAIN old = 1 .. Len(old)
             /\ Len(text) \in 1 .. MaxText /\ DOMAIN text = 1 .. Len(text)
             /\ \A a \in DOMAIN text :
                  \/ a \in DOMAIN old /\ text[a] = old[a]
                  \/ a = Len(old) + 1 /\ text[a] = n
             /\ \/ Len(text) = Len(old) + 1
                \/ Len(text) = Kept /\ Len(old) = MaxText
<1> DEFINE k == Len(items)
           old == items[k].text
           text == new[k].text
<1>1. k \in DOMAIN items /\ DOMAIN new = DOMAIN items
      /\ text = ClampText(Append(old, n))
  BY DEF Extended
<1>2. \A i \in DOMAIN items : i <= k
  OBVIOUS
<1>3. items[k] \in ItemType /\ Len(old) <= MaxText
  BY <1>1, ItemsFacts
<1>4. old \in Seq(Nat)
  BY <1>3, ItemFacts
<1> HIDE DEF k, old, text
<1>5. PICK l \in Nat : l = Len(old)
  BY <1>4
<1>6. PICK t : t = Append(old, n)
  OBVIOUS
<1>7. /\ t \in Seq(Nat) /\ Len(t) = l + 1 /\ DOMAIN old = 1 .. l /\ DOMAIN t = 1 .. (l + 1)
      /\ \A i \in DOMAIN old : t[i] = old[i]
      /\ t[l + 1] = n
  BY <1>4, <1>5, <1>6, AppendFacts
<1>8. MaxText \in Nat /\ l <= MaxText
  BY <1>3, <1>5, TranscriptAssumption
<1>9. t # <<>>
  <2>1. 1 \in DOMAIN t
    BY <1>7
  <2> QED BY <2>1
<1>10. Len(t) <= MaxText + 1
  BY <1>7, <1>8
<1>11. /\ DOMAIN text = 1 .. Len(text) /\ Len(text) \in 1 .. MaxText
       /\ Len(text) = IF Len(t) <= MaxText THEN Len(t) ELSE Kept
       /\ DOMAIN text \subseteq DOMAIN t /\ \A a \in DOMAIN text : text[a] = t[a]
  BY <1>1, <1>6, <1>7, <1>9, <1>10, ClampFacts
<1>12. \A a \in DOMAIN text :
         (a \in DOMAIN old /\ text[a] = old[a]) \/ (a = l + 1 /\ text[a] = n)
  <2>1. \A a \in 1 .. (l + 1) : a \in 1 .. l \/ a = l + 1
    OBVIOUS
  <2> QED BY <1>7, <1>11, <2>1
<1>13. Len(text) = l + 1 \/ (Len(text) = Kept /\ l = MaxText)
  <2>1. CASE Len(t) <= MaxText
    BY <1>7, <1>11, <2>1
  <2>2. CASE ~(Len(t) <= MaxText)
    <3>1. l = MaxText
      BY <1>7, <1>8, <2>2
    <3>2. Len(text) = Kept
      BY <1>11, <2>2
    <3> QED BY <3>1, <3>2
  <2> QED BY <2>1, <2>2
<1> QED BY <1>1, <1>2, <1>5, <1>7, <1>11, <1>12, <1>13 DEF k, old, text

\* A text that goes on leaves the order of the items.
LEMMA OrderedExtend ==
  ASSUME NEW items \in Seq(ItemType), NEW new, NEW n, Extended(items, new, n),
         NEW from, NEW m, Ordered(items, from, m)
  PROVE  Ordered(new, from, m)
<1>1. DOMAIN new = DOMAIN items /\ \A i \in DOMAIN items : new[i].seq = items[i].seq
  BY DEF Extended
<1> QED BY <1>1 DEF Ordered

\* The text that goes on stays in its order, and before no other item.
LEMMA WrittenExtend ==
  ASSUME NEW items \in Seq(ItemType), NEW new, NEW events, NEW from \in Nat, NEW m \in Nat,
         from <= m, Extended(items, new, m + 1),
         \A i \in DOMAIN items : Len(items[i].text) <= MaxText,
         Written(items, events, from, m), events[m + 1].kind = "text_delta"
  PROVE  Written(new, events, from, m + 1)
<1> DEFINE k == Len(items)
           old == items[k].text
           text == new[k].text
<1>1. /\ k \in DOMAIN items /\ DOMAIN new = DOMAIN items
      /\ \A i \in DOMAIN items : i <= k
      /\ Len(old) \in Nat /\ DOMAIN old = 1 .. Len(old)
      /\ Len(text) \in 1 .. MaxText /\ DOMAIN text = 1 .. Len(text)
      /\ \A a \in DOMAIN text :
           \/ a \in DOMAIN old /\ text[a] = old[a]
           \/ a = Len(old) + 1 /\ text[a] = m + 1
  BY ExtendedFacts
<1>2. /\ \A i \in DOMAIN items : new[i].seq = items[i].seq /\ new[i].kind = items[i].kind
      /\ \A i \in DOMAIN items : i # k => new[i].text = items[i].text
      /\ items[k].kind = "assistant"
  BY DEF Extended
<1>3. \A i \in DOMAIN items : \A a \in DOMAIN items[i].text :
        items[i].text[a] \in Nat /\ items[i].text[a] <= m
  BY ItemsFacts DEF Written
<1>4. k \in Nat /\ DOMAIN items = 1 .. k
  BY ItemsFacts
<1> HIDE DEF k, old, text
<1>5. old # <<>> /\ old[1] = items[k].seq
  BY <1>1, <1>2 DEF Written, old
<1> SUFFICES ASSUME NEW i \in DOMAIN new
             PROVE  /\ new[i].kind # "assistant" => new[i].text = <<>>
                    /\ new[i].kind = "assistant" =>
                         new[i].text # <<>> /\ new[i].text[1] = new[i].seq
                    /\ \A a \in DOMAIN new[i].text :
                         /\ from < new[i].text[a] /\ new[i].text[a] <= m + 1
                         /\ events[new[i].text[a]].kind = "text_delta"
                         /\ \A b \in DOMAIN new[i].text : a < b => new[i].text[a] < new[i].text[b]
                         /\ \A j \in DOMAIN new : i < j => new[i].text[a] < new[j].seq
  BY DEF Written
<1>6. CASE i # k
  <2>1. /\ i \in DOMAIN items /\ new[i].text = items[i].text
        /\ new[i].kind = items[i].kind /\ new[i].seq = items[i].seq
    BY <1>1, <1>2, <1>6
  <2>2. \A a \in DOMAIN items[i].text :
          /\ from < items[i].text[a] /\ items[i].text[a] <= m + 1
          /\ events[items[i].text[a]].kind = "text_delta"
          /\ \A b \in DOMAIN items[i].text : a < b => items[i].text[a] < items[i].text[b]
          /\ \A j \in DOMAIN items : i < j => items[i].text[a] < items[j].seq
    BY <1>3, <2>1 DEF Written
  <2>3. \A j \in DOMAIN new : j \in DOMAIN items /\ new[j].seq = items[j].seq
    BY <1>1, <1>2
  <2>4. /\ items[i].kind # "assistant" => items[i].text = <<>>
        /\ items[i].kind = "assistant" => items[i].text # <<>> /\ items[i].text[1] = items[i].seq
    BY <2>1 DEF Written
  <2> QED BY <2>1, <2>2, <2>3, <2>4
<1>7. CASE i = k
  <2>1. \A a \in DOMAIN old :
          /\ from < old[a] /\ old[a] <= m /\ old[a] \in Nat
          /\ events[old[a]].kind = "text_delta"
          /\ \A b \in DOMAIN old : a < b => old[a] < old[b]
    BY <1>1, <1>3 DEF Written, old
  <2>2. \A j \in DOMAIN new : ~(i < j)
    BY <1>1, <1>4, <1>7
  <2>3. 1 \in DOMAIN text /\ 1 \in DOMAIN old
    <3>1. 1 \in DOMAIN text
      BY <1>1, TranscriptAssumption
    <3>2. Len(old) # 0
      <4>1. old \in Seq(Nat)
        BY <1>1, ItemsFacts, ItemFacts DEF old
      <4> QED BY <1>5, <4>1
    <3> QED BY <1>1, <3>1, <3>2
  <2>4. text[1] = old[1] /\ text # <<>>
    <3>1. 1 # Len(old) + 1
      BY <1>1, <2>3
    <3> QED BY <1>1, <2>3, <3>1
  <2>5. ASSUME NEW a \in DOMAIN text
        PROVE  /\ from < text[a] /\ text[a] <= m + 1
               /\ events[text[a]].kind = "text_delta"
               /\ \A b \in DOMAIN text : a < b => text[a] < text[b]
    <3>1. CASE a \in DOMAIN old /\ text[a] = old[a]
      <4>1. ASSUME NEW b \in DOMAIN text, a < b
            PROVE  text[a] < text[b]
        <5>1. CASE b \in DOMAIN old /\ text[b] = old[b]
          BY <2>1, <3>1, <4>1, <5>1
        <5>2. CASE text[b] = m + 1
          BY <2>1, <3>1, <5>2
        <5> QED BY <1>1, <5>1, <5>2
      <4> QED BY <2>1, <3>1, <4>1
    <3>2. CASE a = Len(old) + 1 /\ text[a] = m + 1
      <4>1. \A b \in DOMAIN text : ~(a < b)
        <5>1. PICK o \in Nat : o = Len(old)
          BY <1>1
        <5>2. \A b \in DOMAIN text : b \in Nat /\ (b \in 1 .. o \/ b = o + 1)
          BY <1>1, <5>1
        <5> QED BY <3>2, <5>1, <5>2
      <4> QED BY <3>2, <4>1
    <3> QED BY <1>1, <3>1, <3>2
  <2>6. new[i].text = text /\ new[i].kind = "assistant" /\ new[i].seq = items[k].seq
    BY <1>1, <1>2, <1>7 DEF text
  <2> QED BY <1>5, <2>2, <2>4, <2>5, <2>6
<1> QED BY <1>6, <1>7

\* The turn of an open assistant's item has not ended.
LEMMA UnmixedExtend ==
  ASSUME NEW items \in Seq(ItemType), NEW new, NEW events, NEW from \in Nat, NEW m \in Nat,
         from <= m, Extended(items, new, m + 1),
         Unmixed(items, events, from, m), events[m + 1].kind \notin Ends
  PROVE  Unmixed(new, events, from, m + 1)
<1> SUFFICES ASSUME NEW i \in DOMAIN new, new[i].kind = "assistant",
                    NEW n \in from + 1 .. m + 1, events[n].kind \in Ends
             PROVE  \/ n < new[i].seq
                    \/ /\ \A a \in DOMAIN new[i].text : new[i].text[a] < n
                       /\ i < Len(new) \/ new[i].done
  BY DEF Unmixed
<1>1. n \in from + 1 .. m
  <2>1. n # m + 1
    OBVIOUS
  <2> QED BY <2>1
<1>2. i \in DOMAIN items /\ Len(new) = Len(items) /\ Len(items) \in DOMAIN items
  BY DEF Extended
<1>3. CASE i = Len(items)
  <2>1. ~(i < Len(items)) /\ ~items[i].done
    BY <1>3 DEF Extended
  <2>2. items[i].kind = "assistant" /\ new[i].seq = items[i].seq
    BY <1>3 DEF Extended
  <2>3. n < items[i].seq
    BY <1>1, <1>2, <2>1, <2>2 DEF Unmixed
  <2> QED BY <2>2, <2>3
<1>4. CASE i # Len(items)
  <2>1. new[i] = items[i]
    BY <1>2, <1>4 DEF Extended
  <2> QED BY <1>1, <1>2, <2>1 DEF Unmixed
<1> QED BY <1>3, <1>4

\* A text that goes on leaves the requests.
LEMMA AnsweredExtend ==
  ASSUME NEW items \in Seq(ItemType), NEW new, NEW n, Extended(items, new, n),
         NEW events, NEW m, Answered(items, events, m)
  PROVE  Answered(new, events, m)
<1>1. \A i \in DOMAIN new : new[i].kind = "permission" => i \in DOMAIN items /\ new[i] = items[i]
  BY DEF Extended
<1> QED BY <1>1 DEF Answered

\* A text that goes on leaves the tools.
LEMMA ToolsExtend ==
  ASSUME NEW items \in Seq(ItemType), NEW new, NEW n, Extended(items, new, n)
  PROVE  Tools(new) = Tools(items)
<1>1. \A i \in DOMAIN items :
        \/ new[i] = items[i]
        \/ new[i].kind = "assistant" /\ items[i].kind = "assistant"
  BY DEF Extended
<1>2. DOMAIN new = DOMAIN items
  BY DEF Extended
<1> QED BY <1>1, <1>2 DEF Tools

\* A text that goes on is covered, cut or not, and so is all that was.
LEMMA CoveredExtend ==
  ASSUME NEW items \in Seq(ItemType), NEW new, NEW full, NEW events,
         NEW from \in Nat, NEW m \in Nat, from <= m, Extended(items, new, m + 1),
         \A i \in DOMAIN items : Len(items[i].text) <= MaxText,
         Written(items, events, from, m), Covered(items, full, events, from, m)
  PROVE  Covered(new, full, events, from, m + 1)
<1> DEFINE k == Len(items)
           old == items[k].text
           text == new[k].text
<1>1. /\ k \in DOMAIN items /\ DOMAIN new = DOMAIN items
      /\ \A i \in DOMAIN items : i <= k
      /\ Len(old) \in Nat /\ DOMAIN old = 1 .. Len(old)
      /\ Len(text) \in 1 .. MaxText /\ DOMAIN text = 1 .. Len(text)
      /\ \A a \in DOMAIN text :
           \/ a \in DOMAIN old /\ text[a] = old[a]
           \/ a = Len(old) + 1 /\ text[a] = m + 1
      /\ Len(text) = Len(old) + 1 \/ (Len(text) = Kept /\ Len(old) = MaxText)
  BY ExtendedFacts
<1>2. /\ \A i \in DOMAIN items : new[i].seq = items[i].seq /\ new[i].kind = items[i].kind
      /\ \A i \in DOMAIN items : i # k => new[i].text = items[i].text
      /\ items[k].kind = "assistant" /\ new[k].kind = "assistant"
  BY DEF Extended
<1>3. k \in Nat /\ DOMAIN items = 1 .. k /\ items # <<>> /\ new # <<>> /\ 1 \in DOMAIN items
  <2>1. k \in Nat /\ DOMAIN items = 1 .. k
    BY ItemsFacts
  <2>2. 1 \in DOMAIN items
    BY <1>1, <2>1
  <2>3. 1 \in DOMAIN new
    BY <1>1, <2>2
  <2> QED BY <2>1, <2>2, <2>3
<1>4. PICK o \in Nat : o = Len(old)
  BY <1>1
<1>5. Kept \in Nat /\ 1 <= Kept /\ Kept <= MaxText /\ MaxText \in Nat
  BY KeptFacts, TranscriptAssumption
<1>6. \A a \in DOMAIN old : old[a] \in Nat /\ old[a] <= m
      /\ \A b \in DOMAIN old : a < b => old[a] < old[b]
  BY <1>1, ItemsFacts DEF Written, old
<1>7. \A j \in DOMAIN new : ~(k < j)
  BY <1>1, <1>3
<1> HIDE DEF k, old, text
<1>p. PICK p \in Nat : p = Len(text)
  <2>1. Len(text) \in 1 .. MaxText
    BY <1>1
  <2>2. Len(text) \in Nat
    BY <1>5, <2>1
  <2> QED BY <2>2
<1>d. /\ DOMAIN old = 1 .. o /\ DOMAIN text = 1 .. p /\ 1 <= p /\ p <= MaxText
      /\ p = o + 1 \/ (p = Kept /\ o = MaxText)
      /\ Kept \in Nat /\ 1 <= Kept /\ Kept <= MaxText /\ MaxText \in Nat
  <2>1. DOMAIN old = 1 .. o /\ DOMAIN text = 1 .. p
    BY <1>1, <1>4, <1>p
  <2>2. p \in 1 .. MaxText /\ (p = o + 1 \/ (p = Kept /\ o = MaxText))
    BY <1>1, <1>4, <1>p
  <2> QED BY <1>5, <2>1, <2>2
<1>8. ASSUME Kept <= Len(old)
      PROVE  Kept \in DOMAIN text /\ text[Kept] = old[Kept] /\ Len(text) >= Kept
  <2>1. Kept <= Len(text)
    <3>1. Kept <= o
      BY <1>4, <1>8
    <3>2. Kept <= p
      BY <1>d, <3>1
    <3> QED BY <1>p, <3>2
  <2>2. Kept \in DOMAIN text /\ Kept # Len(old) + 1
    BY <1>4, <1>8, <1>d
  <2> QED BY <1>1, <2>1, <2>2
<1>9. ASSUME Len(text) # Len(old) + 1, NEW n, Kept <= Len(old) => old[Kept] < n
      PROVE  Cut(new, n)
  <2>1. Len(text) = Kept /\ Len(old) = MaxText
    BY <1>1, <1>9
  <2>2. Kept <= Len(old)
    BY <1>5, <2>1
  <2>3. text[Kept] < n /\ Len(text) >= Kept
    BY <1>8, <1>9, <2>2
  <2> QED BY <1>1, <1>2, <1>7, <2>3 DEF Cut, text
<1> SUFFICES ASSUME NEW n \in from + 1 .. m + 1, events[n].kind = "text_delta"
             PROVE  Above(new, full, n) \/ Wrote(new, n) \/ Cut(new, n)
  BY DEF Covered
<1>10. CASE n = m + 1
  <2>1. CASE Len(text) = Len(old) + 1
    <3>1. Len(old) + 1 \in DOMAIN text /\ Len(old) + 1 \notin DOMAIN old
      BY <1>1, <1>4, <2>1
    <3>2. text[Len(old) + 1] = n
      BY <1>1, <1>10, <3>1
    <3> QED BY <1>1, <3>1, <3>2 DEF Wrote, text
  <2>2. CASE Len(text) # Len(old) + 1
    <3>1. Kept <= Len(old) => old[Kept] < n
      <4>1. Kept <= Len(old) => Kept \in DOMAIN old
        BY <1>4, <1>d
      <4> QED BY <1>6, <1>10, <4>1
    <3> QED BY <1>9, <2>2, <3>1
  <2> QED BY <2>1, <2>2
<1>11. CASE n # m + 1
  <2>1. n \in from + 1 .. m
    BY <1>11
  <2>2. Above(items, full, n) \/ Wrote(items, n) \/ Cut(items, n)
    BY <2>1 DEF Covered
  <2>3. CASE Above(items, full, n)
    <3>1. new[1].seq = items[1].seq
      BY <1>2, <1>3
    <3> QED BY <1>3, <2>3, <3>1 DEF Above
  <2>4. CASE Wrote(items, n)
    <3>1. PICK i \in DOMAIN items : \E a \in DOMAIN items[i].text : items[i].text[a] = n
      BY <2>4 DEF Wrote
    <3>2. CASE i # k
      <4>1. i \in DOMAIN new /\ new[i].text = items[i].text
        BY <1>1, <1>2, <3>2
      <4> QED BY <3>1, <4>1 DEF Wrote
    <3>3. CASE i = k
      <4>1. PICK a \in DOMAIN old : old[a] = n
        BY <3>1, <3>3 DEF old
      <4>2. CASE a \in DOMAIN text
        <5>1. a # Len(old) + 1
          BY <1>4, <1>d
        <5>2. text[a] = n
          BY <1>1, <4>1, <4>2, <5>1
        <5> QED BY <1>1, <4>2, <5>2 DEF Wrote, text
      <4>3. CASE a \notin DOMAIN text
        <5>1. a \in 1 .. o /\ ~(a <= Len(text))
          BY <1>d, <1>p, <4>3
        <5>2. Len(text) # Len(old) + 1
          BY <1>4, <1>p, <5>1
        <5>3. Len(text) = Kept
          BY <1>1, <5>2
        <5>4. Kept < a /\ Kept \in DOMAIN old
          BY <1>d, <1>p, <5>1, <5>3
        <5>5. old[Kept] < n
          BY <1>6, <4>1, <5>4
        <5> QED BY <1>9, <5>2, <5>5
      <4> QED BY <4>2, <4>3
    <3> QED BY <3>2, <3>3
  <2>5. CASE Cut(items, n)
    <3>1. PICK i \in DOMAIN items :
            /\ items[i].kind = "assistant"
            /\ Len(items[i].text) >= Kept /\ items[i].text[Kept] < n
            /\ \A j \in DOMAIN items : i < j => n < items[j].seq
      BY <2>5 DEF Cut
    <3>2. \A j \in DOMAIN new : i < j => n < new[j].seq
      BY <1>1, <1>2, <3>1
    <3>3. new[i].kind = "assistant" /\ Len(new[i].text) >= Kept /\ new[i].text[Kept] < n
      <4>1. CASE i # k
        BY <1>2, <3>1, <4>1
      <4>2. CASE i = k
        <5>1. Kept <= Len(old) /\ old[Kept] < n
          BY <1>4, <1>5, <3>1, <4>2 DEF old
        <5>2. text[Kept] < n /\ Len(text) >= Kept
          BY <1>8, <5>1
        <5> QED BY <1>2, <4>2, <5>2 DEF text
      <4> QED BY <4>1, <4>2
    <3> QED BY <1>1, <3>2, <3>3 DEF Cut
  <2> QED BY <2>2, <2>3, <2>4, <2>5
<1> QED BY <1>10, <1>11

-----------------------------------------------------------------------------
(* What the operators do to the parts of Stream: an item less *)

\* Where the items that remain were.
At(items, k) == [i \in 1 .. (Len(items) - 1) |-> IF i < k THEN i ELSE i + 1]

\* Where the items are after one of them, not the last, is removed.
LEMMA RemovedFacts ==
  ASSUME NEW items \in Seq(ItemType), NEW new, NEW k, Removed(items, new, k)
  PROVE  LET at == At(items, k)
         IN  /\ DOMAIN new = 1 .. (Len(items) - 1) /\ new # <<>>
             /\ \A i \in DOMAIN new :
                  /\ at[i] \in DOMAIN items /\ new[i] = items[at[i]] /\ at[i] # k
                  /\ at[i] >= i
                  /\ at[i] < Len(items) => i < Len(new)
                  /\ \A j \in DOMAIN new : i < j <=> at[i] < at[j]
             /\ \A i \in DOMAIN items : i # k => \E j \in DOMAIN new : at[j] = i
<1> DEFINE at == At(items, k)
<1>1. PICK l \in Nat : l = Len(items)
  OBVIOUS
<1>2. /\ DOMAIN items = 1 .. l /\ DOMAIN new = 1 .. (l - 1) /\ k \in 1 .. l /\ k < l
      /\ Len(new) = l - 1
      /\ \A i \in DOMAIN new : new[i] = IF i < k THEN items[i] ELSE items[i + 1]
  BY <1>1 DEF Removed
<1>3. \A i \in 1 .. (l - 1) : at[i] = IF i < k THEN i ELSE i + 1
  BY <1>1 DEF At
<1> HIDE DEF at
<1>4. ASSUME NEW i \in 1 .. (l - 1)
      PROVE  /\ at[i] \in DOMAIN items /\ new[i] = items[at[i]] /\ at[i] # k
             /\ at[i] >= i
             /\ at[i] < Len(items) => i < Len(new)
             /\ \A j \in DOMAIN new : i < j <=> at[i] < at[j]
  <2>1. CASE i < k
    <3>1. at[i] = i
      BY <1>3, <2>1
    <3>2. new[i] = items[i]
      BY <1>2, <2>1
    <3>3. ASSUME NEW j \in 1 .. (l - 1)
          PROVE  i < j <=> at[i] < at[j]
      BY <1>2, <1>3, <2>1, <3>1
    <3> QED BY <1>1, <1>2, <2>1, <3>1, <3>2, <3>3
  <2>2. CASE ~(i < k)
    <3>1. at[i] = i + 1
      BY <1>3, <2>2
    <3>2. new[i] = items[i + 1]
      BY <1>2, <2>2
    <3>3. ASSUME NEW j \in 1 .. (l - 1)
          PROVE  i < j <=> at[i] < at[j]
      BY <1>2, <1>3, <2>2, <3>1
    <3> QED BY <1>1, <1>2, <2>2, <3>1, <3>2, <3>3
  <2> QED BY <2>1, <2>2
<1>5. ASSUME NEW i \in 1 .. l, i # k
      PROVE  \E j \in DOMAIN new : at[j] = i
  <2>1. CASE i < k
    <3>1. i \in 1 .. (l - 1) /\ at[i] = i
      BY <1>2, <1>3, <2>1
    <3> QED BY <1>2, <3>1
  <2>2. CASE ~(i < k)
    <3>1. i - 1 \in 1 .. (l - 1) /\ ~(i - 1 < k)
      BY <1>2, <1>5, <2>2
    <3>2. at[i - 1] = i
      BY <1>3, <3>1
    <3> QED BY <1>2, <3>1, <3>2
  <2> QED BY <2>1, <2>2
<1>6. new # <<>>
  <2>1. 1 \in DOMAIN new
    BY <1>2
  <2> QED BY <2>1
<1> QED BY <1>1, <1>2, <1>4, <1>5, <1>6 DEF at

\* An item less leaves the order, the texts, the turns and the requests.
LEMMA RemovedKeeps ==
  ASSUME NEW items \in Seq(ItemType), NEW new, NEW k, Removed(items, new, k),
         NEW events, NEW from, NEW m
  PROVE  /\ Ordered(items, from, m) => Ordered(new, from, m)
         /\ Written(items, events, from, m) => Written(new, events, from, m)
         /\ Unmixed(items, events, from, m) => Unmixed(new, events, from, m)
         /\ Answered(items, events, m) => Answered(new, events, m)
<1> DEFINE at == At(items, k)
<1>1. \A i \in DOMAIN new :
        /\ at[i] \in DOMAIN items /\ new[i] = items[at[i]]
        /\ at[i] < Len(items) => i < Len(new)
        /\ \A j \in DOMAIN new : i < j <=> at[i] < at[j]
  BY RemovedFacts
<1> HIDE DEF at
<1>2. Ordered(items, from, m) => Ordered(new, from, m)
  BY <1>1 DEF Ordered
<1>3. Written(items, events, from, m) => Written(new, events, from, m)
  BY <1>1 DEF Written
<1>4. Unmixed(items, events, from, m) => Unmixed(new, events, from, m)
  BY <1>1 DEF Unmixed
<1>5. Answered(items, events, m) => Answered(new, events, m)
  BY <1>1 DEF Answered
<1> QED BY <1>2, <1>3, <1>4, <1>5

\* A text is still covered when an item goes: the first one of a full list, or
\* one without a text.
LEMMA CoveredRemoved ==
  ASSUME NEW items \in Seq(ItemType), NEW new, NEW k, Removed(items, new, k),
         NEW full, NEW after, NEW events, NEW from \in Nat, NEW m \in Nat,
         Ordered(items, from, m), Written(items, events, from, m),
         Covered(items, full, events, from, m), full => after,
         items[k].kind # "assistant" \/ (k = 1 /\ after)
  PROVE  Covered(new, after, events, from, m)
<1> DEFINE at == At(items, k)
<1>1. /\ new # <<>> /\ DOMAIN new = 1 .. (Len(items) - 1)
      /\ \A i \in DOMAIN new :
           /\ at[i] \in DOMAIN items /\ new[i] = items[at[i]] /\ at[i] # k
           /\ at[i] >= i
           /\ \A j \in DOMAIN new : i < j <=> at[i] < at[j]
      /\ \A i \in DOMAIN items : i # k => \E j \in DOMAIN new : at[j] = i
  BY RemovedFacts
<1> HIDE DEF at
<1>2. k \in DOMAIN items /\ k < Len(items) /\ Len(items) \in Nat /\ DOMAIN items = 1 .. Len(items)
  BY DEF Removed
<1>3. 1 \in DOMAIN new /\ 1 \in DOMAIN items
  BY <1>1, <1>2
<1>4. \A i \in DOMAIN items : items[i].seq \in Nat
  BY ItemsFacts
<1>5. new[1].seq \in Nat /\ items[1].seq \in Nat /\ items[1].seq <= new[1].seq
  <2>1. at[1] \in DOMAIN items /\ at[1] >= 1 /\ new[1] = items[at[1]]
    BY <1>1, <1>3
  <2>2. at[1] = 1 \/ 1 < at[1]
    BY <1>2, <2>1
  <2>3. 1 < at[1] => items[1].seq < items[at[1]].seq
    BY <1>3, <2>1 DEF Ordered
  <2> QED BY <1>3, <1>4, <2>1, <2>2, <2>3
<1> SUFFICES ASSUME NEW n \in from + 1 .. m, events[n].kind = "text_delta"
             PROVE  Above(new, after, n) \/ Wrote(new, n) \/ Cut(new, n)
  BY DEF Covered
<1>6. Above(items, full, n) \/ Wrote(items, n) \/ Cut(items, n)
  BY DEF Covered
<1>7. CASE Above(items, full, n)
  <2>1. n < new[1].seq
    BY <1>5, <1>7 DEF Above
  <2> QED BY <1>1, <1>7, <2>1 DEF Above
<1>8. ASSUME k = 1, after, \A j \in DOMAIN items : 1 < j => n < items[j].seq
      PROVE  Above(new, after, n)
  <2>1. at[1] \in DOMAIN items /\ at[1] >= 1 /\ at[1] # 1 /\ new[1] = items[at[1]]
    BY <1>1, <1>3, <1>8
  <2>2. n < new[1].seq
    BY <1>2, <1>8, <2>1
  <2> QED BY <1>1, <1>8, <2>2 DEF Above
<1>9. CASE Wrote(items, n)
  <2>1. PICK i \in DOMAIN items : \E a \in DOMAIN items[i].text : items[i].text[a] = n
    BY <1>9 DEF Wrote
  <2>2. CASE i # k
    <3>1. PICK j \in DOMAIN new : at[j] = i
      BY <1>1, <2>2
    <3>2. new[j] = items[i]
      BY <1>1, <3>1
    <3> QED BY <2>1, <3>2 DEF Wrote
  <2>3. CASE i = k
    <3>1. items[k].kind = "assistant"
      <4>1. SUFFICES ASSUME items[k].kind # "assistant"
                     PROVE  FALSE
        OBVIOUS
      <4>2. items[k].text = <<>>
        BY <1>2, <4>1 DEF Written
      <4> QED BY <2>1, <2>3, <4>2
    <3>2. \A j \in DOMAIN items : 1 < j => n < items[j].seq
      BY <2>1, <2>3, <3>1 DEF Written
    <3> QED BY <1>8, <3>1, <3>2
  <2> QED BY <2>2, <2>3
<1>10. CASE Cut(items, n)
  <2>1. PICK i \in DOMAIN items :
          /\ items[i].kind = "assistant"
          /\ Len(items[i].text) >= Kept /\ items[i].text[Kept] < n
          /\ \A j \in DOMAIN items : i < j => n < items[j].seq
    BY <1>10 DEF Cut
  <2>2. CASE i # k
    <3>1. PICK j \in DOMAIN new : at[j] = i
      BY <1>1, <2>2
    <3>2. new[j] = items[i]
      BY <1>1, <3>1
    <3>3. \A h \in DOMAIN new : j < h => n < new[h].seq
      BY <1>1, <2>1, <3>1
    <3> QED BY <2>1, <3>2, <3>3 DEF Cut
  <2>3. CASE i = k
    BY <1>8, <2>1, <2>3
  <2> QED BY <2>2, <2>3
<1> QED BY <1>6, <1>7, <1>9, <1>10

\* The calls that remain when an item goes: no tool, or the first.
LEMMA NestedRemoved ==
  ASSUME NEW items \in Seq(ItemType), NEW new, NEW k, Removed(items, new, k),
         NEW events, NEW from \in Nat, NEW m \in Nat, Ordered(items, from, m),
         Nested(Tools(items), events, m), items[k].kind # "tool" \/ k = 1
  PROVE  Nested(Tools(new), events, m)
<1> DEFINE at == At(items, k)
<1>1. /\ \A i \in DOMAIN new :
           /\ at[i] \in DOMAIN items /\ new[i] = items[at[i]] /\ at[i] # k
      /\ \A i \in DOMAIN items : i # k => \E j \in DOMAIN new : at[j] = i
  BY RemovedFacts
<1> HIDE DEF at
<1>2. Tools(new) \subseteq Tools(items)
  BY <1>1 DEF Tools
<1>3. /\ DOMAIN items = 1 .. Len(items) /\ Len(items) \in Nat /\ k \in DOMAIN items
      /\ \A i \in DOMAIN items : items[i].seq \in Nat
      /\ \A i, j \in DOMAIN items : i < j => items[i].seq < items[j].seq
  BY ItemsFacts DEF Removed, Ordered
<1>4. ASSUME NEW i \in DOMAIN items, i # k, items[i].kind = "tool"
      PROVE  items[i] \in Tools(new)
  <2>1. PICK j \in DOMAIN new : at[j] = i
    BY <1>1, <1>4
  <2>2. new[j] = items[i]
    BY <1>1, <2>1
  <2> QED BY <1>4, <2>2 DEF Tools
<1>5. ASSUME NEW t \in Tools(new)
      PROVE  Waiting(Tools(new), t.ref, t.seq) = Waiting(Tools(items), t.ref, t.seq)
  <2>1. PICK l \in DOMAIN new : new[l].kind = "tool" /\ t = new[l]
    BY DEF Tools
  <2>2. at[l] \in DOMAIN items /\ t = items[at[l]] /\ at[l] # k
    BY <1>1, <2>1
  <2>3. ASSUME NEW p \in Waiting(Tools(items), t.ref, t.seq)
        PROVE  p \in Waiting(Tools(new), t.ref, t.seq)
    <3>1. p \in Nat /\ p > t.seq /\ \E u \in Tools(items) : u.seq = p /\ u.ref = t.ref /\ ~u.done
      BY DEF Waiting
    <3>2. PICK i \in DOMAIN items :
            items[i].kind = "tool" /\ items[i].seq = p /\ items[i].ref = t.ref /\ ~items[i].done
      BY <3>1 DEF Tools
    <3>3. i # k
      <4>1. CASE items[k].kind # "tool"
        BY <3>2, <4>1
      <4>2. CASE k = 1
        <5>1. 1 < at[l]
          BY <1>3, <2>2, <4>2
        <5>2. items[1].seq < t.seq
          BY <1>3, <2>2, <4>2, <5>1
        <5> QED BY <1>3, <2>2, <3>1, <3>2, <4>2, <5>2
      <4> QED BY <4>1, <4>2
    <3>4. items[i] \in Tools(new)
      BY <1>4, <3>2, <3>3
    <3> QED BY <3>1, <3>2, <3>4 DEF Waiting
  <2>4. Waiting(Tools(new), t.ref, t.seq) \subseteq Waiting(Tools(items), t.ref, t.seq)
    BY <1>2 DEF Waiting
  <2> QED BY <2>3, <2>4
<1>6. ASSUME NEW t \in Tools(new)
      PROVE  CallRight(t, Tools(new), events, m)
  <2>1. CallRight(t, Tools(items), events, m)
    BY <1>2 DEF Nested
  <2> QED BY <1>5, <2>1 DEF CallRight
<1> QED BY <1>6 DEF Nested

-----------------------------------------------------------------------------
(* What the operators do to Stream *)

\* No assistant's item is open: the next text starts an item.
Sealed(items) ==
  \A i \in DOMAIN items : i = Len(items) /\ items[i].kind = "assistant" => items[i].done

\* Items of a screen: typed, and no text longer than its limit.
Fit(items) ==
  items \in Seq(ItemType) /\ \A i \in DOMAIN items : Len(items[i].text) <= MaxText

\* Items marked done that are neither requests nor tools.
LEMMA StreamMarked ==
  ASSUME NEW items, NEW new, NEW full, NEW events, NEW from, NEW m, Marked(items, new),
         \A i \in DOMAIN items : items[i].kind \in {"permission", "tool"} => new[i] = items[i],
         Stream(items, full, events, from, m)
  PROVE  Stream(new, full, events, from, m)
<1>1. /\ Ordered(new, from, m) /\ Written(new, events, from, m)
      /\ Unmixed(new, events, from, m) /\ Covered(new, full, events, from, m)
  BY MarkedKeeps DEF Stream
<1>2. Answered(new, events, m)
  BY MarkedAnswers DEF Stream
<1>3. Nested(Tools(new), events, m)
  <2>1. Tools(new) = Tools(items)
    BY MarkedTools
  <2> QED BY <2>1 DEF Stream
<1> QED BY <1>1, <1>2, <1>3 DEF Stream

\* An event that changes no item.
LEMMA StreamAdvance ==
  ASSUME NEW items \in Seq(ItemType), NEW full, NEW events, NEW from \in Nat, NEW m \in Nat,
         from <= m, Stream(items, full, events, from, m),
         events[m + 1].kind \notin
           {"text_delta", "tool_call_start", "tool_call_end", "permission_resolved"},
         events[m + 1].kind \in Ends => Sealed(items)
  PROVE  Stream(items, full, events, from, m + 1)
<1> USE DEF Stream
<1>1. Ordered(items, from, m + 1)
  BY ItemsFacts, OrderedAdvance
<1>2. Written(items, events, from, m + 1)
  BY WrittenAdvance
<1>3. Unmixed(items, events, from, m + 1)
  BY UnmixedAdvance DEF Sealed
<1>4. Answered(items, events, m + 1)
  BY AnsweredAdvance
<1>5. Covered(items, full, events, from, m + 1)
  BY CoveredAdvance
<1>6. Nested(Tools(items), events, m + 1)
  BY ToolsFacts, NestedAdvance
<1> QED BY <1>1, <1>2, <1>3, <1>4, <1>5, <1>6

\* An event that has an item of its own.
LEMMA StreamAdd ==
  ASSUME NEW items \in Seq(ItemType), NEW new, NEW x \in ItemType, Added(items, new, x),
         NEW full, NEW events, NEW from \in Nat, NEW m \in Nat,
         from <= m, Stream(items, full, events, from, m),
         x.seq = m + 1, x.text = IF x.kind = "assistant" THEN <<m + 1>> ELSE <<>>,
         x.kind = "assistant" <=> events[m + 1].kind = "text_delta",
         AddsCall(items, x, events[m + 1]),
         x.kind = "permission" =>
           ~x.done /\ events[m + 1] = Event("permission_request", x.ref),
         events[m + 1].kind # "permission_resolved",
         events[m + 1].kind \in Ends => Sealed(items)
  PROVE  Stream(new, full, events, from, m + 1)
<1> USE DEF Stream
<1>1. Ordered(new, from, m + 1)
  BY OrderedAdd
<1>2. Written(new, events, from, m + 1)
  BY WrittenAdd
<1>3. Unmixed(new, events, from, m + 1)
  <2>1. Unmixed(items, events, from, m + 1)
    BY UnmixedAdvance DEF Sealed
  <2>2. x.kind = "assistant" => events[m + 1].kind \notin Ends
    BY DEF Ends
  <2> QED BY <2>1, <2>2, UnmixedAdd
<1>4. Answered(new, events, m + 1)
  <2>1. Answered(items, events, m + 1)
    BY AnsweredAdvance
  <2> QED BY <2>1, AnsweredAdd
<1>5. Covered(new, full, events, from, m + 1)
  BY CoveredAdd
<1>6. Nested(Tools(new), events, m + 1)
  BY NestedAdd
<1> QED BY <1>1, <1>2, <1>3, <1>4, <1>5, <1>6

\* A text that goes on.
LEMMA StreamExtend ==
  ASSUME NEW items, Fit(items), NEW new, NEW full, NEW events, NEW from \in Nat, NEW m \in Nat,
         from <= m, Stream(items, full, events, from, m), Extended(items, new, m + 1),
         events[m + 1].kind = "text_delta"
  PROVE  Stream(new, full, events, from, m + 1)
<1> USE DEF Stream, Fit
<1>0. events[m + 1].kind \notin Ends
  BY DEF Ends
<1>1. Ordered(new, from, m + 1)
  <2>1. Ordered(items, from, m + 1)
    BY ItemsFacts, OrderedAdvance
  <2> QED BY <2>1, OrderedExtend
<1>2. Written(new, events, from, m + 1)
  BY WrittenExtend
<1>3. Unmixed(new, events, from, m + 1)
  BY <1>0, UnmixedExtend
<1>4. Answered(new, events, m + 1)
  <2>1. Answered(items, events, m + 1)
    BY AnsweredAdvance
  <2> QED BY <2>1, AnsweredExtend
<1>5. Covered(new, full, events, from, m + 1)
  BY CoveredExtend
<1>6. Nested(Tools(new), events, m + 1)
  <2>1. Nested(Tools(items), events, m + 1)
    BY ToolsFacts, NestedAdvance
  <2>2. Tools(new) = Tools(items)
    BY ToolsExtend
  <2> QED BY <2>1, <2>2
<1> QED BY <1>1, <1>2, <1>3, <1>4, <1>5, <1>6

\* An end that finishes the last call of its name that waits.
LEMMA StreamFinish ==
  ASSUME NEW items \in Seq(ItemType), NEW new, NEW full, NEW events,
         NEW from \in Nat, NEW m \in Nat, NEW name, NEW k \in Unfinished(items, name),
         from <= m, Stream(items, full, events, from, m), Marked(items, new),
         \A j \in Unfinished(items, name) : j <= k,
         new[k] = [items[k] EXCEPT !.done = TRUE],
         \A i \in DOMAIN items : i # k => new[i] = items[i],
         events[m + 1] = Event("tool_call_end", name)
  PROVE  Stream(new, full, events, from, m + 1)
<1> USE DEF Stream
<1>0. events[m + 1].kind = "tool_call_end" /\ events[m + 1].kind \notin Ends
  BY DEF Event, Ends
<1>k. k \in DOMAIN items /\ items[k].kind = "tool"
  BY DEF Unfinished
<1>1. Ordered(new, from, m + 1)
  <2>1. Ordered(items, from, m + 1)
    BY ItemsFacts, OrderedAdvance
  <2> QED BY <2>1, MarkedKeeps
<1>2. Written(new, events, from, m + 1)
  <2>1. Written(items, events, from, m + 1)
    BY WrittenAdvance
  <2> QED BY <2>1, MarkedKeeps
<1>3. Unmixed(new, events, from, m + 1)
  <2>1. Unmixed(items, events, from, m + 1)
    BY <1>0, UnmixedAdvance
  <2> QED BY <2>1, MarkedKeeps
<1>4. Answered(new, events, m + 1)
  <2>1. Answered(items, events, m + 1)
    BY <1>0, AnsweredAdvance
  <2>2. \A i \in DOMAIN items : items[i].kind = "permission" => new[i] = items[i]
    BY <1>k
  <2> QED BY <2>1, <2>2, MarkedAnswers
<1>5. Covered(new, full, events, from, m + 1)
  <2>1. Covered(items, full, events, from, m + 1)
    BY <1>0, CoveredAdvance
  <2> QED BY <2>1, MarkedKeeps
<1>6. Nested(Tools(new), events, m + 1)
  BY <1>k, NestedFinish DEF Marked
<1> QED BY <1>1, <1>2, <1>3, <1>4, <1>5, <1>6

\* An answer to a request.
LEMMA StreamResolve ==
  ASSUME NEW items \in Seq(ItemType), NEW new, NEW full, NEW events,
         NEW from \in Nat, NEW m \in Nat, NEW r,
         from <= m, Stream(items, full, events, from, m), Marked(items, new),
         \A i \in DOMAIN items :
           IF items[i].kind = "permission" /\ items[i].ref = r
           THEN new[i].done ELSE new[i] = items[i],
         events[m + 1] = Event("permission_resolved", r)
  PROVE  Stream(new, full, events, from, m + 1)
<1> USE DEF Stream
<1>0. events[m + 1].kind = "permission_resolved" /\ events[m + 1].kind \notin Ends
  BY DEF Event, Ends
<1>1. Ordered(new, from, m + 1)
  <2>1. Ordered(items, from, m + 1)
    BY ItemsFacts, OrderedAdvance
  <2> QED BY <2>1, MarkedKeeps
<1>2. Written(new, events, from, m + 1)
  <2>1. Written(items, events, from, m + 1)
    BY WrittenAdvance
  <2> QED BY <2>1, MarkedKeeps
<1>3. Unmixed(new, events, from, m + 1)
  <2>1. Unmixed(items, events, from, m + 1)
    BY <1>0, UnmixedAdvance
  <2> QED BY <2>1, MarkedKeeps
<1>4. Answered(new, events, m + 1)
  <2>1. SUFFICES ASSUME NEW i \in DOMAIN items, items[i].kind = "permission"
                 PROVE  /\ events[items[i].seq] = Event("permission_request", items[i].ref)
                        /\ new[i].done <=>
                             \E j \in items[i].seq + 1 .. m + 1 :
                               events[j] = Event("permission_resolved", items[i].ref)
    BY DEF Answered, Marked
  <2>2. events[items[i].seq] = Event("permission_request", items[i].ref)
    BY <2>1 DEF Answered
  <2>3. items[i].seq \in Nat /\ items[i].seq <= m
    BY ItemsFacts DEF Ordered
  <2>4. /\ m + 1 \in items[i].seq + 1 .. m + 1
        /\ \A j \in items[i].seq + 1 .. m + 1 : j = m + 1 \/ j \in items[i].seq + 1 .. m
        /\ items[i].seq + 1 .. m \subseteq items[i].seq + 1 .. m + 1
    BY <2>3
  <2>5. CASE items[i].ref = r
    BY <2>1, <2>2, <2>4, <2>5
  <2>6. CASE items[i].ref # r
    <3>1. new[i] = items[i]
      BY <2>6
    <3>2. events[m + 1] # Event("permission_resolved", items[i].ref)
      BY <2>6 DEF Event
    <3> QED BY <2>1, <2>2, <2>4, <3>1, <3>2 DEF Answered
  <2> QED BY <2>5, <2>6
<1>5. Covered(new, full, events, from, m + 1)
  <2>1. Covered(items, full, events, from, m + 1)
    BY <1>0, CoveredAdvance
  <2> QED BY <2>1, MarkedKeeps
<1>6. Nested(Tools(new), events, m + 1)
  <2>1. Nested(Tools(items), events, m + 1)
    BY <1>0, ToolsFacts, NestedAdvance
  <2>2. \A i \in DOMAIN items : items[i].kind = "tool" => new[i] = items[i]
    OBVIOUS
  <2>3. Tools(new) = Tools(items)
    BY <2>2, MarkedTools
  <2> QED BY <2>1, <2>3
<1> QED BY <1>1, <1>2, <1>3, <1>4, <1>5, <1>6

\* An item less.
LEMMA StreamRemoved ==
  ASSUME NEW items \in Seq(ItemType), NEW new, NEW k, Removed(items, new, k),
         NEW full, NEW after, NEW events, NEW from \in Nat, NEW m \in Nat,
         Stream(items, full, events, from, m), full => after,
         items[k].kind = "notice" \/ (k = 1 /\ after)
  PROVE  Stream(new, after, events, from, m)
<1> USE DEF Stream
<1>1. /\ Ordered(new, from, m) /\ Written(new, events, from, m)
      /\ Unmixed(new, events, from, m) /\ Answered(new, events, m)
  BY RemovedKeeps
<1>2. Covered(new, after, events, from, m)
  BY CoveredRemoved
<1>3. Nested(Tools(new), events, m)
  <2>1. items[k].kind # "tool" \/ k = 1
    OBVIOUS
  <2> QED BY <2>1, NestedRemoved
<1> QED BY <1>1, <1>2, <1>3

\* The items after an event are fit, at most one more, and not fewer.
Grown(items, all) ==
  /\ Fit(all) /\ Len(all) \in Nat /\ Len(items) <= Len(all) /\ Len(all) <= Len(items) + 1

\* An item more keeps a list fit.
LEMMA AddedFits ==
  ASSUME NEW items, Fit(items), NEW new, NEW x \in ItemType, Added(items, new, x),
         x.text = <<>> \/ \E n : x.text = <<n>>
  PROVE  Grown(items, new)
<1>1. new \in Seq(ItemType) /\ Len(items) \in Nat /\ Len(new) = Len(items) + 1
  BY AddedFacts DEF Fit
<1>2. Len(x.text) <= MaxText
  <2>1. MaxText \in Nat /\ MaxText >= 1
    BY TranscriptAssumption
  <2>2. Len(<<>>) = 0 /\ \A n : Len(<<n>>) = 1
    OBVIOUS
  <2>3. Len(x.text) = 0 \/ Len(x.text) = 1
    BY <2>2
  <2> DEFINE l == Len(x.text)
  <2>4. l = 0 \/ l = 1
    BY <2>3
  <2> HIDE DEF l
  <2>5. l <= MaxText
    BY <2>1, <2>4
  <2> QED BY <2>5 DEF l
<1>3. \A i \in DOMAIN new : (i \in DOMAIN items /\ new[i] = items[i]) \/ new[i] = x
  BY AddedFacts DEF Fit
<1>4. \A i \in DOMAIN new : Len(new[i].text) <= MaxText
  BY <1>2, <1>3 DEF Fit
<1> QED BY <1>1, <1>4 DEF Grown, Fit

\* Marked items are as fit as they were.
LEMMA MarkedFits ==
  ASSUME NEW items, Fit(items), NEW new, Marked(items, new)
  PROVE  Grown(items, new)
<1>1. new \in Seq(ItemType) /\ Len(new) = Len(items) /\ Len(items) \in Nat
  BY DEF Marked, Fit
<1>2. \A i \in DOMAIN new : Len(new[i].text) <= MaxText
  BY DEF Marked, Fit
<1> QED BY <1>1, <1>2 DEF Grown, Fit

\* A text that goes on is cut at its limit.
LEMMA ExtendedFits ==
  ASSUME NEW items, Fit(items), NEW new, NEW n \in Nat, Extended(items, new, n)
  PROVE  Grown(items, new)
<1>1. new \in Seq(ItemType) /\ Len(new) = Len(items) /\ Len(items) \in Nat
  BY DEF Extended, Fit
<1>2. Len(new[Len(items)].text) \in 1 .. MaxText
  BY ExtendedFacts DEF Fit
<1>3. Len(new[Len(items)].text) <= MaxText
  BY <1>2, TranscriptAssumption
<1>4. \A i \in DOMAIN new : i = Len(items) \/ (i \in DOMAIN items /\ new[i] = items[i])
  BY DEF Extended
<1>5. \A i \in DOMAIN new : Len(new[i].text) <= MaxText
  BY <1>3, <1>4 DEF Fit
<1> QED BY <1>1, <1>5 DEF Grown, Fit

\* An item less keeps a list fit.
LEMMA RemovedFits ==
  ASSUME NEW items, Fit(items), NEW new, NEW k, Removed(items, new, k)
  PROVE  Fit(new) /\ Len(new) \in Nat /\ Len(items) \in Nat /\ Len(new) = Len(items) - 1
<1>1. \A i \in DOMAIN new : \E j \in DOMAIN items : new[i] = items[j]
  BY RemovedFacts DEF Fit
<1>2. new \in Seq(ItemType) /\ Len(new) = Len(items) - 1
  BY DEF Removed
<1>3. Len(new) \in Nat /\ Len(items) \in Nat
  BY <1>2 DEF Fit
<1> QED BY <1>1, <1>2, <1>3 DEF Fit

\* pushNotice: the list is no longer by more than one, and no shorter.
LEMMA NoticeStep ==
  ASSUME NEW items, Fit(items), NEW full, NEW events, NEW from \in Nat, NEW m \in Nat,
         from <= m, Stream(items, full, events, from, m), events[m + 1].kind = "error"
  PROVE  LET all == DropNotices(Append(items, Item("notice", m + 1, None)))
         IN  Grown(items, all) /\ Stream(all, full, events, from, m + 1)
<1> DEFINE x == Item("notice", m + 1, None)
           added == Append(items, x)
           all == DropNotices(added)
<1>1. /\ x \in ItemType /\ x.kind = "notice" /\ x.seq = m + 1 /\ x.text = <<>>
  BY NewItemFacts DEF ItemKind, Ref
<1>2. items \in Seq(ItemType)
  BY DEF Fit
<1> HIDE DEF x
<1>3. Added(items, added, x)
  BY <1>1, <1>2, AddFacts
<1>4. all = added \/ \E k \in DOMAIN added : added[k].kind = "notice" /\ Removed(added, all, k)
  BY <1>1, <1>2, NoticeFacts
<1> HIDE DEF all, added
<1>5. Grown(items, added)
  BY <1>1, <1>3, AddedFits
<1>6. Stream(added, full, events, from, m + 1)
  <2>1. events[m + 1].kind \notin Ends
    BY DEF Ends
  <2>2. AddsCall(items, x, events[m + 1])
    BY <1>1 DEF AddsCall
  <2> QED BY <1>1, <1>2, <1>3, <2>1, <2>2, StreamAdd
<1>7. CASE all = added
  BY <1>5, <1>6, <1>7 DEF all, added, x
<1>8. ASSUME NEW k \in DOMAIN added, added[k].kind = "notice", Removed(added, all, k)
      PROVE  Grown(items, all) /\ Stream(all, full, events, from, m + 1)
  <2>1. Fit(added) /\ Len(added) = Len(items) + 1 /\ Len(items) \in Nat
    BY <1>1, <1>2, <1>3, <1>5, AddedFacts DEF Grown
  <2>2. Fit(all) /\ Len(all) \in Nat /\ Len(all) = Len(added) - 1
    BY <1>8, <2>1, RemovedFits
  <2>3. Grown(items, all)
    BY <2>1, <2>2 DEF Grown
  <2>4. added \in Seq(ItemType) /\ m + 1 \in Nat
    BY <2>1 DEF Fit
  <2>5. Stream(all, full, events, from, m + 1)
    BY <1>6, <1>8, <2>4, StreamRemoved
  <2> QED BY <2>3, <2>5
<1> QED BY <1>4, <1>7, <1>8 DEF all, added, x

\* Sealing keeps Stream, and no assistant's item is open after it.
LEMMA SealStep ==
  ASSUME NEW items, Fit(items), NEW full, NEW events, NEW from, NEW m,
         Stream(items, full, events, from, m)
  PROVE  LET new == SealOpenAssistant(items)
         IN  /\ Fit(new) /\ Len(new) = Len(items) /\ Sealed(new)
             /\ Grown(items, new) /\ Stream(new, full, events, from, m)
<1> DEFINE new == SealOpenAssistant(items)
<1>1. /\ Marked(items, new)
      /\ \A i \in DOMAIN items :
           IF i = Len(items) /\ items[i].kind = "assistant" THEN new[i].done ELSE new[i] = items[i]
  BY SealFacts DEF Fit
<1> HIDE DEF new
<1>2. Grown(items, new)
  BY <1>1, MarkedFits
<1>3. Sealed(new)
  BY <1>1 DEF Sealed, Marked
<1>4. Stream(new, full, events, from, m)
  <2>1. \A i \in DOMAIN items : items[i].kind \in {"permission", "tool"} => new[i] = items[i]
    BY <1>1
  <2> QED BY <1>1, <2>1, StreamMarked
<1> QED BY <1>1, <1>2, <1>3, <1>4 DEF Grown, Marked, new

\* What each event makes of the items.
LEMMA ItemsStep ==
  ASSUME NEW items, Fit(items), NEW full, NEW events, NEW from \in Nat, NEW m \in Nat,
         from <= m, Stream(items, full, events, from, m), events[m + 1] \in EventType
  PROVE  LET all == ItemsAfter(items, m + 1, events[m + 1])
         IN  Grown(items, all) /\ Stream(all, full, events, from, m + 1)
<1> DEFINE e == events[m + 1]
           all == ItemsAfter(items, m + 1, e)
           Goal(s) == Grown(items, s) /\ Stream(s, full, events, from, m + 1)
<1>1. e.kind \in EventKind /\ e.ref \in Ref
      /\ (e.kind \in {"permission_request", "permission_resolved"} => e.ref \in Request)
      /\ e = [kind |-> e.kind, ref |-> e.ref]
  BY DEF EventType
<1>2. items \in Seq(ItemType) /\ m + 1 \in Nat
  BY DEF Fit
<1>3. Grown(items, items)
  BY <1>2, MarkNone, MarkedFits
<1>4. CASE e.kind = "user_prompt"
  <2> DEFINE s == SealOpenAssistant(items)
             x == Item("prompt", m + 1, None)
  <2>1. all = Append(s, x)
    BY <1>4 DEF ItemsAfter
  <2>2. Fit(s) /\ Len(s) = Len(items) /\ Sealed(s) /\ Stream(s, full, events, from, m)
    BY SealStep
  <2>3. x \in ItemType /\ x.kind = "prompt" /\ x.seq = m + 1 /\ x.text = <<>>
    BY NewItemFacts DEF ItemKind, Ref
  <2> HIDE DEF s, x, all
  <2>4. s \in Seq(ItemType)
    BY <2>2 DEF Fit
  <2>5. Added(s, all, x)
    BY <2>1, <2>3, <2>4, AddFacts
  <2>6. Grown(s, all)
    BY <2>2, <2>3, <2>5, AddedFits
  <2>7. Stream(all, full, events, from, m + 1)
    <3>1. AddsCall(s, x, e)
      BY <1>4, <2>3 DEF AddsCall
    <3> QED BY <1>4, <2>2, <2>3, <2>4, <2>5, <3>1, StreamAdd
  <2> QED BY <2>2, <2>6, <2>7 DEF Grown, all
<1>5. CASE e.kind = "text_delta"
  <2>1. all = AppendAssistant(items, m + 1)
    BY <1>5 DEF ItemsAfter
  <2>2. \A i \in DOMAIN items :
          /\ Len(items[i].text) <= MaxText
          /\ items[i].kind = "assistant" => items[i].text # <<>>
    BY DEF Fit, Stream, Written
  <2>3. \/ Extended(items, all, m + 1)
        \/ \E x \in ItemType :
             /\ x.kind = "assistant" /\ x.seq = m + 1 /\ x.text = <<m + 1>> /\ ~x.done
             /\ Added(items, all, x)
    <3> DEFINE new == AppendAssistant(items, m + 1)
    <3>1. \/ Extended(items, new, m + 1)
          \/ \E x \in ItemType :
               /\ x.kind = "assistant" /\ x.seq = m + 1 /\ x.text = <<m + 1>> /\ ~x.done
               /\ Added(items, new, x)
               /\ \A i \in DOMAIN items :
                    i = Len(items) /\ items[i].kind = "assistant" => items[i].done
      BY <1>2, <2>2, AssistantFacts
    <3> HIDE DEF new, all
    <3> QED BY <2>1, <3>1 DEF new
  <2> HIDE DEF all
  <2>4. CASE Extended(items, all, m + 1)
    <3>1. Grown(items, all)
      BY <1>2, <2>4, ExtendedFits
    <3>2. Stream(all, full, events, from, m + 1)
      BY <1>5, <2>4, StreamExtend
    <3> QED BY <3>1, <3>2 DEF all
  <2>5. ASSUME NEW x \in ItemType,
               x.kind = "assistant" /\ x.seq = m + 1 /\ x.text = <<m + 1>> /\ ~x.done,
               Added(items, all, x)
        PROVE  Goal(all)
    <3>1. Grown(items, all)
      BY <2>5, AddedFits
    <3>2. e.kind \notin Ends
      BY <1>5 DEF Ends
    <3>3. AddsCall(items, x, e)
      BY <1>5, <2>5 DEF AddsCall
    <3>4. Stream(all, full, events, from, m + 1)
      BY <1>2, <1>5, <2>5, <3>2, <3>3, StreamAdd
    <3> QED BY <3>1, <3>4
  <2> QED BY <2>3, <2>4, <2>5 DEF all
<1>6. CASE e.kind = "turn_complete"
  <2> DEFINE s == SealOpenAssistant(items)
  <2>1. all = s
    BY <1>6 DEF ItemsAfter
  <2>2. Fit(s) /\ Sealed(s) /\ Grown(items, s) /\ Stream(s, full, events, from, m)
    BY SealStep
  <2> HIDE DEF s, all
  <2>3. s \in Seq(ItemType)
    BY <2>2 DEF Fit
  <2>4. Stream(s, full, events, from, m + 1)
    BY <1>6, <2>2, <2>3, StreamAdvance
  <2> QED BY <2>1, <2>2, <2>4 DEF all
<1>7. CASE e.kind = "tool_call_start"
  <2> DEFINE x == Item("tool", m + 1, e.ref)
  <2>1. all = Append(items, x)
    BY <1>7 DEF ItemsAfter
  <2>2. /\ x \in ItemType /\ x.kind = "tool" /\ x.seq = m + 1 /\ x.text = <<>>
        /\ x.ref = e.ref /\ ~x.done
    <3>1. e.ref \in Ref
      BY <1>1
    <3> QED BY <1>2, <3>1, NewItemFacts DEF ItemKind
  <2> HIDE DEF x, all
  <2>3. Added(items, all, x)
    BY <1>2, <2>1, <2>2, AddFacts
  <2>4. Grown(items, all)
    BY <2>2, <2>3, AddedFits
  <2>5. e.kind \notin Ends
    BY <1>7 DEF Ends
  <2>6. AddsCall(items, x, e)
    <3>1. e = Event("tool_call_start", e.ref)
      BY <1>1, <1>7 DEF Event
    <3> QED BY <1>7, <2>2, <3>1 DEF AddsCall
  <2>7. Stream(all, full, events, from, m + 1)
    BY <1>2, <1>7, <2>2, <2>3, <2>5, <2>6, StreamAdd
  <2> QED BY <2>4, <2>7 DEF all
<1>8. CASE e.kind = "tool_call_end"
  <2> DEFINE name == e.ref
  <2>0. name \in Ref /\ e = Event("tool_call_end", name)
    BY <1>1, <1>8 DEF Event
  <2>1. all = FinishTool(items, m + 1, name)
    BY <1>8 DEF ItemsAfter
  <2>2. \/ /\ Marked(items, all)
           /\ \E k \in Unfinished(items, name) :
                /\ \A j \in Unfinished(items, name) : j <= k
                /\ all[k] = [items[k] EXCEPT !.done = TRUE]
                /\ \A i \in DOMAIN items : i # k => all[i] = items[i]
        \/ /\ Unfinished(items, name) = {}
           /\ \E x \in ItemType :
                /\ x.kind = "tool" /\ x.seq = m + 1 /\ x.ref = name
                /\ x.text = <<>> /\ x.done
                /\ Added(items, all, x)
    <3> HIDE DEF name
    <3> QED BY <1>2, <2>0, <2>1, FinishFacts
  <2> HIDE DEF all, name
  <2>3. ASSUME Marked(items, all), NEW k \in Unfinished(items, name),
               \A j \in Unfinished(items, name) : j <= k,
               all[k] = [items[k] EXCEPT !.done = TRUE],
               \A i \in DOMAIN items : i # k => all[i] = items[i]
        PROVE  Goal(all)
    <3>1. Grown(items, all)
      BY <2>3, MarkedFits
    <3>2. Stream(all, full, events, from, m + 1)
      BY <1>2, <2>0, <2>3, StreamFinish
    <3> QED BY <3>1, <3>2
  <2>4. ASSUME NEW x \in ItemType, Unfinished(items, name) = {},
               x.kind = "tool" /\ x.seq = m + 1 /\ x.ref = name /\ x.text = <<>> /\ x.done,
               Added(items, all, x)
        PROVE  Goal(all)
    <3>1. Grown(items, all)
      BY <2>4, AddedFits
    <3>2. e.kind \notin Ends
      BY <1>8 DEF Ends
    <3>3. AddsCall(items, x, e)
      BY <1>8, <2>0, <2>4 DEF AddsCall
    <3>4. Stream(all, full, events, from, m + 1)
      BY <1>2, <1>8, <2>4, <3>2, <3>3, StreamAdd
    <3> QED BY <3>1, <3>4
  <2> QED BY <2>2, <2>3, <2>4 DEF all
<1>9. CASE e.kind = "permission_request"
  <2>1. e.kind \notin Ends
    BY <1>9 DEF Ends
  <2>2. CASE Known(items, e.ref)
    <3>1. all = items
      BY <1>9, <2>2 DEF ItemsAfter
    <3>2. Stream(items, full, events, from, m + 1)
      BY <1>2, <1>9, <2>1, StreamAdvance
    <3> HIDE DEF all
    <3> QED BY <1>3, <3>1, <3>2 DEF all
  <2>3. CASE ~Known(items, e.ref)
    <3> DEFINE x == Item("permission", m + 1, e.ref)
    <3>1. all = Append(items, x)
      BY <1>9, <2>3 DEF ItemsAfter
    <3>2. e.ref \in Ref
      BY <1>1
    <3>3. /\ x \in ItemType /\ x.kind = "permission" /\ x.seq = m + 1 /\ x.text = <<>>
          /\ ~x.done /\ x.ref = e.ref
      BY <1>2, <3>2, NewItemFacts DEF ItemKind
    <3>4. e = Event("permission_request", e.ref)
      BY <1>1, <1>9 DEF Event
    <3> HIDE DEF x, all
    <3>5. Added(items, all, x)
      BY <1>2, <3>1, <3>3, AddFacts
    <3>6. Grown(items, all)
      BY <3>3, <3>5, AddedFits
    <3>7. AddsCall(items, x, e)
      BY <1>9, <3>3 DEF AddsCall
    <3>8. Stream(all, full, events, from, m + 1)
      BY <1>2, <1>9, <2>1, <3>3, <3>4, <3>5, <3>7, StreamAdd
    <3> QED BY <3>6, <3>8 DEF all
  <2> QED BY <2>2, <2>3
<1>10. CASE e.kind = "permission_resolved"
  <2>1. all = Resolve(items, e.ref)
    BY <1>10 DEF ItemsAfter
  <2>2. /\ Marked(items, all)
        /\ \A i \in DOMAIN items :
             IF items[i].kind = "permission" /\ items[i].ref = e.ref
             THEN all[i].done ELSE all[i] = items[i]
    BY <1>2, <2>1, ResolveFacts
  <2>3. e = Event("permission_resolved", e.ref)
    BY <1>1, <1>10 DEF Event
  <2> HIDE DEF all
  <2>4. Grown(items, all)
    BY <2>2, MarkedFits
  <2>5. Stream(all, full, events, from, m + 1)
    BY <1>2, <2>2, <2>3, StreamResolve
  <2> QED BY <2>4, <2>5 DEF all
<1>11. CASE e.kind = "error"
  <2>1. all = DropNotices(Append(items, Item("notice", m + 1, None)))
    BY <1>11 DEF ItemsAfter
  <2> HIDE DEF all
  <2> QED BY <1>11, <2>1, NoticeStep DEF all
<1>12. CASE e.kind = "other"
  <2>1. all = items
    BY <1>12 DEF ItemsAfter
  <2>2. e.kind \notin Ends
    BY <1>12 DEF Ends
  <2>3. Stream(items, full, events, from, m + 1)
    BY <1>2, <1>12, <2>2, StreamAdvance
  <2> HIDE DEF all
  <2> QED BY <1>3, <2>1, <2>3 DEF all
<1> QED BY <1>1, <1>4, <1>5, <1>6, <1>7, <1>8, <1>9, <1>10, <1>11, <1>12 DEF EventKind

\* What a live event makes of the items of a screen.
LEMMA ScreenStep ==
  ASSUME NEW items, Fit(items), Len(items) <= MaxItems,
         NEW events, NEW from \in Nat, NEW m \in Nat, from <= m,
         Stream(items, Len(items) >= MaxItems, events, from, m), events[m + 1] \in EventType
  PROVE  LET new == TrimItems(ItemsAfter(items, m + 1, events[m + 1]))
         IN  /\ Fit(new) /\ Len(new) <= MaxItems
             /\ Stream(new, Len(new) >= MaxItems, events, from, m + 1)
<1> DEFINE all == ItemsAfter(items, m + 1, events[m + 1])
           new == TrimItems(all)
           full == Len(items) >= MaxItems
           after == Len(new) >= MaxItems
<1>1. Grown(items, all) /\ Stream(all, full, events, from, m + 1)
  BY ItemsStep
<1> HIDE DEF all
<1>2. /\ Fit(all) /\ all \in Seq(ItemType) /\ Len(all) \in Nat /\ Len(items) \in Nat
      /\ Len(items) <= Len(all) /\ Len(all) <= MaxItems + 1 /\ MaxItems \in Nat
  <2>1. Len(items) \in Nat
    BY DEF Fit
  <2>2. MaxItems \in Nat
    BY TranscriptAssumption
  <2> QED BY <1>1, <2>1, <2>2 DEF Grown, Fit
<1>3. \/ new = all /\ Len(all) <= MaxItems
      \/ Removed(all, new, 1) /\ Len(new) = MaxItems
  BY <1>2, TrimFacts
<1> HIDE DEF new
<1>4. CASE new = all /\ Len(all) <= MaxItems
  <2>1. full => after
    BY <1>2, <1>4
  <2>2. Covered(all, full, events, from, m + 1) => Covered(all, after, events, from, m + 1)
    BY <2>1 DEF Covered, Above
  <2> HIDE DEF full, after
  <2>3. Stream(all, after, events, from, m + 1)
    BY <1>1, <2>2 DEF Stream
  <2> QED BY <1>2, <1>4, <2>3 DEF after, new, all
<1>5. CASE Removed(all, new, 1) /\ Len(new) = MaxItems
  <2>1. Fit(new)
    BY <1>2, <1>5, RemovedFits
  <2>2. after /\ Len(new) <= MaxItems
    BY <1>2, <1>5
  <2> HIDE DEF full, after
  <2>3. Stream(new, after, events, from, m + 1)
    <3>1. m + 1 \in Nat /\ (full => after) /\ (1 = 1 /\ after)
      BY <2>2
    <3> QED BY <1>1, <1>2, <1>5, <3>1, StreamRemoved
  <2> QED BY <2>1, <2>2, <2>3 DEF after, new, all
<1> QED BY <1>3, <1>4, <1>5

-----------------------------------------------------------------------------
(* Events and cards *)

\* What an event is.
LEMMA EventFacts ==
  ASSUME NEW k, NEW r
  PROVE  /\ Event(k, r).kind = k /\ Event(k, r).ref = r
         /\ k \in EventKind /\ r \in Ref
            /\ (k \in {"permission_request", "permission_resolved"} => r \in Request)
              => Event(k, r) \in EventType
         /\ \A k2, r2 : Event(k, r) = Event(k2, r2) => k = k2 /\ r = r2
BY DEF Event, EventType

\* The request r has been made in the first n events, and not answered since.
Asked(events, n, r) ==
  \E i \in 1 .. n :
    /\ events[i] = Event("permission_request", r)
    /\ \A j \in i + 1 .. n : events[j] # Event("permission_resolved", r)

\* The open requests of a prefix of the log.
LEMMA OpenFacts ==
  ASSUME NEW S, NEW events \in Seq(S), NEW n \in 0 .. Len(events)
  PROVE  Open(SubSeq(events, 1, n)) = {r \in Request : Asked(events, n, r)}
<1> DEFINE part == SubSeq(events, 1, n)
<1>1. /\ part \in Seq(S) /\ DOMAIN part = 1 .. n /\ n \in Nat
      /\ \A i \in 1 .. n : part[i] = events[i]
  BY PrefixFacts
<1>2. Len(part) = n
  BY <1>1
<1> HIDE DEF part
<1>3. \A i \in 1 .. n : i + 1 .. n \subseteq 1 .. n
  BY <1>1
<1>4. Open(part) = {r \in Request : Asked(events, n, r)}
  BY <1>1, <1>2, <1>3 DEF Open, Asked
<1> QED BY <1>4 DEF part

\* The open requests of all of it.
LEMMA OpenOfAll ==
  ASSUME NEW S, NEW events \in Seq(S)
  PROVE  Open(events) = {r \in Request : Asked(events, Len(events), r)}
<1>1. Len(events) \in Nat /\ DOMAIN events = 1 .. Len(events)
  OBVIOUS
<1> QED BY <1>1 DEF Open, Asked

\* The open requests change with an event as the cards do.
LEMMA AskedStep ==
  ASSUME NEW events, NEW n \in Nat, events[n + 1] \in EventType, NEW r \in Request
  PROVE  Asked(events, n + 1, r) <=>
           \/ events[n + 1] = Event("permission_request", r)
           \/ Asked(events, n, r) /\ events[n + 1] # Event("permission_resolved", r)
<1>1. \A i \in 1 .. n + 1 : i = n + 1 \/ i \in 1 .. n
  OBVIOUS
<1>2. \A i \in 1 .. n : i \in 1 .. n + 1 /\ i + 1 .. n + 1 = (i + 1 .. n) \cup {n + 1}
  OBVIOUS
<1>3. n + 1 \in 1 .. n + 1 /\ n + 1 + 1 .. n + 1 = {}
  OBVIOUS
<1> QED BY <1>1, <1>2, <1>3 DEF Asked

\* What an event does to a card.
LEMMA CardStep ==
  ASSUME NEW cards, NEW e \in EventType, NEW r \in Request
  PROVE  r \in CardsAfter(cards, e) <=>
           \/ e = Event("permission_request", r)
           \/ r \in cards /\ e # Event("permission_resolved", r)
<1>1. e.kind \in EventKind /\ e = Event(e.kind, e.ref)
  BY DEF EventType, Event
<1>2. \A k, q : e = Event(k, q) <=> e.kind = k /\ e.ref = q
  BY <1>1, EventFacts
<1>3. CASE e.kind = "permission_request"
  BY <1>2, <1>3 DEF CardsAfter
<1>4. CASE e.kind = "permission_resolved"
  BY <1>2, <1>4 DEF CardsAfter
<1>5. CASE e.kind # "permission_request" /\ e.kind # "permission_resolved"
  <2>1. CardsAfter(cards, e) = cards
    BY <1>5 DEF CardsAfter
  <2> QED BY <1>2, <1>5, <2>1
<1> QED BY <1>3, <1>4, <1>5

\* Cards are of requests.
LEMMA CardsType ==
  ASSUME NEW cards \in SUBSET Request, NEW e \in EventType
  PROVE  CardsAfter(cards, e) \in SUBSET Request
<1>1. e.kind \in {"permission_request", "permission_resolved"} => e.ref \in Request
  BY DEF EventType
<1>2. CASE e.kind = "permission_request"
  BY <1>1, <1>2 DEF CardsAfter
<1>3. CASE e.kind = "permission_resolved"
  BY <1>3 DEF CardsAfter
<1>4. CASE e.kind # "permission_request" /\ e.kind # "permission_resolved"
  <2>1. CardsAfter(cards, e) = cards
    BY <1>4 DEF CardsAfter
  <2> QED BY <2>1
<1> QED BY <1>2, <1>3, <1>4

\* A longer log has the same open requests in the same prefix.
LEMMA AskedAgrees ==
  ASSUME NEW events, NEW more, NEW n \in Nat, \A i \in 1 .. n : more[i] = events[i], NEW r
  PROVE  Asked(more, n, r) <=> Asked(events, n, r)
<1>1. \A i \in 1 .. n : i + 1 .. n \subseteq 1 .. n
  OBVIOUS
<1> QED BY <1>1 DEF Asked

\* And the same calls.
LEMMA CallAgrees ==
  ASSUME NEW t, NEW tools, NEW events, NEW more, NEW m \in Nat, t.seq \in 1 .. m,
         \A i \in 1 .. m : more[i] = events[i], CallRight(t, tools, events, m)
  PROVE  CallRight(t, tools, more, m)
<1>1. ASSUME NEW kind, NEW k \in Nat, k <= m
      PROVE  Count(more, kind, t.ref, t.seq, k) = Count(events, kind, t.ref, t.seq, k)
  <2>1. \A i \in t.seq + 1 .. k : i \in 1 .. m
    BY <1>1
  <2>2. CallsOf(more, kind, t.ref, t.seq, k) = CallsOf(events, kind, t.ref, t.seq, k)
    BY <2>1 DEF CallsOf
  <2> QED BY <2>2 DEF Count
<1>2. \A k \in t.seq + 1 .. m : k \in Nat /\ k <= m
  OBVIOUS
<1>3. Outnumbered(more, t.ref, t.seq, m) <=> Outnumbered(events, t.ref, t.seq, m)
  BY <1>1, <1>2 DEF Outnumbered
<1>4. more[t.seq] = events[t.seq] /\ m <= m
  OBVIOUS
<1> QED BY <1>1, <1>3, <1>4 DEF CallRight

\* And the same stream.
LEMMA StreamAgrees ==
  ASSUME NEW items \in Seq(ItemType), NEW full, NEW events, NEW more,
         NEW from \in Nat, NEW m \in Nat,
         \A i \in 1 .. m : more[i] = events[i], Stream(items, full, events, from, m)
  PROVE  Stream(items, full, more, from, m)
<1> USE DEF Stream
<1>0. from + 1 .. m \subseteq 1 .. m
  OBVIOUS
<1>1. Written(items, more, from, m)
  <2>1. \A i \in DOMAIN items : \A a \in DOMAIN items[i].text :
          from < items[i].text[a] /\ items[i].text[a] <= m => items[i].text[a] \in 1 .. m
    BY ItemsFacts
  <2> QED BY <2>1 DEF Written
<1>2. Unmixed(items, more, from, m)
  BY <1>0 DEF Unmixed
<1>3. Answered(items, more, m)
  <2>1. \A i \in DOMAIN items : items[i].seq \in 1 .. m /\ items[i].seq + 1 .. m \subseteq 1 .. m
    BY ItemsFacts DEF Ordered
  <2> QED BY <2>1 DEF Answered
<1>4. Covered(items, full, more, from, m)
  BY <1>0 DEF Covered
<1>5. \A t \in Tools(items) : t.seq \in 1 .. m /\ t.seq \in Nat
  BY ToolsFacts
<1>6. Nested(Tools(items), more, m)
  BY <1>5, CallAgrees DEF Nested
<1> QED BY <1>1, <1>2, <1>3, <1>4, <1>6

\* A screen on which nothing is yet.
LEMMA EmptyFacts ==
  ASSUME NEW full, NEW events, NEW from \in Nat
  PROVE  /\ Fit(<<>>) /\ Len(<<>>) = 0
         /\ Stream(<<>>, full, events, from, from)
<1>1. <<>> \in Seq(ItemType) /\ Len(<<>>) = 0 /\ DOMAIN <<>> = {}
  OBVIOUS
<1>2. from + 1 .. from = {}
  OBVIOUS
<1>3. Tools(<<>>) = {}
  BY <1>1 DEF Tools
<1> QED BY <1>1, <1>2, <1>3 DEF Fit, Stream, Ordered, Written, Unmixed, Answered, Covered, Nested

\* The events of a line: one to three, each of a type.
LEMMA LineFacts ==
  ASSUME NEW line \in Line
  PROVE  EventsOf(line) \in Seq(EventType) /\ Len(EventsOf(line)) \in Nat
<1>1. \A k \in EventKind \ {"permission_request", "permission_resolved"}, r \in Ref :
        Event(k, r) \in EventType
  BY EventFacts
<1>2. \A k \in {"text_delta", "tool_call_end", "turn_complete", "other", "error"} :
        Plain(k) \in EventType
  BY <1>1 DEF Plain, EventKind, Ref
<1>3. CASE line.type = "permission"
  <2>1. line.ref \in Request
    BY <1>3 DEF Line
  <2>2. Event("permission_request", line.ref) \in EventType
    BY <2>1, EventFacts DEF EventKind, Ref
  <2>3. EventsOf(line) = <<Event("permission_request", line.ref)>>
    BY <1>3 DEF EventsOf
  <2> QED BY <2>2, <2>3
<1>4. CASE line.type \in {"tool_use", "message"}
  <2>1. line.ref \in Ref
    BY <1>4 DEF Line, Ref
  <2>2. Event("tool_call_start", line.ref) \in EventType
    BY <1>1, <2>1 DEF EventKind
  <2>3. \/ EventsOf(line) = <<Event("tool_call_start", line.ref)>>
        \/ EventsOf(line) = <<Plain("text_delta"), Event("tool_call_start", line.ref)>>
    BY <1>4 DEF EventsOf
  <2>4. Plain("text_delta") \in EventType
    BY <1>2
  <2> DEFINE p == Plain("text_delta")
             e == Event("tool_call_start", line.ref)
  <2> HIDE DEF p, e
  <2>5. /\ <<e>> \in Seq(EventType) /\ Len(<<e>>) \in Nat
        /\ <<p, e>> \in Seq(EventType) /\ Len(<<p, e>>) \in Nat
    BY <2>2, <2>4 DEF p, e
  <2> QED BY <2>3, <2>5 DEF p, e
<1>5. CASE line.type = "result"
  <2>1. EventsOf(line) = <<Plain("turn_complete"), Plain("other")>>
    BY <1>5 DEF EventsOf
  <2> QED BY <1>2, <2>1
<1>6. CASE line.type = "metered_result"
  <2>1. EventsOf(line) = <<Plain("other"), Plain("turn_complete"), Plain("other")>>
    BY <1>6 DEF EventsOf
  <2> QED BY <1>2, <2>1
<1>7. CASE line.type = "tool_result"
  <2>1. EventsOf(line) = <<Event("tool_call_end", NoName)>>
    BY <1>7 DEF EventsOf
  <2>2. Event("tool_call_end", NoName) \in EventType
    BY <1>1 DEF EventKind, Ref
  <2> QED BY <2>1, <2>2
<1>8. CASE line.type \in {"text", "stop", "status", "garbage"}
  <2>1. \E k \in {"text_delta", "turn_complete", "other", "error"} : EventsOf(line) = <<Plain(k)>>
    BY <1>8 DEF EventsOf
  <2> QED BY <1>2, <2>1
<1>9. line.type \in {"text", "tool_use", "message", "tool_result", "permission", "result",
                     "metered_result", "stop", "status", "garbage"}
  BY DEF Line
<1> QED BY <1>3, <1>4, <1>5, <1>6, <1>7, <1>8, <1>9

-----------------------------------------------------------------------------
(* The properties follow from the invariant *)

\* What the text of the items is, one after the other.
LEMMA TextsFacts ==
  ASSUME NEW items \in Seq(ItemType), NEW events, NEW from \in Nat, NEW m \in Nat,
         Written(items, events, from, m)
  PROVE  LET t == FlattenSeq([i \in DOMAIN items |-> items[i].text])
         IN  /\ \A a, b \in DOMAIN t : a < b => t[a] < t[b]
             /\ \A v : v \in ToSet(t) <=> Wrote(items, v)
<1>1. PICK n \in Nat : n = Len(items)
  BY ItemsFacts
<1>2. DOMAIN items = 1 .. n
  BY <1>1, ItemsFacts
<1> DEFINE s == [i \in DOMAIN items |-> items[i].text]
<1>3. \A i \in DOMAIN items : items[i].text \in Seq(Nat)
  BY ItemsFacts DEF ItemType
<1>4. s \in [1 .. n -> Seq(Nat)] /\ \A i \in 1 .. n : s[i] = items[i].text
  BY <1>2, <1>3
<1> HIDE DEF s
<1>5. \A i \in 1 .. n : \A a, b \in DOMAIN s[i] : a < b => s[i][a] < s[i][b]
  BY <1>2, <1>4 DEF Written
<1>6. ASSUME NEW i \in 1 .. n, NEW j \in 1 .. n, i < j,
             NEW a \in DOMAIN s[i], NEW b \in DOMAIN s[j]
      PROVE  s[i][a] < s[j][b]
  <2>1. /\ i \in DOMAIN items /\ j \in DOMAIN items
        /\ s[i] = items[i].text /\ s[j] = items[j].text
    BY <1>2, <1>4
  <2>2. s[i][a] < items[j].seq
    BY <1>6, <2>1 DEF Written
  <2>3. items[j].text # <<>>
    BY <2>1
  <2>4. items[j].text[1] = items[j].seq
    BY <2>1, <2>3 DEF Written
  <2>5. b \in 1 .. Len(items[j].text) /\ Len(items[j].text) \in Nat
        /\ DOMAIN items[j].text = 1 .. Len(items[j].text)
    BY <2>1, ItemsFacts
  <2>6. 1 \in DOMAIN items[j].text /\ (b = 1 \/ 1 < b)
    BY <2>5
  <2>7. s[j][b] >= items[j].seq
    <3>1. CASE b = 1
      <4>1. items[j].seq \in Nat
        BY <2>1, ItemsFacts
      <4> QED BY <2>1, <2>4, <3>1, <4>1
    <3>2. CASE 1 < b
      <4>1. items[j].text[1] < items[j].text[b]
        BY <2>1, <2>6, <3>2 DEF Written
      <4>2. items[j].text[1] \in Nat /\ items[j].text[b] \in Nat
        BY <2>1, <2>6, ItemsFacts
      <4> QED BY <2>1, <2>4, <4>1, <4>2
    <3> QED BY <2>6, <3>1, <3>2
  <2>8. s[i][a] \in Nat /\ s[j][b] \in Nat /\ items[j].seq \in Nat
    BY <2>1, ItemsFacts
  <2> QED BY <2>2, <2>7, <2>8
<1> DEFINE R == {r \in Nat \X Nat : r[1] < r[2]}
<1>7. \A x, y \in Nat : <<x, y>> \in R <=> x < y
  OBVIOUS
<1> HIDE DEF R
<1>8. \A i \in 1 .. n : \A a \in DOMAIN s[i] : s[i][a] \in Nat
  BY <1>4
<1>9. \A i \in 1 .. n : SortedBy(s[i], R)
  BY <1>5, <1>7, <1>8 DEF SortedBy
<1>10. \A i, j \in 1 .. n : i < j => AllBefore(s[i], s[j], R)
  BY <1>6, <1>7, <1>8 DEF AllBefore
<1> DEFINE t == FlattenSeq(s)
<1>11. /\ t \in Seq(Nat)
       /\ SortedBy(t, R)
       /\ \A v : v \in ToSet(t) <=> \E i \in 1 .. n : \E a \in DOMAIN s[i] : s[i][a] = v
  <2>1. Chained(n, Nat, s, R)
    BY <1>4, <1>9, <1>10 DEF Chained
  <2>2. Flattened(n, Nat, s, R, FlattenSeq(s))
    BY <2>1, FlattenSeqFacts
  <2> QED BY <2>2 DEF Flattened
<1> HIDE DEF t
<1>12. \A a, b \in DOMAIN t : a < b => t[a] < t[b]
  <2>1. \A a \in DOMAIN t : t[a] \in Nat
    BY <1>11
  <2> QED BY <1>7, <1>11, <2>1 DEF SortedBy
<1>13. ASSUME NEW v
       PROVE  (\E i \in 1 .. n : \E a \in DOMAIN s[i] : s[i][a] = v) <=> Wrote(items, v)
  BY <1>2, <1>4 DEF Wrote
<1> QED BY <1>11, <1>12, <1>13 DEF s, t

\* What a bound is.
LEMMA BoundFacts ==
  ASSUME NEW b \in Bound
  PROVE  b.events \in Nat /\ b.sessions \in Nat \ {0} /\ b.breaks \in Nat
BY TranscriptAssumption

\* The screen's part of the types.
LEMMA ScreenFacts ==
  ASSUME TypeInv
  PROVE  /\ Fit(Items) /\ Items \in Seq(ItemType) /\ Len(Items) \in Nat /\ Len(Items) <= MaxItems
         /\ screen.from \in Nat /\ screen.lastSeq \in Nat /\ screen.from <= screen.lastSeq
         /\ screen.tipSeq \in Nat /\ screen.of \in Nat /\ screen.session \in Nat
         /\ screen.cards \in SUBSET Request
         /\ session \in Nat /\ Len(log) \in Nat /\ Len(out) \in Nat /\ shown \in Nat
         /\ conn.next \in Nat /\ conn.next >= 1
<1>1. bound.events \in Nat /\ bound.sessions \in Nat
  BY BoundFacts DEF TypeInv
<1>2. \A a \in 0 .. bound.events : a \in Nat
  BY <1>1
<1>3. \A a \in 1 .. session : a \in Nat
  OBVIOUS
<1>4. session \in Nat
  BY <1>1 DEF TypeInv
<1>5. Items \in Seq(ItemType) /\ Fit(Items) /\ Len(Items) <= MaxItems
  BY DEF TypeInv, Fit, Items
<1>6. /\ screen.from \in Nat /\ screen.lastSeq \in Nat /\ screen.from <= screen.lastSeq
      /\ screen.tipSeq \in Nat /\ screen.cards \in SUBSET Request
  BY <1>2 DEF TypeInv
<1>7. screen.of \in Nat /\ screen.session \in Nat
  BY <1>4 DEF TypeInv
<1>8. Len(log) \in Nat /\ Len(out) \in Nat
  BY DEF TypeInv
<1>9. shown \in Nat
  BY <1>8 DEF TypeInv
<1>10. conn.next \in Nat /\ conn.next >= 1
  BY <1>1 DEF TypeInv
<1> QED BY <1>4, <1>5, <1>6, <1>7, <1>8, <1>9, <1>10, ItemsFacts

\* The types of the runs.
LEMMA TypeOKFromInv == ASSUME TypeInv PROVE TypeOK
<1>1. bound.events \in Nat /\ bound.sessions \in Nat \ {0} /\ bound.breaks \in Nat
  BY BoundFacts DEF TypeInv
<1>2. EventType \subseteq [kind : EventKind, ref : Ref]
  BY DEF EventType
<1>3. /\ out \in Seq([kind : EventKind, ref : Ref])
      /\ log \in Seq([kind : EventKind, ref : Ref])
  BY <1>2, WiderFacts DEF TypeInv
<1>4. Len(log) <= bound.events /\ shown \in 0 .. bound.events
  <2>1. shown <= Len(log) /\ Len(log) + Len(out) <= bound.events
    BY ScreenFacts DEF TypeInv
  <2> QED BY <1>1, <2>1, ScreenFacts
<1>5. \A i \in DOMAIN screen.items :
        screen.items[i].kind \in {"prompt", "assistant", "tool", "permission", "notice"}
  BY ScreenFacts, ItemsFacts DEF Items, ItemType, ItemKind
<1> QED BY <1>3, <1>4, <1>5 DEF TypeInv, TypeOK

\* What is applied to a screen of the session is in its log.
LEMMA CurrentFacts ==
  ASSUME TypeInv, SeqInv, StreamInv, Current
  PROVE  /\ screen.lastSeq <= Len(log)
         /\ Stream(Items, Len(Items) >= MaxItems, log, screen.from, screen.lastSeq)
<1>1. shown <= Len(log) /\ screen.lastSeq <= shown
  BY ScreenFacts DEF TypeInv, SeqInv, Current
<1> QED BY <1>1, ScreenFacts DEF StreamInv, Current

\* The text.
LEMMA TextFromInv == ASSUME TypeInv, SeqInv, StreamInv PROVE TextIsKept
<1> SUFFICES ASSUME Current
             PROVE  /\ ToSet(Texts) \subseteq Applied("text_delta")
                    /\ \A i, j \in DOMAIN Texts : i < j => Texts[i] < Texts[j]
                    /\ \A n \in Applied("text_delta") \ ToSet(Texts) :
                         Trimmed(n) \/ \E i \in ItemsOf("assistant") :
                           /\ Len(Items[i].text) >= Kept /\ Items[i].seq <= n
                           /\ i < Len(Items) => n < Items[i + 1].seq
  BY DEF TextIsKept
<1>1. Stream(Items, Len(Items) >= MaxItems, log, screen.from, screen.lastSeq)
  BY CurrentFacts
<1>2. Items \in Seq(ItemType) /\ screen.from \in Nat /\ screen.lastSeq \in Nat
      /\ Len(Items) \in Nat /\ Len(Items) <= MaxItems /\ DOMAIN Items = 1 .. Len(Items)
  BY ScreenFacts, ItemsFacts
<1> DEFINE items == Items
<1>3. Written(items, log, screen.from, screen.lastSeq)
  BY <1>1 DEF Stream
<1>4. /\ \A a, b \in DOMAIN Texts : a < b => Texts[a] < Texts[b]
      /\ \A v : v \in ToSet(Texts) <=> Wrote(items, v)
  BY <1>2, <1>3, TextsFacts DEF Texts
<1>5. ASSUME NEW n \in ToSet(Texts)
      PROVE  n \in Applied("text_delta")
  <2>1. PICK i \in DOMAIN items : \E a \in DOMAIN items[i].text : items[i].text[a] = n
    BY <1>4 DEF Wrote
  <2>2. PICK a \in DOMAIN items[i].text : items[i].text[a] = n
    BY <2>1
  <2>3. n \in Nat /\ screen.from < n /\ n <= screen.lastSeq /\ log[n].kind = "text_delta"
    BY <1>2, <1>3, <2>2, ItemsFacts DEF Written
  <2> QED BY <1>2, <2>3 DEF Applied
<1>6. ASSUME NEW n \in Applied("text_delta"), n \notin ToSet(Texts)
      PROVE  Trimmed(n) \/ \E i \in ItemsOf("assistant") :
               /\ Len(Items[i].text) >= Kept /\ Items[i].seq <= n
               /\ i < Len(Items) => n < Items[i + 1].seq
  <2>1. n \in screen.from + 1 .. screen.lastSeq /\ log[n].kind = "text_delta"
    BY DEF Applied
  <2>2. Above(items, Len(items) >= MaxItems, n) \/ Wrote(items, n) \/ Cut(items, n)
    BY <1>1, <2>1 DEF Stream, Covered
  <2>3. CASE Above(items, Len(items) >= MaxItems, n)
    <3>1. Len(Items) = MaxItems
      BY <1>2, <2>3, TranscriptAssumption DEF Above
    <3> QED BY <2>3, <3>1 DEF Above, Trimmed
  <2>4. CASE Cut(items, n)
    <3>1. PICK i \in DOMAIN items :
            /\ items[i].kind = "assistant"
            /\ Len(items[i].text) >= Kept /\ items[i].text[Kept] < n
            /\ \A j \in DOMAIN items : i < j => n < items[j].seq
      BY <2>4 DEF Cut
    <3>2. i < Len(items) => i + 1 \in DOMAIN items /\ i < i + 1
      BY <1>2
    <3>3. i \in ItemsOf("assistant")
      BY <3>1 DEF ItemsOf
    <3>4. items[i].seq <= n
      <4> DEFINE t == items[i].text
      <4>1. 1 \in DOMAIN t /\ Kept \in DOMAIN t /\ t[1] \in Nat /\ t[Kept] \in Nat
        BY <1>2, <3>1, KeptFacts, ItemsFacts
      <4>2. t[1] = items[i].seq /\ (1 < Kept => t[1] < t[Kept])
        BY <1>3, <3>1, <4>1 DEF Written
      <4>3. 1 = Kept \/ 1 < Kept
        BY KeptFacts
      <4>4. n \in Nat /\ t[Kept] < n
        BY <1>2, <2>1, <3>1
      <4> HIDE DEF t
      <4>5. t[1] <= n
        BY <4>1, <4>2, <4>3, <4>4
      <4> QED BY <4>2, <4>5
    <3> QED BY <3>1, <3>2, <3>3, <3>4
  <2> QED BY <1>4, <1>6, <2>2, <2>3, <2>4
<1> QED BY <1>4, <1>5, <1>6

\* The turns.
LEMMA TurnsFromInv == ASSUME TypeInv, SeqInv, StreamInv PROVE TurnsDoNotMix
<1> SUFFICES ASSUME Current, NEW i \in ItemsOf("assistant"),
                    NEW n \in Applied("turn_complete") \cup Applied("user_prompt")
             PROVE  n < Items[i].text[1] \/ Last(Items[i].text) < n
  BY DEF TurnsDoNotMix
<1>1. Stream(Items, Len(Items) >= MaxItems, log, screen.from, screen.lastSeq)
  BY CurrentFacts
<1>2. Items \in Seq(ItemType) /\ i \in DOMAIN Items /\ Items[i].kind = "assistant"
  BY ScreenFacts DEF ItemsOf
<1>3. n \in screen.from + 1 .. screen.lastSeq /\ log[n].kind \in Ends
  BY DEF Applied, Ends
<1>4. n < Items[i].seq \/ \A a \in DOMAIN Items[i].text : Items[i].text[a] < n
  BY <1>1, <1>2, <1>3 DEF Stream, Unmixed
<1>5. Items[i].text # <<>> /\ Items[i].text[1] = Items[i].seq /\ Items[i].text \in Seq(Nat)
  BY <1>1, <1>2, ItemsFacts DEF Stream, Written, ItemType
<1>6. Last(Items[i].text) = Items[i].text[Len(Items[i].text)]
      /\ Len(Items[i].text) \in DOMAIN Items[i].text
  BY <1>5 DEF Last
<1> QED BY <1>4, <1>5, <1>6

\* The tools.
LEMMA ToolsFromInv == ASSUME TypeInv, SeqInv, StreamInv PROVE ToolsFinishLifo
<1> SUFFICES ASSUME Current, NEW i \in ItemsOf("tool"),
                    log[Items[i].seq].kind = "tool_call_start"
             PROVE  LET n == Items[i].seq
                        name == log[n].ref
                    IN  Items[i].done <=> \E m \in n + 1 .. screen.lastSeq :
                          Cardinality(Calls("tool_call_end", name, n, m)) >
                            Cardinality(Calls("tool_call_start", name, n, m))
  BY DEF ToolsFinishLifo
<1> DEFINE t == Items[i]
<1>1. Nested(Tools(Items), log, screen.lastSeq)
  BY CurrentFacts DEF Stream
<1>2. t \in Tools(Items)
  BY DEF Tools, ItemsOf
<1>3. log[t.seq].ref = t.ref /\ (t.done <=> Outnumbered(log, t.ref, t.seq, screen.lastSeq))
  BY <1>1, <1>2 DEF Nested, CallRight
<1>4. \A kind, m : Count(log, kind, t.ref, t.seq, m) = Cardinality(Calls(kind, t.ref, t.seq, m))
  BY DEF Count, CallsOf, Calls
<1> QED BY <1>3, <1>4 DEF Outnumbered

\* The cards, and the requests among the items.
LEMMA CardsFromInv == ASSUME TypeInv, SeqInv, CardsInv, StreamInv PROVE CardsAreOpenRequests
<1> SUFFICES ASSUME Live, Current
             PROVE  /\ screen.cards = Open(SubSeq(log, 1, screen.lastSeq))
                    /\ \A i \in ItemsOf("permission") :
                         \/ Items[i].done <=> Items[i].ref \notin screen.cards
                         \/ \E m, n \in Applied("permission_request") : m # n /\ log[m] = log[n]
  BY DEF CardsAreOpenRequests
<1>1. /\ screen.lastSeq <= Len(log)
      /\ Stream(Items, Len(Items) >= MaxItems, log, screen.from, screen.lastSeq)
  BY CurrentFacts
<1>2. log \in Seq(EventType) /\ screen.lastSeq \in 0 .. Len(log) /\ screen.tipSeq \in Nat
  BY <1>1, ScreenFacts DEF TypeInv
<1>3. Open(SubSeq(log, 1, screen.lastSeq)) = {r \in Request : Asked(log, screen.lastSeq, r)}
  BY <1>2, OpenFacts
<1>4. \A r \in Request : r \in screen.cards <=> r \in Open(SubSeq(log, 1, screen.lastSeq))
  BY <1>2 DEF CardsInv, Live, Current
<1>5. screen.cards = Open(SubSeq(log, 1, screen.lastSeq))
  BY <1>3, <1>4, ScreenFacts
<1>6. ASSUME NEW i \in ItemsOf("permission")
      PROVE  \/ Items[i].done <=> Items[i].ref \notin screen.cards
             \/ \E m, n \in Applied("permission_request") : m # n /\ log[m] = log[n]
  <2> DEFINE r == Items[i].ref
             q == Items[i].seq
  <2>1. Items \in Seq(ItemType) /\ i \in DOMAIN Items /\ Items[i].kind = "permission"
    BY ScreenFacts DEF ItemsOf
  <2>2. /\ log[q] = Event("permission_request", r)
        /\ Items[i].done <=> \E j \in q + 1 .. screen.lastSeq :
                               log[j] = Event("permission_resolved", r)
    BY <1>1, <2>1 DEF Stream, Answered
  <2>3. q \in screen.from + 1 .. screen.lastSeq /\ screen.from \in Nat
    BY <1>1, <2>1, ItemsFacts, ScreenFacts DEF Stream, Ordered
  <2>4. q \in 1 .. screen.lastSeq /\ q \in Applied("permission_request")
    BY <1>2, <2>2, <2>3, EventFacts DEF Applied
  <2>5. r \in Request
    <3>1. log[q] \in EventType
      BY <1>2, <2>4
    <3>2. log[q].kind = "permission_request" /\ log[q].ref = r
      BY <2>2, EventFacts
    <3> QED BY <3>1, <3>2 DEF EventType
  <2>6. r \in screen.cards <=> Asked(log, screen.lastSeq, r)
    BY <1>3, <1>4, <2>5
  <2> HIDE DEF r, q
  <2>7. CASE ~Items[i].done
    <3>1. Asked(log, screen.lastSeq, r)
      BY <2>2, <2>4, <2>7 DEF Asked
    <3> QED BY <2>6, <2>7, <3>1 DEF r
  <2>8. CASE Items[i].done /\ Asked(log, screen.lastSeq, r)
    <3>1. PICK n \in 1 .. screen.lastSeq :
            /\ log[n] = Event("permission_request", r)
            /\ \A j \in n + 1 .. screen.lastSeq : log[j] # Event("permission_resolved", r)
      BY <2>8 DEF Asked
    <3>2. PICK j \in q + 1 .. screen.lastSeq : log[j] = Event("permission_resolved", r)
      BY <2>2, <2>8
    <3>3. n > q
      BY <1>2, <2>3, <3>1, <3>2
    <3>4. n \in Applied("permission_request") /\ n # q /\ log[n] = log[q]
      BY <1>2, <2>2, <2>3, <3>1, <3>3, EventFacts DEF Applied
    <3> QED BY <2>4, <3>4
  <2>9. CASE Items[i].done /\ ~Asked(log, screen.lastSeq, r)
    BY <2>6, <2>9 DEF r
  <2> QED BY <2>7, <2>8, <2>9
<1> QED BY <1>5, <1>6

\* The events.
LEMMA SkippedFromInv == ASSUME TypeInv, SeqInv PROVE NothingIsSkipped
<1> SUFFICES ASSUME Live, conn.next > Len(log), screen.of = session
             PROVE  screen.lastSeq = Len(log) /\ shown = Len(log)
  BY DEF NothingIsSkipped
<1>1. /\ screen.lastSeq \in Nat /\ shown \in Nat /\ Len(log) \in Nat
      /\ conn.next \in Nat /\ screen.tipSeq \in Nat
  BY ScreenFacts
<1>2. screen.lastSeq <= shown /\ shown <= Len(log)
  BY <1>1 DEF SeqInv, TypeInv
<1>3. conn.next <= screen.lastSeq + 1 \/ screen.lastSeq < screen.tipSeq
  BY DEF SeqInv, Live
<1> QED BY <1>1, <1>2, <1>3 DEF Live

-----------------------------------------------------------------------------
(* Every step keeps the invariant *)

\* An event more changes no prefix of the log.
LEMMA OpenAgrees ==
  ASSUME NEW events \in Seq(EventType), NEW e \in EventType, NEW n \in 0 .. Len(events)
  PROVE  Open(SubSeq(Append(events, e), 1, n)) = Open(SubSeq(events, 1, n))
<1> DEFINE more == Append(events, e)
<1>1. /\ more \in Seq(EventType) /\ Len(more) = Len(events) + 1 /\ Len(events) \in Nat
      /\ \A i \in DOMAIN events : more[i] = events[i]
      /\ DOMAIN events = 1 .. Len(events)
  BY AppendFacts
<1> HIDE DEF more
<1>2. n \in 0 .. Len(more) /\ n \in Nat /\ \A i \in 1 .. n : more[i] = events[i]
  BY <1>1
<1>3. \A r \in Request : Asked(more, n, r) <=> Asked(events, n, r)
  BY <1>2, AskedAgrees
<1>4. Open(SubSeq(more, 1, n)) = {r \in Request : Asked(more, n, r)}
  BY <1>1, <1>2, OpenFacts
<1>5. Open(SubSeq(events, 1, n)) = {r \in Request : Asked(events, n, r)}
  BY OpenFacts
<1> QED BY <1>3, <1>4, <1>5 DEF more

\* A blank screen fits every log.
LEMMA BlankStream ==
  ASSUME TypeInv, Blank, NEW full, NEW events
  PROVE  Stream(Items, full, events, screen.from, screen.lastSeq)
BY EmptyFacts, ScreenFacts DEF Blank, Items

\* The initial states.
LEMMA InvAtInit == ASSUME Init PROVE Inv
<1>1. bound.events \in Nat /\ bound.sessions \in Nat \ {0} /\ bound.breaks \in Nat
  BY BoundFacts DEF Init
<1>2. screen = [session |-> 0, lastSeq |-> 0, tipSeq |-> 0, items |-> <<>>, cards |-> {},
                from |-> 0, of |-> 1]
  BY DEF Init, NewScreen
<1>3. /\ <<>> \in Seq(ItemType) /\ <<>> \in Seq(EventType) /\ Len(<<>>) = 0 /\ DOMAIN <<>> = {}
      /\ MaxItems \in Nat
  BY TranscriptAssumption
<1>4. 0 \in 0 .. bound.events /\ 1 \in 1 .. bound.sessions /\ 1 \in 1 .. bound.events + 1
      /\ 0 \in 0 .. bound.breaks
  BY <1>1
<1>5. /\ bound \in Bound /\ out = <<>> /\ log = <<>> /\ session = 1 /\ shown = 0 /\ breaks = 0
      /\ conn = [up |-> FALSE, next |-> 1]
      /\ saved = [seq |-> 0, of |-> 1] /\ timer = [seq |-> 0, of |-> 0]
  BY DEF Init
<1>6. TypeInv
  <2>1. screen \in [session : 0 .. session, lastSeq : 0 .. bound.events, tipSeq : 0 .. bound.events,
                    items : Seq(ItemType), cards : SUBSET Request,
                    from : 0 .. bound.events, of : 1 .. session]
    BY <1>2, <1>3, <1>4, <1>5
  <2>2. screen.from <= screen.lastSeq /\ Len(screen.items) <= MaxItems /\ DOMAIN screen.items = {}
    BY <1>2, <1>3
  <2>3. /\ conn \in [up : BOOLEAN, next : 1 .. bound.events + 1]
        /\ saved \in [seq : 0 .. bound.events, of : 1 .. session]
        /\ timer \in [seq : 0 .. bound.events, of : 0 .. session] /\ timer.seq = 0
    BY <1>4, <1>5
  <2>4. /\ shown \in 0 .. Len(log) /\ Len(log) + Len(out) <= bound.events
        /\ session \in 1 .. bound.sessions
    BY <1>1, <1>3, <1>5
  <2> QED BY <1>3, <1>4, <1>5, <2>1, <2>2, <2>3, <2>4 DEF TypeInv
<1>7. SeqInv /\ CardsInv
  BY <1>2, <1>5 DEF SeqInv, CardsInv
<1>8. StreamInv
  BY <1>2, <1>5 DEF StreamInv, Blank
<1> QED BY <1>6, <1>7, <1>8 DEF Inv

\* An event is appended to the log.
LEMMA LogStep ==
  ASSUME Inv, NEW e \in EventType, log' = Append(log, e),
         UNCHANGED <<session, phoneVars, breaks, bound>>,
         out' \in Seq(EventType), Len(log) + 1 + Len(out') <= bound.events
  PROVE  Inv'
<1>1. TypeInv /\ SeqInv /\ CardsInv /\ StreamInv
  BY DEF Inv
<1>2. log \in Seq(EventType) /\ Len(log) \in Nat
  BY <1>1, ScreenFacts DEF TypeInv
<1>3. /\ log' \in Seq(EventType) /\ Len(log') = Len(log) + 1
      /\ \A i \in 1 .. Len(log) : log'[i] = log[i]
  BY <1>2, AppendFacts
<1>4. /\ session' = session /\ conn' = conn /\ screen' = screen /\ saved' = saved
      /\ timer' = timer /\ shown' = shown /\ breaks' = breaks /\ bound' = bound
  BY DEF phoneVars
<1>5. TypeInv'
  <2>1. shown \in 0 .. Len(log')
    BY <1>1, <1>2, <1>3 DEF TypeInv
  <2>2. Len(log') + Len(out') <= bound.events
    BY <1>3
  <2> QED BY <1>1, <1>3, <1>4, <2>1, <2>2 DEF TypeInv
<1>6. SeqInv'
  <2>1. \A n \in Nat : n <= Len(log) => n <= Len(log')
    BY <1>2, <1>3
  <2>2. \A n \in Nat : n <= Len(log) + 1 => n <= Len(log') + 1
    BY <1>2, <1>3
  <2> QED BY <1>1, <1>4, <2>1, <2>2, ScreenFacts DEF SeqInv
<1>7. CardsInv'
  <2>1. SUFFICES ASSUME conn.up, screen.of = session
                 PROVE  CardsInv'
    BY <1>4 DEF CardsInv
  <2>2. screen.lastSeq \in 0 .. Len(log) /\ screen.tipSeq \in 0 .. Len(log)
    <3>1. shown <= Len(log) /\ screen.lastSeq <= shown /\ screen.tipSeq <= Len(log)
      BY <1>1, <2>1, ScreenFacts DEF SeqInv, TypeInv
    <3> QED BY <1>1, <3>1, ScreenFacts
  <2>3. /\ Open(SubSeq(log', 1, screen.lastSeq)) = Open(SubSeq(log, 1, screen.lastSeq))
        /\ Open(SubSeq(log', 1, screen.tipSeq)) = Open(SubSeq(log, 1, screen.tipSeq))
    BY <1>2, <2>2, OpenAgrees
  <2> QED BY <1>1, <1>4, <2>1, <2>3 DEF CardsInv
<1>8. StreamInv'
  <2>1. screen.session = 0 => Blank
    BY <1>1 DEF StreamInv
  <2>2. ASSUME screen.session = session, ~Blank
        PROVE  /\ screen.lastSeq <= Len(log')
               /\ Stream(Items, Len(Items) >= MaxItems, log', screen.from, screen.lastSeq)
    <3>1. /\ screen.lastSeq <= Len(log)
          /\ Stream(Items, Len(Items) >= MaxItems, log, screen.from, screen.lastSeq)
      BY <1>1, <2>2 DEF StreamInv
    <3>2. \A i \in 1 .. screen.lastSeq : log'[i] = log[i]
      BY <1>1, <1>2, <1>3, <3>1, ScreenFacts
    <3>3. screen.lastSeq <= Len(log')
      BY <1>1, <1>2, <1>3, <3>1, ScreenFacts
    <3> QED BY <1>1, <3>1, <3>2, <3>3, StreamAgrees, ScreenFacts
  <2>3. Blank => Stream(Items, Len(Items) >= MaxItems, log', screen.from, screen.lastSeq)
    BY <1>1, BlankStream
  <2> QED BY <1>4, <2>1, <2>2, <2>3 DEF StreamInv, Blank, Items
<1> QED BY <1>5, <1>6, <1>7, <1>8 DEF Inv

\* A line of claude's output.
LEMMA LineStep ==
  ASSUME Inv, NEW line \in Line, HandleStreamJSON(line)
  PROVE  Inv'
<1>1. TypeInv /\ SeqInv /\ CardsInv /\ StreamInv
  BY DEF Inv
<1>2. out' \in Seq(EventType) /\ Len(log) + Len(out') <= bound.events
  BY LineFacts DEF HandleStreamJSON
<1>3. /\ log' = log /\ session' = session /\ conn' = conn /\ screen' = screen /\ saved' = saved
      /\ timer' = timer /\ shown' = shown /\ breaks' = breaks /\ bound' = bound
  BY DEF HandleStreamJSON, phoneVars
<1>4. TypeInv'
  BY <1>1, <1>2, <1>3 DEF TypeInv
<1>5. SeqInv' /\ CardsInv' /\ StreamInv'
  BY <1>1, <1>3 DEF SeqInv, CardsInv, StreamInv, Blank, Items
<1> QED BY <1>4, <1>5 DEF Inv

\* An event of claude enters the log.
LEMMA IngestStep == ASSUME Inv, IngestEvent PROVE Inv'
<1>1. TypeInv /\ out # <<>> /\ log' = Append(log, Head(out)) /\ out' = Tail(out)
      /\ UNCHANGED <<session, phoneVars, breaks, bound>>
  BY DEF Inv, IngestEvent
<1>2. out \in Seq(EventType) /\ Len(log) + Len(out) <= bound.events /\ Len(log) \in Nat
      /\ Len(out) \in Nat
  BY <1>1, ScreenFacts DEF TypeInv
<1>3. Head(out) \in EventType /\ Tail(out) \in Seq(EventType) /\ Len(Tail(out)) = Len(out) - 1
  BY <1>1, <1>2, TailFacts
<1>4. Len(log) + 1 + Len(out') <= bound.events
  BY <1>1, <1>2, <1>3
<1> QED BY <1>1, <1>3, <1>4, LogStep

\* A device's command enters the log.
LEMMA CommandStep == ASSUME Inv, NEW e \in EventType, CommandEvent(e) PROVE Inv'
<1>1. TypeInv /\ log' = Append(log, e) /\ out' = out /\ Len(log) + Len(out) < bound.events
      /\ UNCHANGED <<session, phoneVars, breaks, bound>>
  BY DEF Inv, CommandEvent
<1>2. out \in Seq(EventType) /\ Len(log) \in Nat /\ Len(out) \in Nat /\ bound.events \in Nat
  BY <1>1, ScreenFacts, BoundFacts DEF TypeInv
<1>3. Len(log) + 1 + Len(out') <= bound.events
  BY <1>1, <1>2
<1> QED BY <1>1, <1>2, <1>3, LogStep

\* The daemon restarts.
LEMMA RestartStep == ASSUME Inv, Restart PROVE Inv'
<1>1. TypeInv /\ SeqInv /\ CardsInv /\ StreamInv
  BY DEF Inv
<1>2. /\ session < bound.sessions /\ session' = session + 1
      /\ out' = <<>> /\ log' = <<>> /\ shown' = 0
      /\ conn' = [conn EXCEPT !.up = FALSE]
      /\ screen' = screen /\ saved' = saved /\ timer' = timer /\ breaks' = breaks
      /\ bound' = bound
  BY DEF Restart
<1>3. /\ bound.events \in Nat /\ bound.sessions \in Nat \ {0} /\ session \in 1 .. bound.sessions
  BY <1>1, BoundFacts DEF TypeInv
<1>4. /\ session' \in 1 .. bound.sessions
      /\ 0 .. session \subseteq 0 .. session' /\ 1 .. session \subseteq 1 .. session'
      /\ \A s \in 0 .. session : s # session'
  BY <1>2, <1>3
<1>5. /\ conn' \in [up : BOOLEAN, next : 1 .. bound.events + 1] /\ ~conn'.up
  BY <1>1, <1>2 DEF TypeInv
<1>6. /\ saved.of \in 1 .. session /\ timer.of \in 0 .. session
      /\ screen.of \in 1 .. session /\ screen.session \in 0 .. session
      /\ 1 .. session \subseteq 0 .. session
  BY <1>1, <1>3 DEF TypeInv
<1>7. TypeInv'
  <2>1. saved \in [seq : 0 .. bound.events, of : 1 .. session']
    <3>1. saved \in [seq : 0 .. bound.events, of : 1 .. session]
      BY <1>1 DEF TypeInv
    <3> QED BY <1>4, <3>1
  <2>2. timer \in [seq : 0 .. bound.events, of : 0 .. session']
    <3>1. timer \in [seq : 0 .. bound.events, of : 0 .. session]
      BY <1>1 DEF TypeInv
    <3> QED BY <1>4, <3>1
  <2>3. screen \in [session : 0 .. session', lastSeq : 0 .. bound.events,
                    tipSeq : 0 .. bound.events,
                    items : Seq(ItemType), cards : SUBSET Request,
                    from : 0 .. bound.events, of : 1 .. session']
    <3>1. screen \in [session : 0 .. session, lastSeq : 0 .. bound.events,
                      tipSeq : 0 .. bound.events,
                      items : Seq(ItemType), cards : SUBSET Request,
                      from : 0 .. bound.events, of : 1 .. session]
      BY <1>1 DEF TypeInv
    <3> QED BY <1>4, <3>1
  <2>4. /\ out' \in Seq(EventType) /\ log' \in Seq(EventType)
        /\ Len(log') + Len(out') <= bound.events /\ shown' \in 0 .. Len(log')
    BY <1>2, <1>3
  <2>5. /\ bound \in Bound /\ breaks \in 0 .. bound.breaks
        /\ timer.seq > 0 => timer.of > 0
    BY <1>1 DEF TypeInv
  <2>6. /\ screen.from <= screen.lastSeq
        /\ Len(screen.items) <= MaxItems
        /\ \A i \in DOMAIN screen.items : Len(screen.items[i].text) <= MaxText
    BY <1>1 DEF TypeInv
  <2> QED BY <1>2, <1>4, <1>5, <2>1, <2>2, <2>3, <2>4, <2>5, <2>6 DEF TypeInv
<1>8. SeqInv' /\ CardsInv'
  BY <1>2, <1>4, <1>5, <1>6 DEF SeqInv, CardsInv
<1>9. StreamInv'
  BY <1>1, <1>2, <1>4, <1>6 DEF StreamInv, Blank
<1> QED BY <1>7, <1>8, <1>9 DEF Inv

\* What the other steps share: nothing of the daemon's changes.
LEMMA ConnectStep == ASSUME Inv, Connect PROVE Inv'
<1>1. TypeInv /\ SeqInv /\ CardsInv /\ StreamInv
  BY DEF Inv
<1>2. /\ out' = out /\ log' = log /\ session' = session /\ saved' = saved /\ timer' = timer
      /\ shown' = shown /\ breaks' = breaks /\ bound' = bound
      /\ conn' = [up |-> TRUE, next |-> Min({screen.lastSeq, Len(log)}) + 1]
      /\ screen' = ApplySnapshot
  BY DEF Connect, hubVars
<1>3. /\ bound.events \in Nat /\ screen.lastSeq \in Nat /\ Len(log) \in Nat /\ shown \in Nat
      /\ Len(log) <= bound.events /\ shown <= Len(log) /\ log \in Seq(EventType)
      /\ session \in Nat
  <2>1. Len(log) + Len(out) <= bound.events /\ bound.events \in Nat
    BY <1>1, BoundFacts DEF TypeInv
  <2>2. Len(log) \in Nat /\ Len(out) \in Nat
    BY <1>1, ScreenFacts
  <2> QED BY <1>1, <2>1, <2>2, ScreenFacts DEF TypeInv
<1>4. PICK n \in Nat : n = Min({screen.lastSeq, Len(log)})
  BY <1>3, PairFacts
<1>5. n <= Len(log) /\ n <= screen.lastSeq
  BY <1>3, <1>4, PairFacts
<1>6. conn' = [up |-> TRUE, next |-> n + 1]
  BY <1>2, <1>4
<1>7. conn' \in [up : BOOLEAN, next : 1 .. bound.events + 1]
  BY <1>3, <1>5, <1>6
<1>8. Open(log) \in SUBSET Request
  BY DEF Open
<1>9. session \in 0 .. session /\ session \in 1 .. session /\ Len(log) \in 0 .. bound.events
      /\ 0 \in 0 .. bound.events
  BY <1>1, <1>3 DEF TypeInv
<1> DEFINE Kind == screen.session \in {0, session}
<1>10. PICK s : s = screen'
  OBVIOUS
<1>11. /\ s.session = session /\ s.tipSeq = Len(log) /\ s.cards = Open(log)
       /\ IF Kind THEN s.lastSeq = screen.lastSeq /\ s.items = screen.items
                       /\ s.from = screen.from /\ s.of = screen.of
                  ELSE s.lastSeq = 0 /\ s.items = <<>> /\ s.from = 0 /\ s.of = session
       /\ s \in [session : 0 .. session, lastSeq : 0 .. bound.events, tipSeq : 0 .. bound.events,
                 items : Seq(ItemType), cards : SUBSET Request,
                 from : 0 .. bound.events, of : 1 .. session]
  <2>1. screen \in [session : 0 .. session, lastSeq : 0 .. bound.events,
                    tipSeq : 0 .. bound.events,
                    items : Seq(ItemType), cards : SUBSET Request,
                    from : 0 .. bound.events, of : 1 .. session]
    BY <1>1 DEF TypeInv
  <2>2. CASE Kind
    <3>1. s = [screen EXCEPT !.session = session, !.tipSeq = Len(log), !.cards = Open(log)]
      BY <1>2, <1>10, <2>2 DEF ApplySnapshot
    <3> QED BY <1>8, <1>9, <2>1, <2>2, <3>1
  <2>3. CASE ~Kind
    <3>1. s = [[session |-> 0, lastSeq |-> 0, tipSeq |-> 0, items |-> <<>>, cards |-> {},
                from |-> 0, of |-> session]
                 EXCEPT !.session = session, !.tipSeq = Len(log), !.cards = Open(log)]
      BY <1>2, <1>10, <2>3 DEF ApplySnapshot, NewScreen
    <3>2. s = [session |-> session, lastSeq |-> 0, tipSeq |-> Len(log), items |-> <<>>,
               cards |-> Open(log), from |-> 0, of |-> session]
      BY <3>1
    <3>3. <<>> \in Seq(ItemType)
      OBVIOUS
    <3> QED BY <1>8, <1>9, <2>3, <3>2, <3>3
  <2> QED BY <2>2, <2>3
<1>12. /\ Fit(s.items) /\ s.items \in Seq(ItemType) /\ Len(s.items) <= MaxItems
       /\ s.from \in Nat /\ s.lastSeq \in Nat /\ s.from <= s.lastSeq
       /\ n <= s.lastSeq \/ s.lastSeq < s.tipSeq \/ n = 0
       /\ s.of = session => s.lastSeq <= shown
       /\ s.lastSeq <= Len(log) \/ (s.items = <<>> /\ s.from = s.lastSeq)
       /\ Stream(s.items, Len(s.items) >= MaxItems, log, s.from, s.lastSeq)
  <2>1. CASE Kind
    <3>1. Stream(Items, Len(Items) >= MaxItems, log, screen.from, screen.lastSeq)
          /\ (screen.lastSeq <= Len(log) \/ Blank)
      BY <1>1, <2>1, BlankStream DEF StreamInv
    <3>2. screen.of = session => screen.lastSeq <= shown
      BY <1>1 DEF SeqInv
    <3>3. /\ s.lastSeq = screen.lastSeq /\ s.items = Items
          /\ s.from = screen.from /\ s.of = screen.of
      BY <1>11, <2>1 DEF Items
    <3>4. /\ Fit(Items) /\ Items \in Seq(ItemType) /\ Len(Items) <= MaxItems
          /\ screen.from \in Nat /\ screen.lastSeq \in Nat /\ screen.from <= screen.lastSeq
      BY <1>1, ScreenFacts
    <3>5. screen.lastSeq <= Len(log) \/ (Items = <<>> /\ screen.from = screen.lastSeq)
      BY <3>1 DEF Blank, Items
    <3> QED BY <1>5, <3>1, <3>2, <3>3, <3>4, <3>5
  <2>2. CASE ~Kind
    <3>1. s.lastSeq = 0 /\ s.items = <<>> /\ s.from = 0 /\ s.tipSeq = Len(log)
      BY <1>11, <2>2
    <3>2. Fit(<<>>) /\ Len(<<>>) = 0 /\ Stream(<<>>, Len(<<>>) >= MaxItems, log, 0, 0)
      BY EmptyFacts
    <3>3. 0 <= MaxItems /\ <<>> \in Seq(ItemType)
      BY TranscriptAssumption
    <3>4. n = 0 \/ 0 < Len(log)
      BY <1>3, <1>5
    <3> QED BY <1>3, <3>1, <3>2, <3>3, <3>4
  <2> QED BY <2>1, <2>2
<1>13. TypeInv'
  <2>1. \A i \in DOMAIN s.items : Len(s.items[i].text) <= MaxText
    BY <1>12 DEF Fit
  <2> QED BY <1>1, <1>2, <1>7, <1>10, <1>11, <1>12, <2>1 DEF TypeInv
<1>14. SeqInv'
  <2>1. n + 1 <= Len(log) + 1 /\ (n + 1 <= s.lastSeq + 1 \/ s.lastSeq < s.tipSeq)
        /\ s.tipSeq <= Len(log)
    BY <1>3, <1>5, <1>11, <1>12
  <2> QED BY <1>1, <1>2, <1>6, <1>10, <1>11, <1>12, <2>1 DEF SeqInv
<1>15. CardsInv'
  <2>1. SUFFICES ASSUME s.of = session
                 PROVE  \/ s.cards = Open(SubSeq(log, 1, s.lastSeq))
                        \/ s.lastSeq < s.tipSeq /\ s.cards = Open(SubSeq(log, 1, s.tipSeq))
    BY <1>2, <1>10 DEF CardsInv
  <2>2. Open(SubSeq(log, 1, Len(log))) = Open(log)
    <3>1. Len(log) \in 0 .. Len(log)
      BY <1>3
    <3> QED BY <1>3, <3>1, OpenFacts, OpenOfAll
  <2>3. s.lastSeq <= Len(log)
    BY <1>3, <1>12, <2>1
  <2>4. s.lastSeq = Len(log) \/ s.lastSeq < s.tipSeq
    BY <1>3, <1>11, <1>12, <2>3
  <2> QED BY <1>11, <2>2, <2>4
<1>16. StreamInv'
  <2>1. session # 0
    BY <1>1 DEF TypeInv
  <2> QED BY <1>2, <1>10, <1>11, <1>12, <2>1 DEF StreamInv, Blank, Items
<1> QED BY <1>13, <1>14, <1>15, <1>16 DEF Inv

\* The connection is gone, and nothing else has changed.
LEMMA DownStep ==
  ASSUME Inv, conn' = [conn EXCEPT !.up = FALSE], breaks' \in 0 .. bound.breaks,
         UNCHANGED <<hubVars, screen, saved, timer, shown, bound>>
  PROVE  Inv'
<1>1. TypeInv /\ SeqInv /\ CardsInv /\ StreamInv
  BY DEF Inv
<1>2. /\ out' = out /\ log' = log /\ session' = session /\ saved' = saved /\ timer' = timer
      /\ shown' = shown /\ screen' = screen /\ bound' = bound
  BY DEF hubVars
<1>3. conn' \in [up : BOOLEAN, next : 1 .. bound.events + 1] /\ ~conn'.up
  BY <1>1 DEF TypeInv
<1>4. TypeInv'
  BY <1>1, <1>2, <1>3 DEF TypeInv
<1>5. SeqInv' /\ CardsInv' /\ StreamInv'
  BY <1>1, <1>2, <1>3 DEF SeqInv, CardsInv, StreamInv, Blank, Items
<1> QED BY <1>4, <1>5 DEF Inv

\* The connection is lost.
LEMMA LostStep == ASSUME Inv, ConnectionLost PROVE Inv'
<1>1. TypeInv /\ breaks < bound.breaks /\ breaks' = breaks + 1
      /\ conn' = [conn EXCEPT !.up = FALSE]
      /\ UNCHANGED <<hubVars, screen, saved, timer, shown, bound>>
  BY DEF Inv, ConnectionLost
<1>2. breaks' \in 0 .. bound.breaks
  <2>1. bound.breaks \in Nat /\ breaks \in 0 .. bound.breaks
    BY <1>1, BoundFacts DEF TypeInv
  <2> QED BY <1>1, <2>1
<1> QED BY <1>1, <1>2, DownStep

\* The seq on the screen is saved.
LEMMA TimerStep == ASSUME Inv, TimerFires PROVE Inv'
<1>1. TypeInv /\ SeqInv /\ CardsInv /\ StreamInv
  BY DEF Inv
<1>2. /\ out' = out /\ log' = log /\ session' = session /\ conn' = conn /\ breaks' = breaks
      /\ shown' = shown /\ screen' = screen /\ bound' = bound
      /\ timer.seq > 0 /\ saved' = timer /\ timer' = [seq |-> 0, of |-> 0]
  BY DEF TimerFires, hubVars
<1>3. saved' \in [seq : 0 .. bound.events, of : 1 .. session]
      /\ timer' \in [seq : 0 .. bound.events, of : 0 .. session] /\ ~(timer'.seq > 0)
  <2>1. timer \in [seq : 0 .. bound.events, of : 0 .. session] /\ timer.of > 0
        /\ bound.events \in Nat /\ session \in Nat
    BY <1>1, <1>2, BoundFacts, ScreenFacts DEF TypeInv
  <2>2. timer.of \in 1 .. session /\ 0 \in 0 .. bound.events /\ 0 \in 0 .. session
    BY <2>1
  <2> QED BY <1>2, <2>1, <2>2
<1>4. TypeInv'
  BY <1>1, <1>2, <1>3 DEF TypeInv
<1>5. SeqInv'
  <2>1. 0 <= shown
    BY <1>1, ScreenFacts
  <2> QED BY <1>1, <1>2, <2>1 DEF SeqInv
<1>6. CardsInv' /\ StreamInv'
  BY <1>1, <1>2 DEF CardsInv, StreamInv, Blank, Items
<1> QED BY <1>4, <1>5, <1>6 DEF Inv

\* The app is killed and opened again.
LEMMA AppStep == ASSUME Inv, AppRestart PROVE Inv'
<1>1. TypeInv /\ SeqInv /\ CardsInv /\ StreamInv
  BY DEF Inv
<1>2. /\ out' = out /\ log' = log /\ session' = session /\ saved' = saved
      /\ shown' = shown /\ bound' = bound /\ breaks' = breaks + 1 /\ breaks < bound.breaks
      /\ conn' = [conn EXCEPT !.up = FALSE] /\ timer' = [seq |-> 0, of |-> 0]
      /\ screen' = [session |-> 0, lastSeq |-> saved.seq, tipSeq |-> 0, items |-> <<>>,
                    cards |-> {}, from |-> saved.seq, of |-> saved.of]
  BY DEF AppRestart, hubVars, NewScreen
<1>3. /\ saved \in [seq : 0 .. bound.events, of : 1 .. session]
      /\ bound.events \in Nat /\ session \in Nat /\ breaks' \in 0 .. bound.breaks
  <2>1. bound.breaks \in Nat /\ breaks \in 0 .. bound.breaks
    BY <1>1, BoundFacts DEF TypeInv
  <2>2. breaks' \in 0 .. bound.breaks
    BY <1>2, <2>1
  <2> QED BY <1>1, <2>2, BoundFacts, ScreenFacts DEF TypeInv
<1>4. conn' \in [up : BOOLEAN, next : 1 .. bound.events + 1] /\ ~conn'.up
  BY <1>1, <1>2 DEF TypeInv
<1>5. /\ <<>> \in Seq(ItemType) /\ Len(<<>>) = 0 /\ DOMAIN <<>> = {} /\ 0 <= MaxItems
      /\ 0 \in 0 .. bound.events /\ 0 \in 0 .. session /\ saved.seq <= saved.seq
  BY <1>3, TranscriptAssumption
<1>6. timer' \in [seq : 0 .. bound.events, of : 0 .. session] /\ ~(timer'.seq > 0)
  BY <1>2, <1>5
<1>7. /\ screen' \in [session : 0 .. session, lastSeq : 0 .. bound.events,
                      tipSeq : 0 .. bound.events,
                      items : Seq(ItemType), cards : SUBSET Request,
                      from : 0 .. bound.events, of : 1 .. session]
      /\ screen'.items = <<>> /\ screen'.from <= screen'.lastSeq
  BY <1>2, <1>3, <1>5
<1>8. TypeInv'
  BY <1>1, <1>2, <1>3, <1>4, <1>5, <1>6, <1>7 DEF TypeInv
<1>9. SeqInv'
  <2>1. 0 <= shown
    BY <1>1, ScreenFacts
  <2> QED BY <1>1, <1>2, <1>4, <2>1 DEF SeqInv
<1>10. CardsInv' /\ StreamInv'
  BY <1>1, <1>2, <1>3, <1>4 DEF CardsInv, StreamInv, Blank, Items
<1> QED BY <1>8, <1>9, <1>10 DEF Inv

\* What is true where the next event is about to be delivered.
LEMMA DeliveryFacts ==
  ASSUME Inv, conn.up, conn.next <= Len(log)
  PROVE  /\ bound.events \in Nat /\ Len(log) \in Nat /\ Len(log) <= bound.events
         /\ conn.next \in 1 .. Len(log) /\ conn.next \in Nat
         /\ log \in Seq(EventType) /\ log[conn.next] \in EventType
         /\ screen.session = session /\ session \in 1 .. session /\ session > 0
<1>1. TypeInv /\ SeqInv
  BY DEF Inv
<1>2. Len(log) + Len(out) <= bound.events /\ bound.events \in Nat
      /\ Len(log) \in Nat /\ Len(out) \in Nat
  BY <1>1, BoundFacts, ScreenFacts DEF TypeInv
<1>3. conn.next \in Nat /\ conn.next >= 1 /\ log \in Seq(EventType) /\ session \in Nat
  BY <1>1, ScreenFacts DEF TypeInv
<1>4. conn.next \in 1 .. Len(log)
  BY <1>2, <1>3
<1>5. log[conn.next] \in EventType
  BY <1>3, <1>4
<1>6. screen.session = session /\ session \in 1 .. bound.sessions
  BY <1>1 DEF SeqInv, TypeInv
<1>7. session >= 1
  BY <1>1, BoundFacts DEF TypeInv
<1> QED BY <1>2, <1>3, <1>4, <1>5, <1>6, <1>7

\* An event that has been seen already: only the connection goes on.
LEMMA SeenStep ==
  ASSUME Inv, conn.up, conn.next <= Len(log), conn.next <= screen.lastSeq,
         conn' = [conn EXCEPT !.next = @ + 1],
         UNCHANGED <<hubVars, screen, saved, timer, shown, breaks, bound>>
  PROVE  Inv'
<1>1. TypeInv /\ SeqInv /\ CardsInv /\ StreamInv
  BY DEF Inv
<1>2. /\ out' = out /\ log' = log /\ session' = session /\ saved' = saved /\ timer' = timer
      /\ shown' = shown /\ screen' = screen /\ bound' = bound /\ breaks' = breaks
  BY DEF hubVars
<1>3. /\ conn' \in [up : BOOLEAN, next : 1 .. bound.events + 1]
      /\ conn'.up /\ conn'.next = conn.next + 1
  <2>1. conn \in [up : BOOLEAN, next : 1 .. bound.events + 1]
    BY <1>1 DEF TypeInv
  <2>2. conn.next + 1 \in 1 .. bound.events + 1
    BY DeliveryFacts
  <2> QED BY <2>1, <2>2
<1>4. TypeInv'
  BY <1>1, <1>2, <1>3 DEF TypeInv
<1>5. SeqInv'
  <2>1. conn.next + 1 <= Len(log) + 1 /\ conn.next + 1 <= screen.lastSeq + 1
    BY <1>1, DeliveryFacts, ScreenFacts
  <2> QED BY <1>1, <1>2, <1>3, <2>1 DEF SeqInv
<1>6. CardsInv' /\ StreamInv'
  BY <1>1, <1>2, <1>3 DEF CardsInv, StreamInv, Blank, Items
<1> QED BY <1>4, <1>5, <1>6 DEF Inv

\* The next event is put on the screen.
LEMMA ShownStep ==
  ASSUME Inv, conn.up, conn.next <= Len(log), conn.next = screen.lastSeq + 1,
         conn' = [conn EXCEPT !.next = @ + 1],
         screen' = [screen EXCEPT
                      !.lastSeq = conn.next,
                      !.items = TrimItems(ItemsAfter(@, conn.next, log[conn.next])),
                      !.cards = CardsAfter(@, log[conn.next])],
         SaveLater(screen'), shown' = Max({shown, conn.next}),
         UNCHANGED <<hubVars, saved, breaks, bound>>
  PROVE  Inv'
<1>1. TypeInv /\ SeqInv /\ CardsInv /\ StreamInv
  BY DEF Inv
<1>2. /\ out' = out /\ log' = log /\ session' = session /\ saved' = saved
      /\ bound' = bound /\ breaks' = breaks
  BY DEF hubVars
<1>3. PICK n \in Nat : n = conn.next
  BY DeliveryFacts
<1>4. PICK m \in Nat : m = screen.lastSeq
  BY <1>1, ScreenFacts
<1> DEFINE e == log[n]
           new == TrimItems(ItemsAfter(Items, n, e))
           cards == CardsAfter(screen.cards, e)
<1>5. /\ n = m + 1 /\ n \in 1 .. Len(log) /\ Len(log) \in Nat /\ Len(log) <= bound.events
      /\ bound.events \in Nat /\ e \in EventType /\ log \in Seq(EventType)
      /\ screen.session = session /\ session \in 1 .. session /\ session > 0
  BY <1>3, <1>4, DeliveryFacts
<1>6. /\ conn' \in [up : BOOLEAN, next : 1 .. bound.events + 1]
      /\ conn'.up /\ conn'.next = n + 1
  <2>1. conn \in [up : BOOLEAN, next : 1 .. bound.events + 1]
    BY <1>1 DEF TypeInv
  <2>2. n + 1 \in 1 .. bound.events + 1
    BY <1>5
  <2> QED BY <1>3, <2>1, <2>2
<1>7. Stream(Items, Len(Items) >= MaxItems, log, screen.from, m)
  BY <1>1, <1>4, <1>5 DEF StreamInv
<1>8. /\ Fit(Items) /\ Len(Items) <= MaxItems /\ screen.from \in Nat /\ screen.from <= m
      /\ screen.cards \in SUBSET Request /\ shown \in Nat
  BY <1>1, <1>4, ScreenFacts
<1>9. /\ Fit(new) /\ Len(new) <= MaxItems
      /\ Stream(new, Len(new) >= MaxItems, log, screen.from, n)
  BY <1>5, <1>7, <1>8, ScreenStep
<1>10. cards \in SUBSET Request
  BY <1>5, <1>8, CardsType
<1> HIDE DEF new
<1>11. /\ new \in Seq(ItemType) /\ n \in 0 .. bound.events
       /\ \A i \in DOMAIN new : Len(new[i].text) <= MaxText
  BY <1>5, <1>9 DEF Fit
<1>12. screen' = [screen EXCEPT !.lastSeq = n, !.items = new, !.cards = cards]
  BY <1>3 DEF new, Items
<1> HIDE DEF cards, e
<1>13. PICK s : s = screen'
  OBVIOUS
<1>14. /\ s \in [session : 0 .. session, lastSeq : 0 .. bound.events, tipSeq : 0 .. bound.events,
                 items : Seq(ItemType), cards : SUBSET Request,
                 from : 0 .. bound.events, of : 1 .. session]
       /\ s.session = session /\ s.lastSeq = n /\ s.tipSeq = screen.tipSeq
       /\ s.items = new /\ s.cards = cards /\ s.from = screen.from /\ s.of = screen.of
  <2>1. screen \in [session : 0 .. session, lastSeq : 0 .. bound.events,
                    tipSeq : 0 .. bound.events,
                    items : Seq(ItemType), cards : SUBSET Request,
                    from : 0 .. bound.events, of : 1 .. session]
    BY <1>1 DEF TypeInv
  <2> QED BY <1>5, <1>10, <1>11, <1>12, <1>13, <2>1
<1>15. shown' \in Nat /\ shown' <= Len(log) /\ shown <= shown' /\ n <= shown'
  <2>1. shown' = IF shown >= n THEN shown ELSE n
    BY <1>3, <1>8, PairFacts
  <2>2. shown <= Len(log)
    BY <1>1 DEF TypeInv
  <2> QED BY <1>5, <1>8, <2>1, <2>2
<1>16. /\ timer' \in [seq : 0 .. bound.events, of : 0 .. session]
       /\ timer'.seq > 0 => timer'.of > 0
       /\ timer'.of = session => timer'.seq <= shown'
  <2>1. timer' = IF n > saved.seq THEN [seq |-> n, of |-> session] ELSE timer
    BY <1>13, <1>14 DEF SaveLater, SeqToSave
  <2>2. CASE timer' = timer
    <3>1. timer \in [seq : 0 .. bound.events, of : 0 .. session]
          /\ (timer.seq > 0 => timer.of > 0) /\ (timer.of = session => timer.seq <= shown)
          /\ timer.seq \in Nat
      BY <1>1, <1>5 DEF TypeInv, SeqInv
    <3> QED BY <1>8, <1>15, <2>2, <3>1
  <2>3. CASE timer' = [seq |-> n, of |-> session]
    <3>1. session \in 0 .. session
      BY <1>5
    <3> QED BY <1>5, <1>11, <1>15, <2>3, <3>1
  <2> QED BY <2>1, <2>2, <2>3
<1>17. TypeInv'
  <2>1. shown' \in 0 .. Len(log) /\ s.from <= s.lastSeq
    BY <1>4, <1>5, <1>8, <1>14, <1>15
  <2> QED BY <1>1, <1>2, <1>6, <1>9, <1>11, <1>13, <1>14, <1>16, <2>1 DEF TypeInv
<1>18. SeqInv'
  <2>1. saved.of = session => saved.seq <= shown'
    <3>1. saved.seq \in Nat /\ (saved.of = session => saved.seq <= shown)
      BY <1>1, <1>5 DEF TypeInv, SeqInv
    <3> QED BY <1>8, <1>15, <3>1
  <2>2. screen.tipSeq <= Len(log) /\ n + 1 <= Len(log) + 1 /\ n + 1 <= n + 1
    BY <1>1, <1>5 DEF SeqInv
  <2> QED BY <1>2, <1>6, <1>13, <1>14, <1>15, <1>16, <2>1, <2>2 DEF SeqInv
<1>19. CardsInv'
  <2>1. SUFFICES ASSUME screen.of = session, NEW r \in Request
                 PROVE  \/ r \in cards <=> r \in Open(SubSeq(log, 1, n))
                        \/ /\ n < screen.tipSeq
                           /\ r \in cards <=> r \in Open(SubSeq(log, 1, screen.tipSeq))
    BY <1>2, <1>13, <1>14 DEF CardsInv
  <2>2. m \in 0 .. Len(log) /\ n \in 0 .. Len(log) /\ screen.tipSeq \in 0 .. Len(log)
    <3>1. screen.tipSeq <= Len(log) /\ screen.tipSeq \in Nat
      BY <1>1, ScreenFacts DEF SeqInv
    <3> QED BY <1>5, <3>1
  <2>3. \A k \in 0 .. Len(log) : r \in Open(SubSeq(log, 1, k)) <=> Asked(log, k, r)
    BY <1>5, OpenFacts
  <2>4. Asked(log, n, r) <=>
          \/ e = Event("permission_request", r)
          \/ Asked(log, m, r) /\ e # Event("permission_resolved", r)
    BY <1>5, AskedStep DEF e
  <2>5. r \in cards <=>
          \/ e = Event("permission_request", r)
          \/ r \in screen.cards /\ e # Event("permission_resolved", r)
    BY <1>5, CardStep DEF cards
  <2>6. \/ r \in screen.cards <=> Asked(log, m, r)
        \/ /\ m < screen.tipSeq
           /\ r \in screen.cards <=> Asked(log, screen.tipSeq, r)
    BY <1>1, <1>4, <2>1, <2>2, <2>3 DEF CardsInv
  <2>7. CASE r \in screen.cards <=> Asked(log, m, r)
    <3>1. r \in cards <=> Asked(log, n, r)
      BY <2>4, <2>5, <2>7
    <3> QED BY <2>2, <2>3, <3>1
  <2>8. CASE /\ m < screen.tipSeq
             /\ r \in screen.cards <=> Asked(log, screen.tipSeq, r)
    <3>1. CASE e \in {Event("permission_request", r), Event("permission_resolved", r)}
      <4>1. Event("permission_request", r) # Event("permission_resolved", r)
        BY EventFacts
      <4>2. r \in cards <=> Asked(log, n, r)
        BY <2>4, <2>5, <3>1, <4>1
      <4> QED BY <2>2, <2>3, <4>2
    <3>2. CASE e \notin {Event("permission_request", r), Event("permission_resolved", r)}
      <4>1. r \in cards <=> r \in screen.cards
        BY <2>5, <3>2
      <4>2. n < screen.tipSeq \/ n = screen.tipSeq
        BY <1>5, <2>2, <2>8
      <4> QED BY <2>2, <2>3, <2>8, <4>1, <4>2
    <3> QED BY <3>1, <3>2
  <2> QED BY <2>6, <2>7, <2>8
<1>20. StreamInv'
  <2>1. n <= Len(log) /\ session # 0
    BY <1>5
  <2> QED BY <1>2, <1>9, <1>13, <1>14, <2>1 DEF StreamInv, Items
<1> QED BY <1>17, <1>18, <1>19, <1>20 DEF Inv

\* An event is delivered: a seq that was seen, the next, or one after a gap.
LEMMA EventStep == ASSUME Inv, OnEvent PROVE Inv'
<1>1. conn.up /\ conn.next <= Len(log) /\ UNCHANGED <<hubVars, saved, breaks, bound>>
  BY DEF OnEvent
<1>2. conn.next \in Nat /\ screen.lastSeq \in Nat
  BY ScreenFacts DEF Inv
<1>3. CASE conn.next > screen.lastSeq + 1
  <2>1. conn' = [conn EXCEPT !.up = FALSE] /\ UNCHANGED <<screen, timer, shown>>
    BY <1>3 DEF OnEvent
  <2>2. breaks' \in 0 .. bound.breaks
    BY <1>1 DEF Inv, TypeInv
  <2> QED BY <1>1, <2>1, <2>2, DownStep
<1>4. CASE conn.next <= screen.lastSeq
  <2>1. ~(conn.next > screen.lastSeq + 1)
    BY <1>2, <1>4
  <2>2. conn' = [conn EXCEPT !.next = @ + 1] /\ UNCHANGED <<screen, timer, shown>>
    BY <1>4, <2>1 DEF OnEvent
  <2> QED BY <1>1, <1>4, <2>2, SeenStep
<1>5. CASE conn.next = screen.lastSeq + 1
  <2>1. ~(conn.next > screen.lastSeq + 1) /\ ~(conn.next <= screen.lastSeq)
    BY <1>2, <1>5
  <2>2. /\ conn' = [conn EXCEPT !.next = @ + 1]
        /\ screen' = [screen EXCEPT
                        !.lastSeq = conn.next,
                        !.items = TrimItems(ItemsAfter(@, conn.next, log[conn.next])),
                        !.cards = CardsAfter(@, log[conn.next])]
        /\ SaveLater(screen') /\ shown' = Max({shown, conn.next})
    BY <2>1 DEF OnEvent
  <2> QED BY <1>1, <1>5, <2>2, ShownStep
<1> QED BY <1>2, <1>3, <1>4, <1>5

\* Every step.
LEMMA InvStep == ASSUME Inv, [Next]_vars PROVE Inv'
<1>1. CASE \E line \in Line : HandleStreamJSON(line)
  BY <1>1, LineStep
<1>2. CASE IngestEvent
  BY <1>2, IngestStep
<1>3. CASE SendPrompt
  <2>1. Plain("user_prompt") \in EventType
    BY EventFacts DEF Plain, EventKind, Ref
  <2> QED BY <1>3, <2>1, CommandStep DEF SendPrompt
<1>4. CASE Restart
  BY <1>4, RestartStep
<1>5. ASSUME NEW r \in Request, AnswerPermission(r)
      PROVE  Inv'
  <2>1. Event("permission_resolved", r) \in EventType
    BY EventFacts DEF EventKind, Ref
  <2> QED BY <1>5, <2>1, CommandStep DEF AnswerPermission
<1>6. CASE Connect
  BY <1>6, ConnectStep
<1>7. CASE OnEvent
  BY <1>7, EventStep
<1>8. CASE TimerFires
  BY <1>8, TimerStep
<1>9. CASE ConnectionLost
  BY <1>9, LostStep
<1>10. CASE AppRestart
  BY <1>10, AppStep
<1>11. CASE UNCHANGED vars
  <2>1. /\ out' = out /\ log' = log /\ session' = session /\ conn' = conn /\ screen' = screen
        /\ saved' = saved /\ timer' = timer /\ shown' = shown /\ breaks' = breaks
        /\ bound' = bound
    BY <1>11 DEF vars, hubVars, phoneVars
  <2>2. TypeInv /\ SeqInv /\ CardsInv /\ StreamInv
    BY DEF Inv
  <2>3. TypeInv'
    BY <2>1, <2>2 DEF TypeInv
  <2>4. SeqInv' /\ CardsInv' /\ StreamInv'
    BY <2>1, <2>2 DEF SeqInv, CardsInv, StreamInv, Blank, Items
  <2> QED BY <2>3, <2>4 DEF Inv
<1> QED BY <1>1, <1>2, <1>3, <1>4, <1>5, <1>6, <1>7, <1>8, <1>9, <1>10, <1>11 DEF Next

\* The invariant holds of every reachable state.
LEMMA Invariance == Spec => []Inv
<1>1. Init => Inv
  BY InvAtInit
<1>2. Inv /\ [Next]_vars => Inv'
  BY InvStep
<1> QED BY <1>1, <1>2, PTL DEF Spec

\* Every variable has its type, and the items keep within the phone's bound
\* (TypeOK), whatever claude prints and however often the phone reconnects.
THEOREM TypeCorrect == Spec => []TypeOK
<1>1. Inv => TypeOK
  BY TypeOKFromInv DEF Inv
<1> QED BY <1>1, Invariance, PTL

\* What claude says is on the screen in its order and once (TextIsKept), with
\* every order of tools, prompts and requests and over every reconnection.
THEOREM TextIsInOrder == Spec => []TextIsKept
<1>1. Inv => TextIsKept
  BY TextFromInv DEF Inv
<1> QED BY <1>1, Invariance, PTL

\* No assistant item has text of two turns (TurnsDoNotMix).
THEOREM TurnsStayApart == Spec => []TurnsDoNotMix
<1>1. Inv => TurnsDoNotMix
  BY TurnsFromInv DEF Inv
<1> QED BY <1>1, Invariance, PTL

\* However calls of tools are nested, and whatever comes in between, a call is
\* shown as done just when it has ended, last in, first out (ToolsFinishLifo).
THEOREM ToolsFinishInOrder == Spec => []ToolsFinishLifo
<1>1. Inv => ToolsFinishLifo
  BY ToolsFromInv DEF Inv
<1> QED BY <1>1, Invariance, PTL

\* The cards of a live phone are the requests that its part of the log leaves
\* open (CardsAreOpenRequests), also after a catch-up and after it was killed.
THEOREM CardsAreAsLogged == Spec => []CardsAreOpenRequests
<1>1. Inv => CardsAreOpenRequests
  BY CardsFromInv DEF Inv
<1> QED BY <1>1, Invariance, PTL

\* A live phone has shown every event of the session (NothingIsSkipped).
THEOREM PhoneSkipsNothing == Spec => []NothingIsSkipped
<1>1. Inv => NothingIsSkipped
  BY SkippedFromInv DEF Inv
<1> QED BY <1>1, Invariance, PTL
=============================================================================
