-------------------------- MODULE SessionLogProofs --------------------------
(***************************************************************************)
(* What GetSnapshot computes for a log of any length, by induction over    *)
(* its events.                                                             *)
(***************************************************************************)
EXTENDS SessionLog, SequenceLemmas

-----------------------------------------------------------------------------
(* The fold *)

\* f[n] is what the first n events of log make of the empty view.
IsFold(f, log, m) ==
  f = [n \in 0 .. m |-> IF n = 0 THEN EmptyView
                                 ELSE Materialize(f[n - 1], log[n])]

\* A fold of m events says what each of its values is.
LEMMA FoldAt ==
  ASSUME NEW f, NEW log, NEW m \in Nat, IsFold(f, log, m)
  PROVE  /\ f[0] = EmptyView
         /\ \A n \in 1 .. m : f[n] = Materialize(f[n - 1], log[n])
<1> DEFINE Folded(h, n) == IF n = 0 THEN EmptyView ELSE Materialize(h[n - 1], log[n])
<1>1. f = [n \in 0 .. m |-> Folded(f, n)]
  BY DEF IsFold
<1>2. ASSUME NEW n \in 0 .. m PROVE f[n] = Folded(f, n)
  <2> HIDE DEF Folded
  <2>1. [i \in 0 .. m |-> Folded(f, i)][n] = Folded(f, n)
    OBVIOUS
  <2> QED BY <2>1, <1>1, Zenon
<1> QED BY <1>2

\* For every log and length there is a fold, by induction on the length.
LEMMA FoldExists ==
  ASSUME NEW log, NEW m \in Nat
  PROVE  \E f : IsFold(f, log, m)
<1> DEFINE S == {k \in Nat : \E f : IsFold(f, log, k)}
<1>1. 0 \in S
  <2>1. IsFold([n \in 0 .. 0 |-> EmptyView], log, 0)
    BY DEF IsFold
  <2> QED BY <2>1
<1>2. ASSUME NEW k \in Nat, k \in S PROVE k + 1 \in S
  <2>1. PICK f : IsFold(f, log, k)
    BY <1>2
  <2> DEFINE g == [n \in 0 .. (k + 1) |->
                     IF n = k + 1 THEN Materialize(f[k], log[k + 1]) ELSE f[n]]
  <2>2. ASSUME NEW n \in 0 .. (k + 1)
        PROVE  g[n] = IF n = 0 THEN EmptyView ELSE Materialize(g[n - 1], log[n])
    <3>1. CASE n = k + 1
      BY <3>1
    <3>2. CASE n # k + 1
      <4>1. n \in 0 .. k /\ g[n] = f[n] /\ (n # 0 => g[n - 1] = f[n - 1])
        BY <3>2
      <4> QED BY <4>1, <2>1, FoldAt
    <3> QED BY <3>1, <3>2
  <2>3. IsFold(g, log, k + 1)
    BY <2>2 DEF IsFold
  <2> QED BY <2>3
<1> QED BY <1>1, <1>2, SetInduction

\* Two folds agree as far as the events do.
LEMMA FoldsAgree ==
  ASSUME NEW f, NEW g, NEW log, NEW other, NEW a \in Nat, NEW b \in Nat,
         IsFold(f, log, a), IsFold(g, other, b),
         NEW k \in Nat, k <= a, k <= b, \A i \in 1 .. k : log[i] = other[i]
  PROVE  f[k] = g[k]
<1> DEFINE S == {n \in Nat : n <= k => f[n] = g[n]}
<1>1. 0 \in S
  BY FoldAt
<1>2. ASSUME NEW n \in Nat, n \in S PROVE n + 1 \in S
  <2> SUFFICES ASSUME n + 1 <= k PROVE f[n + 1] = g[n + 1]
    OBVIOUS
  <2>1. f[n + 1] = Materialize(f[(n + 1) - 1], log[n + 1])
    BY FoldAt
  <2>2. g[n + 1] = Materialize(g[(n + 1) - 1], other[n + 1])
    BY FoldAt
  <2>3. f[n] = g[n] /\ log[n + 1] = other[n + 1]
    BY <1>2
  <2> QED BY <2>1, <2>2, <2>3
<1>3. k \in S
  <2> HIDE DEF S
  <2> QED BY <1>1, <1>2, SetInduction
<1> QED BY <1>3

\* The recursive function of Snapshot is that fold.
LEMMA SnapshotIsFold ==
  ASSUME NEW log, Len(log) \in Nat
  PROVE  \E f : IsFold(f, log, Len(log)) /\ Snapshot(log) = f[Len(log)]
<1> DEFINE F == CHOOSE f : IsFold(f, log, Len(log))
<1>1. IsFold(F, log, Len(log))
  BY FoldExists
<1>2. Snapshot(log) = F[Len(log)]
  BY DEF Snapshot, IsFold
<1> QED BY <1>1, <1>2

\* One fold gives the snapshots of all prefixes of a log.
LEMMA SnapshotsOfPrefixes ==
  ASSUME NEW S, NEW log \in Seq(S)
  PROVE  \E f : /\ IsFold(f, log, Len(log))
                /\ \A n \in 0 .. Len(log) : Snapshot(SubSeq(log, 1, n)) = f[n]
<1>1. PICK f : IsFold(f, log, Len(log))
  BY FoldExists
<1>2. ASSUME NEW n \in 0 .. Len(log)
      PROVE  Snapshot(SubSeq(log, 1, n)) = f[n]
  <2> DEFINE prefix == SubSeq(log, 1, n)
  <2>1. /\ Len(prefix) = n
        /\ \A i \in 1 .. n : prefix[i] = log[i]
    OBVIOUS
  <2> HIDE DEF prefix
  <2>2. PICK g : IsFold(g, prefix, Len(prefix)) /\ Snapshot(prefix) = g[Len(prefix)]
    BY <2>1, SnapshotIsFold
  <2>3. g[n] = f[n]
    BY <1>1, <2>1, <2>2, FoldsAgree
  <2> QED BY <2>1, <2>2, <2>3 DEF prefix
<1> QED BY <1>1, <1>2

\* The snapshot of no event, and what one more event makes of a snapshot.
LEMMA SnapshotStep ==
  ASSUME NEW S, NEW log \in Seq(S)
  PROVE  /\ Snapshot(SubSeq(log, 1, 0)) = EmptyView
         /\ \A n \in 1 .. Len(log) :
              Snapshot(SubSeq(log, 1, n)) =
                Materialize(Snapshot(SubSeq(log, 1, n - 1)), log[n])
<1>1. PICK f : /\ IsFold(f, log, Len(log))
               /\ \A n \in 0 .. Len(log) : Snapshot(SubSeq(log, 1, n)) = f[n]
  BY SnapshotsOfPrefixes
<1>2. f[0] = EmptyView /\ \A n \in 1 .. Len(log) : f[n] = Materialize(f[n - 1], log[n])
  BY <1>1, FoldAt
<1> QED BY <1>1, <1>2

\* An event leaves a view a view.
LEMMA MaterializeType ==
  ASSUME NEW view \in View, NEW ev \in ProperEvent
  PROVE  Materialize(view, ev) \in View
BY DEF View, ProperEvent, Event, EventKind, Materialize

\* The snapshot of every prefix is a view.
LEMMA SnapshotType ==
  ASSUME NEW log \in Seq(ProperEvent)
  PROVE  \A n \in 0 .. Len(log) : Snapshot(SubSeq(log, 1, n)) \in View
<1> DEFINE S == {n \in Nat : n <= Len(log) => Snapshot(SubSeq(log, 1, n)) \in View}
<1>1. 0 \in S
  <2>1. EmptyView \in View
    BY ValueAssumption DEF EmptyView, View
  <2> QED BY <2>1, SnapshotStep
<1>2. ASSUME NEW n \in Nat, n \in S PROVE n + 1 \in S
  <2> SUFFICES ASSUME n + 1 <= Len(log)
               PROVE  Snapshot(SubSeq(log, 1, n + 1)) \in View
    OBVIOUS
  <2>1. Snapshot(SubSeq(log, 1, n + 1)) =
          Materialize(Snapshot(SubSeq(log, 1, (n + 1) - 1)), log[n + 1])
    BY SnapshotStep
  <2>2. Snapshot(SubSeq(log, 1, n)) \in View /\ log[n + 1] \in ProperEvent
    BY <1>2
  <2>3. (n + 1) - 1 = n
    OBVIOUS
  <2> QED BY <2>1, <2>2, <2>3, MaterializeType
<1> HIDE DEF S
<1>3. Nat \subseteq S
  BY <1>1, <1>2, SetInduction
<1> QED BY <1>3 DEF S

(***************************************************************************)
(* What GetSnapshot reports as pending is what the log leaves unresolved,  *)
(* whatever was asked, resolved and asked again: the fold over the events  *)
(* with its map of pending ids, and the definition that has neither.       *)
(***************************************************************************)
THEOREM PendingIsUnresolved ==
  ASSUME NEW log \in Seq(ProperEvent)
  PROVE  Snapshot(log).pending = Unresolved(log)
<1> DEFINE upTo(n) == SubSeq(log, 1, n)
           S == {n \in Nat : n <= Len(log) =>
                               Snapshot(upTo(n)).pending = Unresolved(upTo(n))}
<1>1. 0 \in S
  BY SnapshotStep DEF EmptyView, Unresolved
<1>2. ASSUME NEW n \in Nat, n \in S PROVE n + 1 \in S
  <2> SUFFICES ASSUME n + 1 <= Len(log)
               PROVE  Snapshot(upTo(n + 1)).pending = Unresolved(upTo(n + 1))
    OBVIOUS
  <2> DEFINE ev == log[n + 1]
  <2>1. Snapshot(upTo(n + 1)) = Materialize(Snapshot(upTo((n + 1) - 1)), ev)
    BY SnapshotStep
  <2>2. /\ Snapshot(upTo(n)).pending = Unresolved(upTo(n))
        /\ ev \in ProperEvent
        /\ (n + 1) - 1 = n
        /\ Snapshot(upTo(n)) \in View
    BY <1>2, SnapshotType
  <2>3. /\ DOMAIN upTo(n) = 1 .. n
        /\ DOMAIN upTo(n + 1) = 1 .. (n + 1)
        /\ \A i \in 1 .. n : upTo(n)[i] = log[i] /\ upTo(n + 1)[i] = log[i]
        /\ upTo(n + 1)[n + 1] = ev
    OBVIOUS
  <2> HIDE DEF upTo, S, ev
  <2>4. ASSUME NEW r \in Ref
        PROVE  r \in Unresolved(upTo(n + 1)) <=>
                 \/ IsAsk(ev, r)
                 \/ r \in Unresolved(upTo(n)) /\ ~IsResolution(ev, r)
    <3> DEFINE Open(k) == \E i \in 1 .. k :
                            /\ IsAsk(log[i], r)
                            /\ \A j \in 1 .. k : j > i => ~IsResolution(log[j], r)
    <3>1. r \in Unresolved(upTo(n)) <=> Open(n)
      BY <2>3 DEF Unresolved
    <3>2. r \in Unresolved(upTo(n + 1)) <=> Open(n + 1)
      <4>1. \A i \in 1 .. (n + 1) : upTo(n + 1)[i] = log[i]
        BY <2>3 DEF ev
      <4> QED BY <4>1, <2>3 DEF Unresolved
    <3>3. Open(n + 1) <=> IsAsk(ev, r) \/ (Open(n) /\ ~IsResolution(ev, r))
      BY DEF ev
    <3> QED BY <3>1, <3>2, <3>3
  <2>5. ASSUME NEW r \in Ref
        PROVE  r \in Materialize(Snapshot(upTo(n)), ev).pending <=>
                 \/ IsAsk(ev, r)
                 \/ r \in Snapshot(upTo(n)).pending /\ ~IsResolution(ev, r)
    BY <2>2, IdAssumption
       DEF Materialize, View, ProperEvent, Event, EventKind, IsAsk, IsResolution,
           AskKind, ResolvedKind, Ref
  <2>6. Materialize(Snapshot(upTo(n)), ev) \in View
    BY <2>2, MaterializeType
  <2>7. Materialize(Snapshot(upTo(n)), ev).pending \subseteq Ref
        /\ Unresolved(upTo(n + 1)) \subseteq Ref
    BY <2>6 DEF View, Unresolved
  <2> QED BY <2>1, <2>2, <2>4, <2>5, <2>7
<1>3. Nat \subseteq S
  <2> HIDE DEF S
  <2> QED BY <1>1, <1>2, SetInduction
<1>4. Snapshot(upTo(Len(log))).pending = Unresolved(upTo(Len(log)))
  BY <1>3
<1>5. upTo(Len(log)) = log
  OBVIOUS
<1> HIDE DEF upTo
<1> QED BY <1>4, <1>5
=============================================================================
