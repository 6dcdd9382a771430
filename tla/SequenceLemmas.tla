--------------------------- MODULE SequenceLemmas ---------------------------
(***************************************************************************)
(* Lemmas about numbers and sequences that the proofs of several modules   *)
(* rest on.  The induction theorems of the library take a predicate as a   *)
(* parameter; what is needed of them is proved here for sets, so that what *)
(* a recursive function computes can be proved for every length of its     *)
(* argument.                                                               *)
(***************************************************************************)
EXTENDS Naturals, Sequences, SequencesExt, FiniteSetsExt, WellFoundedInduction, TLAPS

-----------------------------------------------------------------------------
(* Induction, with a set of numbers in the place of a predicate *)

\* A set of numbers that is not empty has a least element.
LEMMA LeastElement ==
  ASSUME NEW T, T \subseteq Nat, T # {}
  PROVE  \E x \in T : \A y \in T : x <= y
<1>1. \E x \in T : \A y \in T : ~(<<y, x>> \in OpToRel(<, Nat))
  BY NatLessThanWellFounded, WFMin
<1>2. \E x \in T : \A y \in T : ~(y < x)
  BY <1>1 DEF OpToRel
<1> QED BY <1>2

\* A set that contains 0 and with every number its successor contains all.
LEMMA SetInduction ==
  ASSUME NEW S, 0 \in S, \A n \in Nat : n \in S => n + 1 \in S
  PROVE  Nat \subseteq S
<1> SUFFICES ASSUME Nat \ S # {} PROVE FALSE
  OBVIOUS
<1>1. PICK x \in Nat \ S : \A y \in Nat \ S : x <= y
  BY LeastElement
<1>2. x - 1 \in Nat
  BY <1>1
<1>3. x - 1 \in S
  BY <1>1, <1>2
<1> QED BY <1>1, <1>2, <1>3

-----------------------------------------------------------------------------
(* The least and the greatest *)

\* What Min of a nonempty set of natural numbers is.
LEMMA MinFacts ==
  ASSUME NEW T, T \subseteq Nat, T # {}
  PROVE  Min(T) \in T /\ \A x \in T : Min(T) <= x
<1>1. \E x \in T : \A y \in T : x <= y
  BY LeastElement
<1> QED BY <1>1 DEF Min

\* What Max of a nonempty set of indices is.
LEMMA MaxFacts ==
  ASSUME NEW n \in Nat, NEW T, T \subseteq 1 .. n, T # {}
  PROVE  Max(T) \in T /\ \A x \in T : Max(T) >= x
<1> DEFINE U == {n - x : x \in T}
<1>1. U \subseteq Nat /\ U # {}
  OBVIOUS
<1>2. PICK u \in U : \A v \in U : u <= v
  BY <1>1, LeastElement
<1>3. PICK x \in T : u = n - x
  OBVIOUS
<1>4. ASSUME NEW y \in T
      PROVE  x >= y
  <2>1. n - y \in U
    OBVIOUS
  <2>2. n - x <= n - y
    BY <1>2, <1>3, <2>1
  <2> QED BY <2>2
<1>5. \E z \in T : \A y \in T : z >= y
  BY <1>4
<1> QED BY <1>5 DEF Max

\* Min and Max of two numbers.
LEMMA PairFacts ==
  ASSUME NEW a \in Nat, NEW b \in Nat
  PROVE  /\ Min({a, b}) = IF a <= b THEN a ELSE b
         /\ Max({a, b}) = IF a >= b THEN a ELSE b
<1>1. Min({a, b}) \in {a, b} /\ \A x \in {a, b} : Min({a, b}) <= x
  BY MinFacts
<1>2. \E x \in {a, b} : \A y \in {a, b} : x >= y
  <2>1. CASE a >= b
    BY <2>1
  <2>2. CASE ~(a >= b)
    BY <2>2
  <2> QED BY <2>1, <2>2
<1>3. Max({a, b}) \in {a, b} /\ \A x \in {a, b} : Max({a, b}) >= x
  BY <1>2 DEF Max
<1> QED BY <1>1, <1>3

-----------------------------------------------------------------------------
(* Sequences *)

\* What appending one element does to a sequence.
LEMMA AppendFacts ==
  ASSUME NEW S, NEW s \in Seq(S), NEW e \in S
  PROVE  /\ Append(s, e) \in Seq(S) /\ Append(s, e) # <<>>
         /\ Len(Append(s, e)) = Len(s) + 1
         /\ Len(s) \in Nat
         /\ DOMAIN s = 1 .. Len(s)
         /\ DOMAIN Append(s, e) = 1 .. (Len(s) + 1)
         /\ \A i \in DOMAIN s : Append(s, e)[i] = s[i]
         /\ Append(s, e)[Len(s) + 1] = e
OBVIOUS

\* What removing the head of a sequence does to it.
LEMMA TailFacts ==
  ASSUME NEW S, NEW s \in Seq(S), s # <<>>
  PROVE  /\ Head(s) \in S
         /\ Head(s) = s[1]
         /\ Len(s) \in Nat
         /\ DOMAIN s = 1 .. Len(s)
         /\ 1 \in DOMAIN s
         /\ Tail(s) \in Seq(S)
         /\ Len(Tail(s)) = Len(s) - 1
         /\ DOMAIN Tail(s) = 1 .. (Len(s) - 1)
         /\ \A i \in DOMAIN Tail(s) : i + 1 \in DOMAIN s /\ Tail(s)[i] = s[i + 1]
         /\ \A i \in DOMAIN s : i # 1 => i - 1 \in DOMAIN Tail(s) /\ Tail(s)[i - 1] = s[i]
OBVIOUS

\* What concatenation does to two sequences.
LEMMA ConcatFacts ==
  ASSUME NEW S, NEW s \in Seq(S), NEW t \in Seq(S)
  PROVE  /\ s \o t \in Seq(S)
         /\ Len(s \o t) = Len(s) + Len(t)
         /\ Len(s) \in Nat /\ Len(t) \in Nat
         /\ DOMAIN s = 1 .. Len(s)
         /\ DOMAIN t = 1 .. Len(t)
         /\ DOMAIN (s \o t) = 1 .. (Len(s) + Len(t))
         /\ \A i \in DOMAIN s : (s \o t)[i] = s[i]
         /\ \A i \in DOMAIN (s \o t) : i \notin DOMAIN s =>
              i - Len(s) \in DOMAIN t /\ (s \o t)[i] = t[i - Len(s)]
OBVIOUS

\* Short sequences.
LEMMA ShortFacts ==
  ASSUME NEW S
  PROVE  /\ <<>> \in Seq(S)
         /\ \A a \in S : <<a>> \in Seq(S) /\ DOMAIN <<a>> = {1} /\ <<a>>[1] = a
         /\ \A a, b \in S : /\ <<a, b>> \in Seq(S) /\ DOMAIN <<a, b>> = {1, 2}
                            /\ <<a, b>>[1] = a /\ <<a, b>>[2] = b
OBVIOUS

\* A function on 1 .. n is a sequence.
LEMMA FunctionFacts ==
  ASSUME NEW S, NEW n \in Nat, NEW f \in [1 .. n -> S]
  PROVE  f \in Seq(S) /\ Len(f) = n /\ DOMAIN f = 1 .. n
OBVIOUS

\* What a prefix of a sequence is.
LEMMA PrefixFacts ==
  ASSUME NEW S, NEW s \in Seq(S), NEW n \in 0 .. Len(s)
  PROVE  /\ SubSeq(s, 1, n) \in Seq(S)
         /\ DOMAIN SubSeq(s, 1, n) = 1 .. n
         /\ \A i \in 1 .. n : i \in DOMAIN s /\ SubSeq(s, 1, n)[i] = s[i]
OBVIOUS

\* A sequence over a set is one over a larger set.
LEMMA WiderFacts ==
  ASSUME NEW S, NEW T, S \subseteq T, NEW s \in Seq(S)
  PROVE  s \in Seq(T)
<1>1. /\ Len(s) \in Nat /\ s \in [1 .. Len(s) -> S]
  OBVIOUS
<1>2. s \in [1 .. Len(s) -> T]
  BY <1>1
<1> QED BY <1>1, <1>2

\* Removing one element from a sequence.
LEMMA RemoveFacts ==
  ASSUME NEW S, NEW s \in Seq(S), NEW k \in DOMAIN s
  PROVE  /\ RemoveAt(s, k) \in Seq(S)
         /\ Len(s) \in Nat /\ DOMAIN s = 1 .. Len(s)
         /\ Len(RemoveAt(s, k)) = Len(s) - 1
         /\ DOMAIN RemoveAt(s, k) = 1 .. (Len(s) - 1)
         /\ \A i \in 1 .. (Len(s) - 1) :
              RemoveAt(s, k)[i] = IF i < k THEN s[i] ELSE s[i + 1]
<1> DEFINE before == SubSeq(s, 1, k - 1)
           after == SubSeq(s, k + 1, Len(s))
<1>1. /\ Len(s) \in Nat /\ DOMAIN s = 1 .. Len(s) /\ k \in 1 .. Len(s)
      /\ \A i \in 1 .. Len(s) : s[i] \in S
  OBVIOUS
<1>2. /\ before \in Seq(S) /\ Len(before) = k - 1
      /\ \A i \in 1 .. (k - 1) : before[i] = s[i]
  BY <1>1
<1>3. /\ after \in Seq(S) /\ Len(after) = Len(s) - k
      /\ \A i \in 1 .. (Len(s) - k) : after[i] = s[k + i]
  <2>1. /\ after = [i \in 1 .. (Len(s) - (k + 1) + 1) |-> s[i + (k + 1) - 1]]
    OBVIOUS
  <2>2. Len(s) - (k + 1) + 1 = Len(s) - k /\ Len(s) - k \in Nat
    BY <1>1
  <2>3. \A i \in 1 .. (Len(s) - k) : i + (k + 1) - 1 = k + i /\ k + i \in 1 .. Len(s)
    BY <1>1
  <2>4. after = [i \in 1 .. (Len(s) - k) |-> s[k + i]]
    BY <2>1, <2>2, <2>3
  <2>5. after \in [1 .. (Len(s) - k) -> S]
    BY <1>1, <2>3, <2>4
  <2>6. \A i \in 1 .. (Len(s) - k) : after[i] = s[k + i]
    BY <2>4
  <2> HIDE DEF after
  <2> QED BY <2>2, <2>5, <2>6, FunctionFacts
<1>4. RemoveAt(s, k) = before \o after
  BY DEF RemoveAt
<1> HIDE DEF before, after
<1>5. /\ before \o after \in Seq(S)
      /\ DOMAIN (before \o after) = 1 .. (Len(s) - 1)
      /\ \A i \in 1 .. (Len(s) - 1) :
           (before \o after)[i] = IF i < k THEN s[i] ELSE s[i + 1]
  <2>1. DOMAIN before = 1 .. (k - 1) /\ DOMAIN after = 1 .. (Len(s) - k)
    BY <1>2, <1>3
  <2>2. /\ before \o after \in Seq(S)
        /\ DOMAIN (before \o after) = 1 .. (Len(s) - 1)
    <3>1. Len(before) + Len(after) = Len(s) - 1
      BY <1>1, <1>2, <1>3
    <3>2. /\ before \o after \in Seq(S)
          /\ DOMAIN (before \o after) = 1 .. (Len(before) + Len(after))
      <4>1. before \in Seq(S) /\ after \in Seq(S)
        BY <1>2, <1>3
      <4> QED BY <4>1, ConcatFacts
    <3> QED BY <3>1, <3>2
  <2>3. ASSUME NEW i \in 1 .. (Len(s) - 1)
        PROVE  (before \o after)[i] = IF i < k THEN s[i] ELSE s[i + 1]
    <3>1. CASE i < k
      <4>1. i \in DOMAIN before
        BY <1>1, <2>1, <3>1
      <4>2. (before \o after)[i] = before[i]
        BY <1>2, <1>3, <4>1, ConcatFacts
      <4> QED BY <1>2, <2>1, <3>1, <4>1, <4>2
    <3>2. CASE ~(i < k)
      <4>1. i \in DOMAIN (before \o after) /\ i \notin DOMAIN before
        BY <2>1, <2>2, <3>2
      <4>2. (before \o after)[i] = after[i - Len(before)]
        <5>1. \A j \in DOMAIN (before \o after) : j \notin DOMAIN before =>
                (before \o after)[j] = after[j - Len(before)]
          BY <1>2, <1>3, ConcatFacts
        <5> QED BY <4>1, <5>1
      <4>3. i - Len(before) \in 1 .. (Len(s) - k) /\ k + (i - Len(before)) = i + 1
        BY <1>1, <1>2, <3>2
      <4> QED BY <1>3, <3>2, <4>2, <4>3
    <3> QED BY <3>1, <3>2
  <2> QED BY <2>2, <2>3
<1>6. Len(before \o after) = Len(s) - 1
  <2>1. before \in Seq(S) /\ after \in Seq(S)
    BY <1>2, <1>3
  <2>2. Len(before \o after) = Len(before) + Len(after)
    BY <2>1, ConcatFacts
  <2> QED BY <1>1, <1>2, <1>3, <2>2
<1> QED BY <1>1, <1>4, <1>5, <1>6


-----------------------------------------------------------------------------
(* FlattenSeq, by the least index at which a claim about it could fail *)

\* f is the first k steps of flattening s, a sequence of sequences over S.
Flattens(f, S, s, k) ==
  /\ f \in [1 .. k -> Seq(S)] /\ f[1] = s[1]
  /\ \A i \in 2 .. k : f[i] = f[i - 1] \o s[i]

\* Every sequence of sequences can be flattened.
LEMMA FlattensExists ==
  ASSUME NEW S, NEW n \in Nat \ {0}, NEW s \in [1 .. n -> Seq(S)]
  PROVE  \E f : Flattens(f, S, s, n)
<1> DEFINE T == {k \in 1 .. n : ~\E f : Flattens(f, S, s, k)}
<1>1. SUFFICES ASSUME T # {}
               PROVE  FALSE
  <2>1. n \in 1 .. n
    OBVIOUS
  <2> QED BY <2>1
<1>2. T \subseteq Nat
  OBVIOUS
<1>3. PICK k \in T : \A j \in T : k <= j
  BY <1>1, <1>2, LeastElement
<1>4. k \in 1 .. n /\ ~\E f : Flattens(f, S, s, k)
  OBVIOUS
<1>5. CASE k = 1
  <2> DEFINE f == [i \in 1 .. 1 |-> s[1]]
  <2>1. f \in [1 .. 1 -> Seq(S)] /\ f[1] = s[1] /\ \A i \in 2 .. 1 : FALSE
    OBVIOUS
  <2> HIDE DEF f
  <2>2. Flattens(f, S, s, 1)
    BY <2>1 DEF Flattens
  <2> QED BY <1>4, <1>5, <2>2
<1>6. CASE k # 1
  <2>1. k - 1 \in 1 .. n /\ k - 1 \notin T
    <3>1. k - 1 \in 1 .. n /\ ~(k <= k - 1)
      BY <1>4, <1>6
    <3> QED BY <1>3, <3>1
  <2>2. PICK g : Flattens(g, S, s, k - 1)
    BY <2>1
  <2>3. g \in [1 .. k - 1 -> Seq(S)] /\ g[1] = s[1]
        /\ \A i \in 2 .. k - 1 : g[i] = g[i - 1] \o s[i]
    BY <2>2 DEF Flattens
  <2>4. k - 1 \in 1 .. k - 1 /\ k \in Nat /\ k >= 2
    BY <1>4, <1>6
  <2>5. g[k - 1] \in Seq(S) /\ s[k] \in Seq(S)
    BY <1>4, <2>3, <2>4
  <2>6. PICK t \in Seq(S) : t = g[k - 1] \o s[k]
    BY <2>5, ConcatFacts
  <2> DEFINE f == [i \in 1 .. k |-> IF i = k THEN t ELSE g[i]]
  <2>7. \A i \in 1 .. k : i = k \/ i \in 1 .. k - 1
    BY <2>4
  <2>8. f \in [1 .. k -> Seq(S)]
    BY <2>3, <2>7
  <2>9. f[1] = s[1]
    BY <2>3, <2>4
  <2>10. ASSUME NEW i \in 2 .. k
         PROVE  f[i] = f[i - 1] \o s[i]
    <3>1. i \in 1 .. k /\ i - 1 \in 1 .. k /\ i - 1 # k
      BY <2>4
    <3>2. f[i - 1] = g[i - 1]
      BY <3>1
    <3>3. CASE i = k
      BY <2>6, <3>1, <3>2, <3>3
    <3>4. CASE i # k
      <4>1. i \in 2 .. k - 1 /\ f[i] = g[i]
        BY <2>4, <3>1, <3>4
      <4> QED BY <2>3, <3>2, <4>1
    <3> QED BY <3>3, <3>4
  <2> HIDE DEF f
  <2>11. Flattens(f, S, s, k)
    BY <2>8, <2>9, <2>10 DEF Flattens
  <2> QED BY <1>4, <2>11
<1> QED BY <1>5, <1>6

\* FlattenSeq is the last step.
LEMMA FlattenSeqIsLast ==
  ASSUME NEW S, NEW n \in Nat \ {0}, NEW s \in [1 .. n -> Seq(S)]
  PROVE  \E f : Flattens(f, S, s, n) /\ FlattenSeq(s) = f[n]
<1>1. PICK f : Flattens(f, S, s, n)
  BY FlattensExists
<1>2. f \in [1 .. n -> Seq(S)] /\ f[1] = s[1] /\ \A i \in 2 .. n : f[i] = f[i - 1] \o s[i]
  BY <1>1 DEF Flattens
<1>3. Len(s) = n
  BY FunctionFacts
<1> DEFINE c == CHOOSE c : c = [i \in 1 .. n |-> IF i = 1 THEN s[i] ELSE c[i - 1] \o s[i]]
<1>4. FlattenSeq(s) = c[n]
  BY <1>3 DEF FlattenSeq
<1>5. f = [i \in 1 .. n |-> IF i = 1 THEN s[i] ELSE f[i - 1] \o s[i]]
  <2>1. \A i \in 1 .. n : i = 1 \/ i \in 2 .. n
    OBVIOUS
  <2>2. \A i \in 1 .. n : f[i] = IF i = 1 THEN s[i] ELSE f[i - 1] \o s[i]
    BY <1>2, <2>1
  <2> QED BY <1>2, <2>2
<1>6. c = [i \in 1 .. n |-> IF i = 1 THEN s[i] ELSE c[i - 1] \o s[i]]
  BY <1>5
<1> HIDE DEF c
<1> DEFINE T == {k \in 1 .. n : c[k] # f[k]}
<1>7. T = {}
  <2>1. SUFFICES ASSUME T # {}
                 PROVE  FALSE
    OBVIOUS
  <2>2. T \subseteq Nat
    OBVIOUS
  <2>3. PICK k \in T : \A j \in T : k <= j
    BY <2>1, <2>2, LeastElement
  <2>4. k \in 1 .. n /\ c[k] # f[k]
    OBVIOUS
  <2>5. CASE k = 1
    BY <1>2, <1>6, <2>4, <2>5
  <2>6. CASE k # 1
    <3>1. k - 1 \in 1 .. n /\ ~(k <= k - 1) /\ k \in 2 .. n
      BY <2>4, <2>6
    <3>2. c[k - 1] = f[k - 1]
      BY <2>3, <3>1
    <3>3. c[k] = c[k - 1] \o s[k]
      BY <1>6, <2>4, <2>6
    <3> QED BY <1>2, <2>4, <3>1, <3>2, <3>3
  <2> QED BY <2>5, <2>6
<1>8. c[n] = f[n]
  <2>1. n \in 1 .. n
    OBVIOUS
  <2> QED BY <1>7, <2>1
<1> QED BY <1>1, <1>4, <1>8

\* Of two elements of s the first stands to the second in R.
SortedBy(s, R) == \A a, b \in DOMAIN s : a < b => <<s[a], s[b]>> \in R

\* Of an element of s and one of t the first stands to the second in R.
AllBefore(s, t, R) == \A a \in DOMAIN s : \A b \in DOMAIN t : <<s[a], t[b]>> \in R

\* s has n sequences over S, of whose elements, in a row, the first of two stands
\* to the second in R.
Chained(n, S, s, R) ==
  /\ n \in Nat /\ s \in [1 .. n -> Seq(S)]
  /\ \A i \in 1 .. n : SortedBy(s[i], R)
  /\ \A i, j \in 1 .. n : i < j => AllBefore(s[i], s[j], R)

\* t has the elements of the n sequences of s, and is in order.
Flattened(n, S, s, R, t) ==
  /\ t \in Seq(S) /\ SortedBy(t, R)
  /\ \A v : v \in ToSet(t) <=> \E i \in 1 .. n : \E a \in DOMAIN s[i] : s[i][a] = v

\* What comes of flattening sequences: their elements, and of each two of them the
\* first stands to the second in R when that is so within each sequence, and of
\* the elements of one sequence and those of a later one.
LEMMA FlattenSeqFacts ==
  ASSUME NEW n, NEW S, NEW s, NEW R, Chained(n, S, s, R)
  PROVE  Flattened(n, S, s, R, FlattenSeq(s))
<1> USE DEF SortedBy, AllBefore, Flattened
<1>0. /\ n \in Nat /\ s \in [1 .. n -> Seq(S)]
      /\ \A i \in 1 .. n : \A a, b \in DOMAIN s[i] : a < b => <<s[i][a], s[i][b]>> \in R
      /\ \A i, j \in 1 .. n : i < j =>
           \A a \in DOMAIN s[i] : \A b \in DOMAIN s[j] : <<s[i][a], s[j][b]>> \in R
  BY DEF Chained
<1> USE <1>0
<1>1. CASE n = 0
  <2>1. s = <<>> /\ Len(s) = 0
    BY <1>1
  <2>2. FlattenSeq(s) = <<>>
    BY <2>1 DEF FlattenSeq
  <2>3. DOMAIN <<>> = {} /\ ToSet(<<>>) = {} /\ 1 .. n = {} /\ <<>> \in Seq(S)
    BY <1>1 DEF ToSet
  <2> QED BY <2>2, <2>3
<1>2. CASE n # 0
  <2>1. PICK f : Flattens(f, S, s, n) /\ FlattenSeq(s) = f[n]
    BY <1>2, FlattenSeqIsLast
  <2>2. f \in [1 .. n -> Seq(S)] /\ f[1] = s[1] /\ \A i \in 2 .. n : f[i] = f[i - 1] \o s[i]
    BY <2>1 DEF Flattens
  <2> DEFINE Holds(k) ==
        /\ \A a, b \in DOMAIN f[k] : a < b => <<f[k][a], f[k][b]>> \in R
        /\ \A v : (\E c \in DOMAIN f[k] : f[k][c] = v)
                    <=> \E i \in 1 .. k : \E a \in DOMAIN s[i] : s[i][a] = v
             T == {k \in 1 .. n : ~Holds(k)}
  <2>3. T = {}
    <3>1. SUFFICES ASSUME T # {}
                   PROVE  FALSE
      OBVIOUS
    <3>2. T \subseteq Nat
      OBVIOUS
    <3>3. PICK k \in T : \A j \in T : k <= j
      <4> HIDE DEF T
      <4> QED BY <3>1, <3>2, LeastElement
    <3>4. k \in 1 .. n /\ ~Holds(k)
      OBVIOUS
    <3>5. CASE k = 1
      <4>1. \A i \in 1 .. 1 : i = 1
        OBVIOUS
      <4>2. 1 \in 1 .. 1 /\ 1 \in 1 .. n
        BY <1>2
      <4>3. Holds(1)
        BY <2>2, <4>1, <4>2
      <4> HIDE DEF Holds
      <4> QED BY <3>4, <3>5, <4>3
    <3>6. CASE k # 1
      <4>1. k - 1 \in 1 .. n /\ k \in 2 .. n /\ ~(k <= k - 1) /\ k \in Nat
        BY <3>4, <3>6
      <4>2. Holds(k - 1)
        <5>1. k - 1 \notin T
          BY <3>3, <4>1
        <5> HIDE DEF Holds
        <5> QED BY <4>1, <5>1
      <4> DEFINE g == f[k - 1]
                 t == s[k]
                 h == f[k]
      <4>3. g \in Seq(S) /\ t \in Seq(S) /\ h = g \o t
        BY <2>2, <3>4, <4>1
      <4>4. /\ \A a, b \in DOMAIN g : a < b => <<g[a], g[b]>> \in R
            /\ \A v : (\E c \in DOMAIN g : g[c] = v)
                        <=> \E i \in 1 .. k - 1 : \E a \in DOMAIN s[i] : s[i][a] = v
        BY <4>2
      <4>5. \A a, b \in DOMAIN t : a < b => <<t[a], t[b]>> \in R
        BY <3>4
      <4>6. \A i \in 1 .. k - 1 : i \in 1 .. n /\ i < k
        BY <4>1
      <4>7. \A i \in 1 .. k - 1 : \A a \in DOMAIN s[i] : \A b \in DOMAIN t : <<s[i][a], t[b]>> \in R
        BY <3>4, <4>6
      <4> HIDE DEF g, t, h
      <4>8. \A c \in DOMAIN g : \A b \in DOMAIN t : <<g[c], t[b]>> \in R
        <5>1. SUFFICES ASSUME NEW c \in DOMAIN g, NEW b \in DOMAIN t
                       PROVE  <<g[c], t[b]>> \in R
          OBVIOUS
        <5>2. \E i \in 1 .. k - 1 : \E a \in DOMAIN s[i] : s[i][a] = g[c]
          BY <4>4
        <5>3. PICK i \in 1 .. k - 1 : \E a \in DOMAIN s[i] : s[i][a] = g[c]
          BY <5>2
        <5>4. PICK a \in DOMAIN s[i] : s[i][a] = g[c]
          BY <5>3
        <5>5. <<s[i][a], t[b]>> \in R
          BY <4>7
        <5> QED BY <5>4, <5>5
      <4>9. /\ Len(g) \in Nat /\ Len(t) \in Nat
            /\ DOMAIN g = 1 .. Len(g) /\ DOMAIN t = 1 .. Len(t)
            /\ DOMAIN h = 1 .. (Len(g) + Len(t))
            /\ \A i \in DOMAIN g : h[i] = g[i]
            /\ \A i \in DOMAIN h : i \notin DOMAIN g =>
                 i - Len(g) \in DOMAIN t /\ h[i] = t[i - Len(g)]
        BY <4>3, ConcatFacts
      <4>10. PICK p \in Nat : p = Len(g)
        BY <4>9
      <4>11. PICK q \in Nat : q = Len(t)
        BY <4>9
      <4>12. DOMAIN g = 1 .. p /\ DOMAIN t = 1 .. q /\ DOMAIN h = 1 .. (p + q)
             /\ \A i \in 1 .. (p + q) : IF i <= p THEN h[i] = g[i]
                                        ELSE i - p \in 1 .. q /\ h[i] = t[i - p]
        <5>1. DOMAIN g = 1 .. p /\ DOMAIN t = 1 .. q /\ DOMAIN h = 1 .. (p + q)
          BY <4>9, <4>10, <4>11
        <5>2. ASSUME NEW i \in 1 .. (p + q), i <= p
              PROVE  h[i] = g[i]
          <6>1. i \in DOMAIN g
            BY <5>1, <5>2
          <6> QED BY <4>9, <6>1
        <5>3. ASSUME NEW i \in 1 .. (p + q), ~(i <= p)
              PROVE  i - p \in 1 .. q /\ h[i] = t[i - p]
          <6>1. i \in DOMAIN h /\ i \notin DOMAIN g
            BY <5>1, <5>3
          <6> QED BY <4>9, <4>10, <5>1, <6>1
        <5> QED BY <5>1, <5>2, <5>3
      <4>13. ASSUME NEW a \in DOMAIN h, NEW b \in DOMAIN h, a < b
             PROVE  <<h[a], h[b]>> \in R
        <5>1. CASE b <= p
          <6>1. a \in 1 .. p /\ b \in 1 .. p /\ h[a] = g[a] /\ h[b] = g[b]
            BY <4>12, <4>13, <5>1
          <6> QED BY <4>4, <4>12, <4>13, <6>1
        <5>2. CASE ~(b <= p) /\ a <= p
          <6>1. b - p \in 1 .. q /\ h[b] = t[b - p] /\ a \in 1 .. p /\ h[a] = g[a]
            BY <4>12, <5>2
          <6> QED BY <4>8, <4>12, <6>1
        <5>3. CASE ~(a <= p)
          <6>1. b - p \in 1 .. q /\ h[b] = t[b - p] /\ a - p \in 1 .. q /\ h[a] = t[a - p]
            BY <4>12, <4>13, <5>3
          <6>2. a - p < b - p
            BY <4>12, <4>13
          <6> QED BY <4>5, <4>12, <6>1, <6>2
        <5> QED BY <4>12, <4>13, <5>1, <5>2, <5>3
      <4>14. ASSUME NEW v
             PROVE  (\E c \in DOMAIN h : h[c] = v)
                      <=> (\E c \in DOMAIN g : g[c] = v) \/ (\E b \in DOMAIN t : t[b] = v)
        <5>1. ASSUME NEW c \in DOMAIN h, h[c] = v
              PROVE  (\E d \in DOMAIN g : g[d] = v) \/ (\E b \in DOMAIN t : t[b] = v)
          <6>1. CASE c <= p
            BY <4>12, <5>1, <6>1
          <6>2. CASE ~(c <= p)
            BY <4>12, <5>1, <6>2
          <6> QED BY <6>1, <6>2
        <5>2. ASSUME NEW c \in DOMAIN g, g[c] = v
              PROVE  \E d \in DOMAIN h : h[d] = v
          <6>1. c \in 1 .. (p + q) /\ c <= p
            BY <4>12
          <6>2. h[c] = v
            BY <4>12, <5>2, <6>1
          <6> QED BY <4>12, <6>1, <6>2
        <5>3. ASSUME NEW b \in DOMAIN t, t[b] = v
              PROVE  \E d \in DOMAIN h : h[d] = v
          <6>1. b + p \in 1 .. (p + q) /\ ~(b + p <= p) /\ b + p - p = b
            BY <4>12
          <6>2. h[b + p] = v
            BY <4>12, <5>3, <6>1
          <6> QED BY <4>12, <6>1, <6>2
        <5> QED BY <5>1, <5>2, <5>3
      <4>15. ASSUME NEW v
             PROVE  (\E i \in 1 .. k : \E a \in DOMAIN s[i] : s[i][a] = v)
                      <=> (\E i \in 1 .. k - 1 : \E a \in DOMAIN s[i] : s[i][a] = v)
                            \/ (\E b \in DOMAIN t : t[b] = v)
        <5>1. \A i \in 1 .. k : i = k \/ i \in 1 .. k - 1
          BY <4>1
        <5>2. k \in 1 .. k /\ 1 .. k - 1 \subseteq 1 .. k
          BY <4>1
        <5> QED BY <5>1, <5>2 DEF t
      <4>16. Holds(k)
        BY <4>4, <4>13, <4>14, <4>15 DEF h
      <4> HIDE DEF Holds
      <4> QED BY <3>4, <4>16
    <3> QED BY <3>5, <3>6
  <2>4. Holds(n)
    <3>1. n \in 1 .. n
      BY <1>2
    <3> HIDE DEF Holds
    <3> QED BY <2>3, <3>1
  <2>5. \A v : v \in ToSet(f[n]) <=> \E c \in DOMAIN f[n] : f[n][c] = v
    BY DEF ToSet
  <2>6. f[n] \in Seq(S)
    <3>1. n \in 1 .. n
      BY <1>2
    <3> QED BY <2>2, <3>1
  <2> QED BY <2>1, <2>4, <2>5, <2>6
<1> QED BY <1>1, <1>2
=============================================================================
