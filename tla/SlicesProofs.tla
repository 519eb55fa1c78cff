---------------------------- MODULE SlicesProofs ----------------------------
(***************************************************************************)
(* What the operators of module Slices and of SequencesExt compute, for    *)
(* all sequences, and what their proofs rest on: induction on an interval  *)
(* and on the subsets of a finite set, as statements about sets, and that  *)
(* functions defined by recursion on them exist.                           *)
(***************************************************************************)
EXTENDS Slices, FiniteSetTheorems, SequenceTheorems, WellFoundedInduction, TLAPS

\* Induction on 0..n.
LEMMA UpTo ==
  ASSUME NEW n \in Nat, NEW Good, 0 \in Good,
         \A k \in 1 .. n : k - 1 \in Good => k \in Good
  PROVE  0 .. n \subseteq Good
<1> DEFINE Bad == {k \in Nat : k <= n /\ k \notin Good}
<1>1. CASE Bad = {}
  BY <1>1
<1>2. CASE Bad # {}
  <2> DEFINE Less == {ss \in Nat \X Nat : ss[1] < ss[2]}
  <2>a. IsWellFoundedOn(Less, Nat)
    BY NatLessThanWellFounded, Zenon DEF OpToRel
  <2>1. PICK k \in Bad : \A m \in Bad : <<m, k>> \notin Less
    <3> HIDE DEF Less
    <3>1. Bad \subseteq Nat
      OBVIOUS
    <3> HIDE DEF Bad
    <3> QED BY <1>2, <2>a, <3>1, WFMin, Zenon
  <2>2. k \in 1 .. n /\ k - 1 \in Nat /\ k - 1 <= n /\ k \notin Good
    OBVIOUS
  <2>3. <<k - 1, k>> \in Less
    BY <2>2
  <2>4. k - 1 \in Good
    BY <2>1, <2>2, <2>3
  <2> QED BY <2>2, <2>4
<1> QED BY <1>1, <1>2

\* Induction on subsets.
LEMMA Subsets ==
  ASSUME NEW S, IsFiniteSet(S), NEW Good, {} \in Good,
         \A s \in SUBSET S : s # {} /\ (\A x \in s : s \ {x} \in Good) => s \in Good
  PROVE  SUBSET S \subseteq Good
<1> DEFINE Size == {k \in Nat : \A s \in SUBSET S : Cardinality(s) = k => s \in Good}
<1>1. \A s \in SUBSET S : IsFiniteSet(s) /\ Cardinality(s) \in Nat
  BY FS_Subset, FS_CardinalityType
<1>2. 0 \in Size
  BY <1>1, FS_EmptySet, Zenon
<1>3. ASSUME NEW k \in Nat \ {0}, k - 1 \in Size
      PROVE  k \in Size
  <2> SUFFICES ASSUME NEW s \in SUBSET S, Cardinality(s) = k
               PROVE  s \in Good
    OBVIOUS
  <2>1. s # {}
    BY FS_EmptySet, Zenon
  <2>2. ASSUME NEW x \in s PROVE s \ {x} \in Good
    <3>1. Cardinality(s \ {x}) = k - 1
      BY <1>1, FS_RemoveElement
    <3> QED BY <1>3, <3>1
  <2> QED BY <2>1, <2>2
<1> SUFFICES ASSUME NEW s \in SUBSET S PROVE s \in Good
  OBVIOUS
<1>4. 0 .. Cardinality(s) \subseteq Size
  <2> HIDE DEF Size
  <2> QED BY <1>1, <1>2, <1>3, UpTo
<1> QED BY <1>1, <1>4

\* ch takes an element out of every subset of S but the empty one.
Picks(ch, S) == \A s \in SUBSET S : s # {} => ch[s] \in s

\* g is the function of the subsets of S which is base for the empty one, and op of the
\* element taken out and of the value for the others.
IsFold(g, S, V, base, ch, op) ==
  /\ g \in [SUBSET S -> V]
  /\ \A s \in SUBSET S : g[s] = IF s = {} THEN base ELSE op[<<ch[s], g[s \ {ch[s]}]>>]

\* There is one.
LEMMA RecursionOnSubsets ==
  ASSUME NEW S, IsFiniteSet(S), NEW V, NEW base \in V,
         NEW ch, Picks(ch, S), NEW op, op \in [S \X V -> V]
  PROVE  \E g : IsFold(g, S, V, base, ch, op)
<1> USE DEF Picks, IsFold
<1> DEFINE Sub(n) == {s \in SUBSET S : Cardinality(s) <= n}
           Def(g, s) == IF s = {} THEN base ELSE op[<<ch[s], g[s \ {ch[s]}]>>]
           Good == {n \in Nat : \E g \in [Sub(n) -> V] : \A s \in Sub(n) : g[s] = Def(g, s)}
<1>1. \A s \in SUBSET S : IsFiniteSet(s) /\ Cardinality(s) \in Nat
  BY FS_Subset, FS_CardinalityType
<1>2. 0 \in Good
  <2> DEFINE g == [s \in Sub(0) |-> base]
  <2>1. \A s \in Sub(0) : s = {}
    BY <1>1, FS_EmptySet
  <2>2. g \in [Sub(0) -> V] /\ \A s \in Sub(0) : g[s] = Def(g, s)
    BY <2>1
  <2> QED BY <2>2, Zenon
<1>3. ASSUME NEW n \in Nat \ {0}, n - 1 \in Good
      PROVE  n \in Good
  <2>1. PICK g \in [Sub(n - 1) -> V] : \A s \in Sub(n - 1) : g[s] = Def(g, s)
    BY <1>3, Zenon
  <2> DEFINE h == [s \in Sub(n) |-> Def(g, s)]
  <2>2. ASSUME NEW s \in Sub(n), s # {}
        PROVE  ch[s] \in S /\ s \ {ch[s]} \in Sub(n - 1) /\ s \ {ch[s]} \in Sub(n)
    <3>1. ch[s] \in s /\ IsFiniteSet(s) /\ Cardinality(s) \in Nat /\ Cardinality(s) <= n
      BY <1>1, <2>2
    <3>2. Cardinality(s \ {ch[s]}) = Cardinality(s) - 1
      BY <3>1, FS_RemoveElement, Zenon
    <3> QED BY <3>1, <3>2
  <2>3. h \in [Sub(n) -> V]
    <3> SUFFICES ASSUME NEW s \in Sub(n) PROVE Def(g, s) \in V
      OBVIOUS
    <3>1. CASE s = {}
      BY <3>1
    <3>2. CASE s # {}
      <4>1. g[s \ {ch[s]}] \in V /\ ch[s] \in S
        BY <2>2, <3>2
      <4> QED BY <3>2, <4>1
    <3> QED BY <3>1, <3>2
  <2>4. \A s \in Sub(n - 1) : s \in Sub(n) /\ h[s] = g[s]
    BY <1>1, <2>1
  <2>5. ASSUME NEW s \in Sub(n)
        PROVE  h[s] = Def(h, s)
    <3>1. CASE s = {}
      BY <3>1
    <3>2. CASE s # {}
      BY <2>2, <2>4, <3>2, Zenon
    <3> QED BY <3>1, <3>2
  <2> HIDE DEF h, Def
  <2> QED BY <2>3, <2>5, Zenon
<1> DEFINE n == Cardinality(S)
<1>4. n \in Nat
  BY FS_CardinalityType
<1>5. n \in Good
  <2> HIDE DEF Good, n
  <2>1. 0 .. n \subseteq Good
    BY <1>2, <1>3, <1>4, UpTo
  <2> QED BY <1>4, <2>1
<1>6. Sub(n) = SUBSET S
  BY FS_Subset
<1> HIDE DEF n
<1> QED BY <1>5, <1>6, Zenon

\* The largest of some positions.
LEMMA MaxOfPositions ==
  ASSUME NEW n \in Nat, NEW s \in SUBSET (1 .. n), s # {}
  PROVE  Max(s) \in s /\ \A i \in s : i <= Max(s)
<1> DEFINE Good == {k \in Nat : \A t \in SUBSET (1 .. k) :
                                  t # {} => \E i \in t : \A j \in t : i >= j}
<1>1. 0 \in Good
  <2>1. 1 .. 0 = {}
    OBVIOUS
  <2> QED BY <2>1, Zenon
<1>2. ASSUME NEW k \in 1 .. n, k - 1 \in Good
      PROVE  k \in Good
  <2> SUFFICES ASSUME NEW t \in SUBSET (1 .. k), t # {}
               PROVE  \E i \in t : \A j \in t : i >= j
    OBVIOUS
  <2>1. CASE k \in t
    BY <2>1
  <2>2. CASE k \notin t
    <3>1. t \in SUBSET (1 .. (k - 1))
      BY <2>2
    <3> QED BY <1>2, <3>1
  <2> QED BY <2>1, <2>2
<1>3. n \in Good
  <2> HIDE DEF Good
  <2>1. 0 .. n \subseteq Good
    BY <1>1, <1>2, UpTo
  <2> QED BY <2>1
<1>4. \E i \in s : \A j \in s : i >= j
  BY <1>3
<1>5. Max(s) \in s /\ \A j \in s : Max(s) >= j
  BY <1>4, Zenon DEF Max
<1> QED BY <1>5

LEMMA MaxOfPrefix ==
  ASSUME NEW k \in Nat \ {0}
  PROVE  Max(1 .. k) = k /\ (1 .. k) \ {k} = 1 .. (k - 1)
<1>1. k \in 1 .. k /\ 1 .. k \in SUBSET (1 .. k)
  OBVIOUS
<1>2. Max(1 .. k) \in 1 .. k /\ k <= Max(1 .. k)
  BY <1>1, MaxOfPositions, Zenon
<1> QED BY <1>2

\* The same for the function behind FoldLeft, which takes the last position out.
IsFoldLeft(g, D, V, base, op) ==
  /\ g \in [SUBSET D -> V]
  /\ \A s \in SUBSET D : g[s] = IF s = {} THEN base ELSE op[<<Max(s), g[s \ {Max(s)}]>>]

LEMMA RecursionOnPositions ==
  ASSUME NEW n \in Nat, NEW D, D = 1 .. n, NEW V, NEW base, base \in V,
         NEW op, op \in [D \X V -> V]
  PROVE  \E g : IsFoldLeft(g, D, V, base, op)
<1> DEFINE ch == [s \in SUBSET D |-> Max(s)]
<1>1. IsFiniteSet(D)
  BY FS_Interval
<1>2. Picks(ch, D)
  BY MaxOfPositions, Zenon DEF Picks
<1>3. \A s \in SUBSET D : ch[s] = Max(s)
  OBVIOUS
<1> HIDE DEF ch
<1>4. PICK g : IsFold(g, D, V, base, ch, op)
  BY <1>1, <1>2, RecursionOnSubsets
<1>5. IsFoldLeft(g, D, V, base, op)
  BY <1>3, <1>4, Zenon DEF IsFold, IsFoldLeft
<1> QED BY <1>5

-----------------------------------------------------------------------------
(* FoldLeft, for an operation which is the function op on the values V *)

\* g is a solution of the recursion.
Solves(g, seq, V, base, op) ==
  /\ g \in [SUBSET DOMAIN seq -> V]
  /\ g[{}] = base
  /\ \A s \in SUBSET DOMAIN seq :
       s # {} => /\ Max(s) \in DOMAIN seq /\ g[s \ {Max(s)}] \in V
                 /\ g[s] = op[<<g[s \ {Max(s)}], seq[Max(s)]>>]

\* g may be one: it is, if its values are in V.
Follows(g, seq, V, base, op) ==
  /\ g[{}] = base
  /\ \A s \in SUBSET DOMAIN seq :
       s # {} /\ g[s \ {Max(s)}] \in V => g[s] = op[<<g[s \ {Max(s)}], seq[Max(s)]>>]

\* The values after each of the elements.
Trace(F, seq, V, base, op) ==
  /\ F \in [0 .. Len(seq) -> V]
  /\ F[0] = base
  /\ \A k \in 1 .. Len(seq) : F[k] = op[<<F[k - 1], seq[k]>>]

HasTrace(value, seq, V, base, op) ==
  \E F : Trace(F, seq, V, base, op) /\ value = F[Len(seq)]

LEMMA SomeSolves ==
  ASSUME NEW T, NEW seq \in Seq(T), NEW V, NEW base \in V, NEW op \in [V \X T -> V]
  PROVE  \E g : Solves(g, seq, V, base, op)
<1> DEFINE n == Len(seq)
           D == DOMAIN seq
           at == [p \in D \X V |-> op[<<p[2], seq[p[1]]>>]]
<1>1. n \in Nat /\ D = 1 .. n /\ \A i \in D : seq[i] \in T
  OBVIOUS
<1>2. at \in [D \X V -> V] /\ \A i \in D, v \in V : at[<<i, v>>] = op[<<v, seq[i]>>]
  BY <1>1
<1> HIDE DEF n, D, at
<1>3. PICK g : IsFoldLeft(g, D, V, base, at)
  BY <1>1, <1>2, RecursionOnPositions, Zenon
<1>4. /\ g \in [SUBSET D -> V]
      /\ \A s \in SUBSET D : g[s] = IF s = {} THEN base ELSE at[<<Max(s), g[s \ {Max(s)}]>>]
  BY <1>3, Zenon DEF IsFoldLeft
<1>5. ASSUME NEW s \in SUBSET D, s # {}
      PROVE  Max(s) \in D /\ g[s \ {Max(s)}] \in V /\ g[s] = op[<<g[s \ {Max(s)}], seq[Max(s)]>>]
  <2>1. Max(s) \in D /\ g[s \ {Max(s)}] \in V
    BY <1>1, <1>4, <1>5, MaxOfPositions, Zenon
  <2> QED BY <1>2, <1>4, <1>5, <2>1, Zenon
<1> QED BY <1>4, <1>5, Zenon DEF Solves, D

LEMMA TraceOf ==
  ASSUME NEW T, NEW seq \in Seq(T), NEW V, NEW base \in V, NEW op \in [V \X T -> V],
         NEW g, Follows(g, seq, V, base, op)
  PROVE  HasTrace(g[DOMAIN seq], seq, V, base, op)
<1> DEFINE n == Len(seq)
           D == DOMAIN seq
           F == [k \in 0 .. n |-> g[1 .. k]]
           Good == {k \in 0 .. n : F[k] \in V}
<1>1. n \in Nat /\ D = 1 .. n /\ \A i \in D : seq[i] \in T
  OBVIOUS
<1>2. F[0] = base
  <2>1. 1 .. 0 = {}
    OBVIOUS
  <2> QED BY <1>1, <2>1 DEF Follows
<1>3. ASSUME NEW k \in 1 .. n, F[k - 1] \in V
      PROVE  F[k] = op[<<F[k - 1], seq[k]>>]
  <2>1. 1 .. k \in SUBSET D /\ 1 .. k # {} /\ Max(1 .. k) = k /\ (1 .. k) \ {k} = 1 .. (k - 1)
    BY <1>1, MaxOfPrefix
  <2>2. F[k] = g[1 .. k] /\ F[k - 1] = g[1 .. (k - 1)]
    BY <1>1
  <2> HIDE DEF F, n, D
  <2> QED BY <1>3, <2>1, <2>2, Zenon DEF Follows, D
<1>4. 0 .. n \subseteq Good
  <2>1. 0 \in Good
    BY <1>1, <1>2
  <2>2. ASSUME NEW k \in 1 .. n, k - 1 \in Good PROVE k \in Good
    <3> HIDE DEF F
    <3>1. F[k - 1] \in V /\ seq[k] \in T
      BY <1>1, <2>2
    <3>2. F[k] = op[<<F[k - 1], seq[k]>>]
      BY <1>3, <3>1
    <3>3. op[<<F[k - 1], seq[k]>>] \in V
      BY <3>1
    <3>4. k \in 0 .. n
      BY <1>1
    <3> QED BY <3>2, <3>3, <3>4
  <2> HIDE DEF Good, n
  <2> QED BY <1>1, <2>1, <2>2, UpTo, Zenon
<1>5. F \in [0 .. n -> V]
  BY <1>4
<1>6. g[D] = F[n]
  BY <1>1
<1> HIDE DEF F, D
<1>7. \A k \in 1 .. n : F[k] = op[<<F[k - 1], seq[k]>>]
  <2> SUFFICES ASSUME NEW k \in 1 .. n PROVE F[k] = op[<<F[k - 1], seq[k]>>]
    OBVIOUS
  <2>1. k - 1 \in 0 .. n
    BY <1>1
  <2> QED BY <1>3, <1>5, <2>1
<1>8. Trace(F, seq, V, base, op)
  BY <1>2, <1>5, <1>7 DEF Trace
<1> QED BY <1>6, <1>8 DEF D, HasTrace

\* There is such a sequence of values.
LEMMA SomeTrace ==
  ASSUME NEW T, NEW seq \in Seq(T), NEW V, NEW base \in V, NEW op \in [V \X T -> V]
  PROVE  \E F : Trace(F, seq, V, base, op)
<1>1. PICK g : Solves(g, seq, V, base, op)
  BY SomeSolves, Zenon
<1>2. Follows(g, seq, V, base, op)
  BY <1>1, Zenon DEF Solves, Follows
<1> QED BY <1>2, TraceOf, Zenon DEF HasTrace

-----------------------------------------------------------------------------
(* Sequences *)

LEMMA RangeFacts ==
  ASSUME NEW T, NEW s \in Seq(T)
  PROVE  /\ Range(s) \subseteq T
         /\ \A x : Contains(s, x) <=> x \in Range(s)
         /\ \A x \in Range(s) : \E i \in 1 .. Len(s) : s[i] = x
BY DEF Range, Contains

LEMMA MaxWithZero ==
  ASSUME NEW n \in Nat, NEW S \in SUBSET (1 .. n)
  PROVE  Max({0} \cup S) \in {0} \cup S /\ \A i \in {0} \cup S : i <= Max({0} \cup S)
<1>1. CASE S = {}
  BY <1>1 DEF Max
<1>2. CASE S # {}
  <2>1. Max(S) \in S /\ \A i \in S : i <= Max(S)
    BY <1>2, MaxOfPositions, Zenon
  <2>a. \A i \in S : i \in Nat
    OBVIOUS
  <2>2. PICK m \in S : m \in Nat /\ \A i \in S : i <= m /\ i \in Nat
    BY <2>1, <2>a, Zenon
  <2>3. m \in {0} \cup S /\ \A j \in {0} \cup S : m >= j
    BY <2>2
  <2> QED BY <2>3, Zenon DEF Max
<1> QED BY <1>1, <1>2

LEMMA AppendFacts ==
  ASSUME NEW T, NEW s \in Seq(T), NEW x \in T
  PROVE  /\ Append(s, x) \in Seq(T) /\ Len(Append(s, x)) = Len(s) + 1
         /\ Range(Append(s, x)) = Range(s) \cup {x}
<1>1. /\ Append(s, x) \in Seq(T) /\ Len(Append(s, x)) = Len(s) + 1 /\ Len(s) \in Nat
      /\ \A i \in 1 .. Len(s) : Append(s, x)[i] = s[i]
      /\ Append(s, x)[Len(s) + 1] = x
      /\ DOMAIN Append(s, x) = 1 .. (Len(s) + 1) /\ DOMAIN s = 1 .. Len(s)
  OBVIOUS
<1> QED BY <1>1 DEF Range

LEMMA ConcatRange ==
  ASSUME NEW T, NEW s \in Seq(T), NEW r \in Seq(T)
  PROVE  s \o r \in Seq(T) /\ Range(s \o r) = Range(s) \cup Range(r)
<1>1. /\ s \o r \in Seq(T) /\ Len(s) \in Nat /\ Len(r) \in Nat
      /\ DOMAIN s = 1 .. Len(s) /\ DOMAIN r = 1 .. Len(r)
      /\ DOMAIN (s \o r) = 1 .. (Len(s) + Len(r))
      /\ \A i \in 1 .. (Len(s) + Len(r)) :
           (s \o r)[i] = IF i <= Len(s) THEN s[i] ELSE r[i - Len(s)]
  OBVIOUS
<1>2. Range(s \o r) \subseteq Range(s) \cup Range(r)
  BY <1>1 DEF Range
<1>3. ASSUME NEW i \in 1 .. Len(s) PROVE s[i] \in Range(s \o r)
  BY <1>1 DEF Range
<1>4. ASSUME NEW i \in 1 .. Len(r) PROVE r[i] \in Range(s \o r)
  <2>1. Len(s) + i \in 1 .. (Len(s) + Len(r)) /\ (s \o r)[Len(s) + i] = r[i]
    BY <1>1
  <2> QED BY <1>1, <2>1 DEF Range
<1> QED BY <1>1, <1>2, <1>3, <1>4 DEF Range

LEMMA SubSeqRange ==
  ASSUME NEW T, NEW s \in Seq(T), NEW i \in Nat \ {0}
  PROVE  /\ SubSeq(s, i, Len(s)) \in Seq(T)
         /\ Range(SubSeq(s, i, Len(s))) = {s[j] : j \in i .. Len(s)}
<1> DEFINE n == Len(s)
           r == SubSeq(s, i, n)
<1>1. n \in Nat /\ DOMAIN s = 1 .. n /\ \A j \in 1 .. n : s[j] \in T
  OBVIOUS
<1>2. CASE i > n
  <2>1. r = <<>> /\ i .. n = {}
    BY <1>1, <1>2
  <2>2. Range(<<>>) = {}
    BY DEF Range
  <2> QED BY <2>1, <2>2
<1>3. CASE i <= n
  <2>1. (n - i) + 1 \in Nat
    BY <1>1, <1>3
  <2>2. PICK m \in Nat : m = (n - i) + 1
    BY <2>1
  <2>3. r = [j \in 1 .. m |-> s[(i + j) - 1]]
    BY <1>1, <1>3, <2>2
  <2>4. \A j \in 1 .. m : (i + j) - 1 \in 1 .. n /\ (i + j) - 1 \in i .. n
    BY <1>1, <1>3, <2>2
  <2> HIDE DEF r
  <2>5. r \in Seq(T) /\ DOMAIN r = 1 .. m /\ \A j \in 1 .. m : r[j] = s[(i + j) - 1]
    BY <1>1, <2>3, <2>4
  <2>6. Range(r) \subseteq {s[j] : j \in i .. n}
    BY <2>4, <2>5 DEF Range
  <2>7. ASSUME NEW j \in i .. n PROVE s[j] \in Range(r)
    <3>1. (j - i) + 1 \in 1 .. m /\ (i + ((j - i) + 1)) - 1 = j
      BY <1>1, <1>3, <2>2
    <3> QED BY <2>5, <3>1, Zenon DEF Range
  <2> QED BY <2>5, <2>6, <2>7 DEF r
<1> QED BY <1>1, <1>2, <1>3

\* Where slices.Insert leaves the elements.
Inserted(ins, list, m, r) ==
  /\ Len(ins) = Len(list) + 1
  /\ \A i \in 1 .. m : ins[i] = list[i]
  /\ ins[m + 1] = r
  /\ \A i \in (m + 2) .. (Len(list) + 1) : ins[i] = list[i - 1]

LEMMA InsertAtFacts ==
  ASSUME NEW T, NEW list \in Seq(T), NEW r \in T, NEW m \in Nat, m <= Len(list),
         NEW ins, ins = InsertAt(list, m + 1, r)
  PROVE  ins \in Seq(T) /\ Inserted(ins, list, m, r)
<1> DEFINE lo == SubSeq(list, 1, m)
           hi == SubSeq(list, m + 1, Len(list))
           lor == lo \o <<r>>
<1>1. m \in Int /\ m + 1 \in Int /\ Len(list) \in Nat /\ \A i \in 1 .. Len(list) : list[i] \in T
  OBVIOUS
<1>2. lo \in Seq(T) /\ Len(lo) = m /\ \A i \in 1 .. m : lo[i] = list[i]
  <2>1. \A i \in 1 .. m : list[i] \in T
    BY <1>1
  <2>2. /\ lo \in Seq(T) /\ Len(lo) = (IF 1 <= m THEN m - 1 + 1 ELSE 0)
        /\ \A i \in 1 .. (m - 1 + 1) : lo[i] = list[1 + i - 1]
    BY <1>1, <2>1, SubSeqProperties
  <2> HIDE DEF lo
  <2> QED BY <1>1, <2>2
<1>3. /\ hi \in Seq(T) /\ Len(hi) = Len(list) - m
      /\ \A i \in 1 .. (Len(list) - m) : hi[i] = list[i + m]
  <2>1. \A i \in (m + 1) .. Len(list) : list[i] \in T
    BY <1>1
  <2>2. /\ hi \in Seq(T)
        /\ Len(hi) = (IF m + 1 <= Len(list) THEN Len(list) - (m + 1) + 1 ELSE 0)
        /\ \A i \in 1 .. (Len(list) - (m + 1) + 1) : hi[i] = list[(m + 1) + i - 1]
    BY <1>1, <2>1, SubSeqProperties
  <2> HIDE DEF hi
  <2>3. Len(hi) = Len(list) - m
    BY <1>1, <2>2
  <2>4. ASSUME NEW i \in 1 .. (Len(list) - m) PROVE hi[i] = list[i + m]
    <3>1. i \in 1 .. (Len(list) - (m + 1) + 1) /\ (m + 1) + i - 1 = i + m
      BY <1>1
    <3> QED BY <2>2, <3>1
  <2> QED BY <2>2, <2>3, <2>4
<1>4. ins = lor \o hi
  <2>1. (m + 1) - 1 = m
    OBVIOUS
  <2> QED BY <2>1, Zenon DEF InsertAt
<1> HIDE DEF lo, hi
<1>5. <<r>> \in Seq(T) /\ Len(<<r>>) = 1 /\ <<r>>[1] = r
  OBVIOUS
<1>6. /\ lor \in Seq(T) /\ Len(lor) = Len(lo) + 1
      /\ \A i \in 1 .. (Len(lo) + 1) : lor[i] = IF i <= Len(lo) THEN lo[i] ELSE <<r>>[i - Len(lo)]
  BY <1>2, <1>5, ConcatProperties
<1> HIDE DEF lor
<1>7. lor \in Seq(T) /\ Len(lor) = m + 1 /\ lor[m + 1] = r /\ \A i \in 1 .. m : lor[i] = lo[i]
  BY <1>1, <1>2, <1>5, <1>6
<1>8. /\ ins \in Seq(T) /\ Len(ins) = Len(lor) + Len(hi)
      /\ \A i \in 1 .. (Len(lor) + Len(hi)) :
           ins[i] = IF i <= Len(lor) THEN lor[i] ELSE hi[i - Len(lor)]
  <2>1. lor \in Seq(T) /\ hi \in Seq(T)
    BY <1>3, <1>7
  <2>2. /\ lor \o hi \in Seq(T) /\ Len(lor \o hi) = Len(lor) + Len(hi)
        /\ \A i \in 1 .. Len(lor) + Len(hi) :
             (lor \o hi)[i] = IF i <= Len(lor) THEN lor[i] ELSE hi[i - Len(lor)]
    BY <2>1, ConcatProperties, Zenon
  <2> QED BY <1>4, <2>2, Zenon
<1>9. Len(ins) = Len(list) + 1
  BY <1>1, <1>3, <1>7, <1>8
<1>10. ASSUME NEW i \in 1 .. m PROVE ins[i] = list[i]
  <2>1. i \in 1 .. (Len(lor) + Len(hi)) /\ i <= Len(lor)
    BY <1>1, <1>3, <1>7
  <2> QED BY <1>2, <1>7, <1>8, <2>1
<1>11. ins[m + 1] = r
  <2>1. m + 1 \in 1 .. (Len(lor) + Len(hi)) /\ m + 1 <= Len(lor)
    BY <1>1, <1>3, <1>7
  <2> QED BY <1>7, <1>8, <2>1
<1>12. ASSUME NEW i \in (m + 2) .. (Len(list) + 1) PROVE ins[i] = list[i - 1]
  <2>1. i \in 1 .. (Len(lor) + Len(hi)) /\ ~(i <= Len(lor)) /\ i - Len(lor) = i - (m + 1)
    BY <1>1, <1>3, <1>7
  <2>2. ins[i] = hi[i - (m + 1)]
    BY <1>8, <2>1
  <2>3. i - (m + 1) \in 1 .. (Len(list) - m) /\ (i - (m + 1)) + m = i - 1
    BY <1>1
  <2> QED BY <1>3, <2>2, <2>3
<1> QED BY <1>8, <1>9, <1>10, <1>11, <1>12 DEF Inserted

\* SetToSeq has every element, and no other.
LEMMA SetToSeqFacts ==
  ASSUME NEW S, IsFiniteSet(S)
  PROVE  /\ SetToSeq(S) \in Seq(S) /\ Len(SetToSeq(S)) = Cardinality(S)
         /\ \A x \in S : \E i \in 1 .. Len(SetToSeq(S)) : SetToSeq(S)[i] = x
<1> DEFINE n == Cardinality(S)
           f == SetToSeq(S)
<1>1. n \in Nat /\ ExistsBijection(1 .. n, S)
  BY FS_CardinalityType
<1>2. \E g \in [1 .. n -> S] : IsInjective(g)
  BY <1>1 DEF ExistsBijection, Bijection, Injection
<1>3. f \in [1 .. n -> S] /\ IsInjective(f)
  BY <1>2 DEF SetToSeq
<1>4. IsFiniteSet(1 .. n) /\ Cardinality(1 .. n) = n
  <2>1. 1 \in Int /\ n \in Int
    BY <1>1
  <2>2. IsFiniteSet(1 .. n) /\ Cardinality(1 .. n) = IF 1 > n THEN 0 ELSE n - 1 + 1
    BY <2>1, FS_Interval
  <2> QED BY <1>1, <2>2
<1> HIDE DEF f
<1>5. f \in Injection(1 .. n, S)
  BY <1>3 DEF Injection
<1>6. f \in Surjection(1 .. n, S)
  BY <1>4, <1>5, FS_Injection
<1>7. f \in Seq(S) /\ Len(f) = n /\ \A x \in S : \E i \in 1 .. n : f[i] = x
  BY <1>1, <1>3, <1>6 DEF Surjection
<1> QED BY <1>7 DEF f

\* The lists of all the elements of a set.
LEMMA SetToSeqsFacts ==
  ASSUME NEW S, IsFiniteSet(S), NEW order \in SetToSeqs(S)
  PROVE  /\ order \in Seq(S) /\ Len(order) = Cardinality(S) /\ Range(order) = S
         /\ \A x \in S : \E i \in 1 .. Len(order) : order[i] = x
<1> DEFINE n == Cardinality(S)
<1>1. n \in Nat
  BY FS_CardinalityType
<1>2. order \in [1 .. n -> S] /\ \A i, j \in 1 .. n : i # j => order[i] # order[j]
  BY DEF SetToSeqs
<1>3. IsFiniteSet(1 .. n) /\ Cardinality(1 .. n) = n
  <2>1. 1 \in Int /\ n \in Int
    BY <1>1
  <2>2. IsFiniteSet(1 .. n) /\ Cardinality(1 .. n) = IF 1 > n THEN 0 ELSE n - 1 + 1
    BY <2>1, FS_Interval
  <2> QED BY <1>1, <2>2
<1>4. order \in Injection(1 .. n, S)
  BY <1>2 DEF Injection, IsInjective
<1>5. order \in Surjection(1 .. n, S)
  BY <1>3, <1>4, FS_Injection
<1>6. Range(order) = S
  BY <1>2, <1>5 DEF Surjection, Range
<1> QED BY <1>1, <1>2, <1>5, <1>6 DEF Surjection

-----------------------------------------------------------------------------
(* Filter *)

\* The pairs of a comparison are at no two positions in the wrong order.
Sorted(s, less) == \A i, j \in DOMAIN s : i < j => <<s[j], s[i]>> \notin less

\* The operation of Filter, on lists of T.
FilterOp(T, S) == [p \in Seq(T) \X T |-> IF p[2] \in S THEN Append(p[1], p[2]) ELSE p[1]]

LEMMA FilterTrace ==
  ASSUME NEW T, NEW s \in Seq(T), NEW S
  PROVE  HasTrace(Filter(s, S), s, Seq(T), <<>>, FilterOp(T, S))
<1> DEFINE n == Len(s)
           V == Seq(T)
           op == FilterOp(T, S)
           Op(acc, x) == IF x \in S THEN Append(acc, x) ELSE acc
           Rec(g) == [i \in 0 .. n |-> IF i = 0 THEN <<>> ELSE Op(g[i - 1], s[i])]
           kept == CHOOSE g : g = Rec(g)
<1>1. Filter(s, S) = kept[n]
  BY DEF Filter
<1>2. op \in [V \X T -> V] /\ <<>> \in V /\ \A v \in V, x \in T : op[<<v, x>>] = Op(v, x)
  BY DEF FilterOp
<1>3. n \in Nat /\ \A i \in 1 .. n : s[i] \in T
  OBVIOUS
<1> HIDE DEF V, op, Op
<1>4. PICK F : Trace(F, s, V, <<>>, op)
  BY <1>2, SomeTrace, Zenon
<1>5. /\ F \in [0 .. n -> V] /\ F[0] = <<>>
      /\ \A k \in 1 .. n : F[k] = op[<<F[k - 1], s[k]>>]
  BY <1>4 DEF Trace
<1> HIDE DEF n
<1>6. F = Rec(F)
  <2>1. ASSUME NEW k \in 1 .. n PROVE F[k] = Op(F[k - 1], s[k])
    <3>1. F[k - 1] \in V /\ s[k] \in T
      BY <1>3, <1>5
    <3> QED BY <1>2, <1>5, <3>1, Zenon
  <2> QED BY <1>3, <1>5, <2>1
<1>7. kept = Rec(kept)
  <2> HIDE DEF Rec
  <2> QED BY <1>6
<1> HIDE DEF kept
<1>8. kept[0] = <<>> /\ \A k \in 1 .. n : kept[k] = Op(kept[k - 1], s[k])
  BY <1>3, <1>7
<1> DEFINE Good == {k \in 0 .. n : kept[k] = F[k]}
<1>9. 0 \in Good
  BY <1>3, <1>5, <1>8
<1>10. ASSUME NEW k \in 1 .. n, k - 1 \in Good PROVE k \in Good
  <2>1. F[k - 1] \in V /\ kept[k - 1] = F[k - 1] /\ k \in 0 .. n
    BY <1>3, <1>5, <1>10
  <2> QED BY <1>2, <1>3, <1>5, <1>8, <2>1, Zenon
<1>11. n \in Good
  <2> HIDE DEF Good
  <2>1. 0 .. n \subseteq Good
    BY <1>3, <1>9, <1>10, UpTo, Zenon
  <2> QED BY <1>3, <2>1
<1> QED BY <1>1, <1>4, <1>11 DEF HasTrace, V, op, n

\* What Filter keeps, and that nothing is dropped if the length stays.
LEMMA FilterFacts ==
  ASSUME NEW T, NEW s \in Seq(T), NEW S
  PROVE  /\ Filter(s, S) \in Seq(T)
         /\ Range(Filter(s, S)) = Range(s) \cap S
         /\ Len(Filter(s, S)) < Len(s) \/ Range(s) \subseteq S
         /\ Len(Filter(s, S)) <= Len(s)
<1> DEFINE n == Len(s)
<1>1. PICK F : Trace(F, s, Seq(T), <<>>, FilterOp(T, S)) /\ Filter(s, S) = F[n]
  BY FilterTrace DEF HasTrace
<1>2. n \in Nat /\ DOMAIN s = 1 .. n /\ \A i \in 1 .. n : s[i] \in T
  OBVIOUS
<1>3. /\ F \in [0 .. n -> Seq(T)] /\ F[0] = <<>>
      /\ \A k \in 1 .. n : F[k] = IF s[k] \in S THEN Append(F[k - 1], s[k]) ELSE F[k - 1]
  <2>1. /\ F \in [0 .. n -> Seq(T)] /\ F[0] = <<>>
        /\ \A k \in 1 .. n : F[k] = FilterOp(T, S)[<<F[k - 1], s[k]>>]
    BY <1>1 DEF Trace
  <2>2. \A k \in 1 .. n : F[k - 1] \in Seq(T)
    BY <1>2, <2>1
  <2> QED BY <1>2, <2>1, <2>2, Zenon DEF FilterOp
<1> HIDE DEF n
<1> DEFINE Seen(k) == {s[i] : i \in 1 .. k}
           Good == {k \in 0 .. n : /\ Range(F[k]) = Seen(k) \cap S
                                   /\ Len(F[k]) < k \/ Seen(k) \subseteq S
                                   /\ Len(F[k]) <= k}
<1>4. 0 \in Good
  <2>1. 1 .. 0 = {} /\ Len(<<>>) = 0 /\ Range(<<>>) = {}
    BY DEF Range
  <2> QED BY <1>2, <1>3, <2>1
<1>5. ASSUME NEW k \in 1 .. n, k - 1 \in Good
      PROVE  k \in Good
  <2>1. PICK acc \in Seq(T) : acc = F[k - 1]
    BY <1>2, <1>3
  <2>2. /\ Range(acc) = Seen(k - 1) \cap S
        /\ Len(acc) < k - 1 \/ Seen(k - 1) \subseteq S
        /\ Len(acc) <= k - 1 /\ Len(acc) \in Nat
    BY <1>5, <2>1
  <2>3. Seen(k) = Seen(k - 1) \cup {s[k]} /\ s[k] \in T /\ k \in 0 .. n
    BY <1>2
  <2> HIDE DEF Seen
  <2>4. CASE s[k] \in S
    <3>1. F[k] = Append(acc, s[k])
      BY <1>3, <2>1, <2>4, Zenon
    <3>2. Len(F[k]) = Len(acc) + 1 /\ Range(F[k]) = Range(acc) \cup {s[k]}
      BY <2>3, <3>1, AppendFacts
    <3>3. Len(F[k]) < k \/ Seen(k) \subseteq S
      BY <2>2, <2>3, <2>4, <3>2
    <3>4. Range(F[k]) = Seen(k) \cap S
      BY <2>2, <2>3, <2>4, <3>2
    <3> QED BY <2>2, <2>3, <3>2, <3>3, <3>4
  <2>5. CASE s[k] \notin S
    <3>1. F[k] = acc
      BY <1>3, <2>1, <2>5
    <3>2. Range(F[k]) = Seen(k) \cap S
      BY <2>2, <2>3, <2>5, <3>1
    <3> QED BY <2>2, <2>3, <3>1, <3>2
  <2> QED BY <2>4, <2>5
<1>6. n \in Good
  <2> HIDE DEF Good
  <2>1. 0 .. n \subseteq Good
    BY <1>2, <1>4, <1>5, UpTo, Zenon
  <2> QED BY <1>2, <2>1
<1>7. Seen(n) = Range(s)
  BY <1>2 DEF Range
<1>8. F[n] \in Seq(T)
  BY <1>2, <1>3
<1> HIDE DEF Seen
<1> QED BY <1>1, <1>6, <1>7, <1>8 DEF n

\* Filter keeps an order.
LEMMA FilterSorted ==
  ASSUME NEW T, NEW s \in Seq(T), NEW S, NEW less, Sorted(s, less)
  PROVE  Sorted(Filter(s, S), less)
<1> DEFINE n == Len(s)
<1>1. PICK F : Trace(F, s, Seq(T), <<>>, FilterOp(T, S)) /\ Filter(s, S) = F[n]
  BY FilterTrace DEF HasTrace
<1>2. n \in Nat /\ DOMAIN s = 1 .. n /\ \A i \in 1 .. n : s[i] \in T
  OBVIOUS
<1>3. /\ F \in [0 .. n -> Seq(T)] /\ F[0] = <<>>
      /\ \A k \in 1 .. n : F[k] = IF s[k] \in S THEN Append(F[k - 1], s[k]) ELSE F[k - 1]
  <2>1. /\ F \in [0 .. n -> Seq(T)] /\ F[0] = <<>>
        /\ \A k \in 1 .. n : F[k] = FilterOp(T, S)[<<F[k - 1], s[k]>>]
    BY <1>1 DEF Trace
  <2>2. \A k \in 1 .. n : F[k - 1] \in Seq(T)
    BY <1>2, <2>1
  <2> QED BY <1>2, <2>1, <2>2, Zenon DEF FilterOp
<1> HIDE DEF n
<1> DEFINE Good == {k \in 0 .. n : /\ Sorted(F[k], less)
                                   /\ \A i \in 1 .. Len(F[k]) : \E m \in 1 .. k : F[k][i] = s[m]}
<1>4. 0 \in Good
  BY <1>2, <1>3 DEF Sorted
<1>5. ASSUME NEW k \in 1 .. n, k - 1 \in Good
      PROVE  k \in Good
  <2>1. PICK acc \in Seq(T) : acc = F[k - 1]
    BY <1>2, <1>3
  <2>2. /\ Sorted(acc, less)
        /\ \A i \in 1 .. Len(acc) : \E m \in 1 .. (k - 1) : acc[i] = s[m]
    BY <1>5, <2>1
  <2>3. s[k] \in T /\ k \in 0 .. n
    BY <1>2
  <2>a. ASSUME NEW m \in 1 .. (k - 1) PROVE <<s[k], s[m]>> \notin less
    <3>1. m \in DOMAIN s /\ k \in DOMAIN s /\ m < k
      BY <1>2
    <3> QED BY <3>1 DEF Sorted
  <2>4. CASE s[k] \in S
    <3>1. F[k] = Append(acc, s[k])
      BY <1>3, <2>1, <2>4, Zenon
    <3>2. /\ DOMAIN F[k] = 1 .. (Len(acc) + 1) /\ Len(F[k]) = Len(acc) + 1 /\ Len(acc) \in Nat
          /\ F[k][Len(acc) + 1] = s[k] /\ DOMAIN acc = 1 .. Len(acc)
          /\ \A i \in 1 .. Len(acc) : F[k][i] = acc[i]
      BY <2>3, <3>1
    <3>3. \A i \in 1 .. Len(acc) : <<s[k], acc[i]>> \notin less
      BY <2>2, <2>a
    <3>4. ASSUME NEW i \in DOMAIN F[k], NEW j \in DOMAIN F[k], i < j
          PROVE  <<F[k][j], F[k][i]>> \notin less
      <4>1. i \in 1 .. Len(acc) /\ F[k][i] = acc[i]
        BY <3>2, <3>4
      <4>2. CASE j = Len(acc) + 1
        BY <3>2, <3>3, <4>1, <4>2
      <4>3. CASE j # Len(acc) + 1
        <5>1. j \in 1 .. Len(acc) /\ F[k][j] = acc[j]
          BY <3>2, <4>3
        <5> QED BY <2>2, <3>2, <3>4, <4>1, <5>1 DEF Sorted
      <4> QED BY <4>2, <4>3
    <3>5. ASSUME NEW i \in 1 .. Len(F[k]) PROVE \E m \in 1 .. k : F[k][i] = s[m]
      <4>1. CASE i = Len(acc) + 1
        BY <3>2, <4>1
      <4>2. CASE i # Len(acc) + 1
        <5>1. i \in 1 .. Len(acc) /\ F[k][i] = acc[i]
          BY <3>2, <4>2
        <5>2. PICK m \in 1 .. (k - 1) : acc[i] = s[m]
          BY <2>2, <5>1
        <5>3. m \in 1 .. k
          OBVIOUS
        <5> QED BY <5>1, <5>2, <5>3
      <4> QED BY <4>1, <4>2
    <3> QED BY <2>3, <3>4, <3>5 DEF Sorted
  <2>5. CASE s[k] \notin S
    <3>1. F[k] = acc
      BY <1>3, <2>1, <2>5
    <3> QED BY <2>2, <2>3, <3>1
  <2> QED BY <2>4, <2>5
<1>6. n \in Good
  <2> HIDE DEF Good
  <2>1. 0 .. n \subseteq Good
    BY <1>2, <1>4, <1>5, UpTo, Zenon
  <2> QED BY <1>2, <2>1
<1> QED BY <1>1, <1>6 DEF n

\* The other elements stay, in their order.
LEMMA SlicesWithoutFacts ==
  ASSUME NEW T, NEW s \in Seq(T), NEW R
  PROVE  /\ SlicesWithout(s, R) \in Seq(T)
         /\ Range(SlicesWithout(s, R)) = Range(s) \ R
         /\ \A less : Sorted(s, less) => Sorted(SlicesWithout(s, R), less)
<1> DEFINE S == Range(s) \ R
<1>1. /\ Filter(s, S) \in Seq(T) /\ Range(Filter(s, S)) = Range(s) \cap S
      /\ \A less : Sorted(s, less) => Sorted(Filter(s, S), less)
  <2> HIDE DEF S
  <2> QED BY FilterFacts, FilterSorted
<1> QED BY <1>1, Zenon DEF SlicesWithout

-----------------------------------------------------------------------------
(* Uniq and Reverse *)

\* The operation of Uniq, on lists of T.
UniqOp(T) == [p \in Seq(T) \X T |-> IF Contains(p[1], p[2]) THEN p[1] ELSE Append(p[1], p[2])]

LEMMA UniqTrace ==
  ASSUME NEW T, NEW s \in Seq(T)
  PROVE  HasTrace(Uniq(s), s, Seq(T), <<>>, UniqOp(T))
<1> DEFINE D == DOMAIN s
           V == Seq(T)
           op == UniqOp(T)
           Op(acc, x) == IF Contains(acc, x) THEN acc ELSE Append(acc, x)
           Rec(g) == [r \in SUBSET D |-> IF r = {} THEN <<>> ELSE Op(g[r \ {Max(r)}], s[Max(r)])]
           iter == CHOOSE g : g = Rec(g)
<1>1. Uniq(s) = iter[D]
  BY DEF Uniq, FoldLeft, MapThenFoldSet
<1>2. op \in [V \X T -> V] /\ <<>> \in V /\ \A v \in V, x \in T : op[<<v, x>>] = Op(v, x)
  BY DEF UniqOp
<1>3. \A i \in D : s[i] \in T
  OBVIOUS
<1> HIDE DEF V, op, Op
<1>4. PICK g : Solves(g, s, V, <<>>, op)
  BY <1>2, SomeSolves, Zenon
<1>5. g = Rec(g)
  BY <1>2, <1>3, <1>4, Zenon DEF Solves
<1>6. iter = Rec(iter)
  <2> HIDE DEF Rec
  <2> QED BY <1>5
<1> HIDE DEF iter
<1>7. Follows(iter, s, V, <<>>, op)
  <2>1. iter[{}] = <<>>
    BY <1>6
  <2>2. ASSUME NEW r \in SUBSET D, r # {}, iter[r \ {Max(r)}] \in V
        PROVE  iter[r] = op[<<iter[r \ {Max(r)}], s[Max(r)]>>]
    <3>1. Max(r) \in D
      BY <1>4, <2>2, Zenon DEF Solves
    <3> QED BY <1>2, <1>3, <1>6, <2>2, <3>1, Zenon
  <2> QED BY <2>1, <2>2, Zenon DEF Follows
<1>8. HasTrace(iter[D], s, V, <<>>, op)
  BY <1>2, <1>7, TraceOf, Zenon
<1> QED BY <1>1, <1>8 DEF V, op

LEMMA UniqFacts ==
  ASSUME NEW T, NEW s \in Seq(T)
  PROVE  Uniq(s) \in Seq(T) /\ Range(Uniq(s)) = Range(s)
<1> DEFINE n == Len(s)
<1>1. PICK F : Trace(F, s, Seq(T), <<>>, UniqOp(T)) /\ Uniq(s) = F[n]
  BY UniqTrace DEF HasTrace
<1>2. n \in Nat /\ DOMAIN s = 1 .. n /\ \A i \in 1 .. n : s[i] \in T
  OBVIOUS
<1>3. /\ F \in [0 .. n -> Seq(T)] /\ F[0] = <<>>
      /\ \A k \in 1 .. n : F[k] = IF Contains(F[k - 1], s[k]) THEN F[k - 1] ELSE Append(F[k - 1], s[k])
  <2>1. /\ F \in [0 .. n -> Seq(T)] /\ F[0] = <<>>
        /\ \A k \in 1 .. n : F[k] = UniqOp(T)[<<F[k - 1], s[k]>>]
    BY <1>1 DEF Trace
  <2>2. \A k \in 1 .. n : F[k - 1] \in Seq(T)
    BY <1>2, <2>1
  <2> QED BY <1>2, <2>1, <2>2, Zenon DEF UniqOp
<1> HIDE DEF n
<1> DEFINE Seen(k) == {s[i] : i \in 1 .. k}
           Good == {k \in 0 .. n : Range(F[k]) = Seen(k)}
<1>4. 0 \in Good
  <2>1. 1 .. 0 = {} /\ Range(<<>>) = {}
    BY DEF Range
  <2> QED BY <1>2, <1>3, <2>1
<1>5. ASSUME NEW k \in 1 .. n, k - 1 \in Good
      PROVE  k \in Good
  <2>1. PICK acc \in Seq(T) : acc = F[k - 1] /\ Range(acc) = Seen(k - 1)
    BY <1>2, <1>3, <1>5, Zenon
  <2>2. Seen(k) = Seen(k - 1) \cup {s[k]} /\ s[k] \in T /\ k \in 0 .. n
    BY <1>2
  <2> HIDE DEF Seen
  <2>3. CASE Contains(acc, s[k])
    <3>1. F[k] = acc
      BY <1>3, <2>1, <2>3
    <3>2. s[k] \in Range(acc)
      BY <2>3, RangeFacts
    <3> QED BY <2>1, <2>2, <3>1, <3>2, Zenon
  <2>4. CASE ~Contains(acc, s[k])
    <3>1. F[k] = Append(acc, s[k])
      BY <1>3, <2>1, <2>4, Zenon
    <3>2. Range(F[k]) = Range(acc) \cup {s[k]}
      BY <2>2, <3>1, AppendFacts
    <3> QED BY <2>1, <2>2, <3>2, Zenon
  <2> QED BY <2>3, <2>4
<1>6. n \in Good
  <2> HIDE DEF Good
  <2>1. 0 .. n \subseteq Good
    BY <1>2, <1>4, <1>5, UpTo, Zenon
  <2> QED BY <1>2, <2>1
<1>7. Seen(n) = Range(s)
  BY <1>2 DEF Range
<1> QED BY <1>1, <1>2, <1>3, <1>6, <1>7, Zenon

LEMMA ReverseFacts ==
  ASSUME NEW T, NEW s \in Seq(T)
  PROVE  Reverse(s) \in Seq(T) /\ Range(Reverse(s)) = Range(s)
<1> DEFINE n == Len(s)
<1>1. n \in Nat /\ DOMAIN s = 1 .. n /\ \A i \in 1 .. n : s[i] \in T
  OBVIOUS
<1>2. \A i \in 1 .. n : (n - i) + 1 \in 1 .. n /\ (n - ((n - i) + 1)) + 1 = i
  BY <1>1
<1>3. Reverse(s) = [i \in 1 .. n |-> s[(n - i) + 1]]
  BY DEF Reverse
<1> HIDE DEF n
<1>4. Reverse(s) \in Seq(T) /\ DOMAIN Reverse(s) = 1 .. n
  BY <1>1, <1>2, <1>3
<1>5. \A i \in 1 .. n : Reverse(s)[i] = s[(n - i) + 1]
  BY <1>3
<1>6. ASSUME NEW i \in 1 .. n
      PROVE  Reverse(s)[i] \in Range(s) /\ s[i] \in Range(Reverse(s))
  <2>1. (n - i) + 1 \in 1 .. n /\ s[i] = Reverse(s)[(n - i) + 1]
    BY <1>2, <1>5
  <2> QED BY <1>1, <1>4, <1>5, <2>1 DEF Range
<1> QED BY <1>1, <1>4, <1>6 DEF Range
-----------------------------------------------------------------------------
(* sort.SliceStable *)

\* x is inserted after position p, the last one of a state that x is not less than.
InsertedAt(new, p, acc, x, less) ==
  /\ p \in 0 .. Len(acc)
  /\ p > 0 => <<x, acc[p]>> \notin less
  /\ \A i \in (p + 1) .. Len(acc) : <<x, acc[i]>> \in less
  /\ Len(new) = Len(acc) + 1
  /\ \A i \in 1 .. p : new[i] = acc[i]
  /\ new[p + 1] = x
  /\ \A i \in (p + 1) .. Len(acc) : new[i + 1] = acc[i]

LEMMA InsertPosition ==
  ASSUME NEW T, NEW acc \in Seq(T), NEW x \in T, NEW less
  PROVE  \E p : Insert(acc, x, less) \in Seq(T) /\ InsertedAt(Insert(acc, x, less), p, acc, x, less)
<1> DEFINE n == Len(acc)
           after == {i \in DOMAIN acc : <<x, acc[i]>> \notin less}
           p == Max({0} \cup after)
           new == InsertAt(acc, p + 1, x)
<1>1. n \in Nat /\ DOMAIN acc = 1 .. n
  OBVIOUS
<1>2. /\ p \in 0 .. n
      /\ p > 0 => <<x, acc[p]>> \notin less
      /\ \A i \in (p + 1) .. n : <<x, acc[i]>> \in less
  <2>1. after \in SUBSET (1 .. n)
    BY <1>1
  <2>2. p \in {0} \cup after /\ \A i \in {0} \cup after : i <= p
    <3> HIDE DEF after, n
    <3> QED BY <1>1, <2>1, MaxWithZero, Zenon
  <2> HIDE DEF p
  <2> QED BY <1>1, <2>2
<1>3. Insert(acc, x, less) = new
  BY DEF Insert
<1> HIDE DEF p
<1>4. new \in Seq(T) /\ Inserted(new, acc, p, x)
  BY <1>1, <1>2, InsertAtFacts
<1> HIDE DEF new
<1>5. /\ Len(new) = n + 1 /\ new[p + 1] = x
      /\ \A i \in 1 .. p : new[i] = acc[i]
      /\ \A i \in (p + 2) .. (n + 1) : new[i] = acc[i - 1]
  BY <1>4 DEF Inserted
<1>6. ASSUME NEW i \in (p + 1) .. n PROVE new[i + 1] = acc[i]
  <2>1. i + 1 \in (p + 2) .. (n + 1) /\ (i + 1) - 1 = i
    BY <1>1, <1>2
  <2> QED BY <1>5, <2>1
<1>7. InsertedAt(new, p, acc, x, less)
  BY <1>2, <1>5, <1>6 DEF InsertedAt
<1> QED BY <1>3, <1>4, <1>7

LEMMA InsertFacts ==
  ASSUME NEW T, NEW acc \in Seq(T), NEW x \in T, NEW less
  PROVE  /\ Insert(acc, x, less) \in Seq(T)
         /\ Range(Insert(acc, x, less)) = Range(acc) \cup {x}
<1> DEFINE new == Insert(acc, x, less)
           n == Len(acc)
<1>1. PICK p : new \in Seq(T) /\ InsertedAt(new, p, acc, x, less)
  BY InsertPosition
<1> HIDE DEF new
<1>2. n \in Nat /\ DOMAIN acc = 1 .. n /\ DOMAIN new = 1 .. (n + 1) /\ p \in 0 .. n
  BY <1>1 DEF InsertedAt
<1>3. \A i \in 1 .. (n + 1) : new[i] = IF i <= p THEN acc[i] ELSE IF i = p + 1 THEN x ELSE acc[i - 1]
  <2> SUFFICES ASSUME NEW i \in 1 .. (n + 1)
               PROVE  new[i] = IF i <= p THEN acc[i] ELSE IF i = p + 1 THEN x ELSE acc[i - 1]
    OBVIOUS
  <2>1. CASE i <= p + 1
    BY <1>1, <1>2, <2>1 DEF InsertedAt
  <2>2. CASE i > p + 1
    <3>1. i - 1 \in (p + 1) .. n /\ (i - 1) + 1 = i
      BY <1>2, <2>2
    <3>2. new[(i - 1) + 1] = acc[i - 1]
      BY <1>1, <3>1 DEF InsertedAt
    <3> QED BY <1>2, <2>2, <3>1, <3>2
  <2> QED BY <1>2, <2>1, <2>2
<1>4. Range(new) \subseteq Range(acc) \cup {x}
  BY <1>2, <1>3 DEF Range
<1>5. x \in Range(new)
  <2>1. p + 1 \in DOMAIN new /\ new[p + 1] = x
    BY <1>2, <1>3
  <2> QED BY <2>1 DEF Range
<1>6. ASSUME NEW i \in 1 .. n PROVE acc[i] \in Range(new)
  <2>1. CASE i <= p
    BY <1>2, <1>3, <2>1 DEF Range
  <2>2. CASE i > p
    <3>1. i + 1 \in 1 .. (n + 1) /\ new[i + 1] = acc[i]
      BY <1>1, <1>2, <2>2 DEF InsertedAt
    <3> QED BY <1>2, <3>1 DEF Range
  <2> QED BY <1>2, <2>1, <2>2
<1>7. Range(new) = Range(acc) \cup {x}
  BY <1>2, <1>4, <1>5, <1>6 DEF Range
<1> QED BY <1>1, <1>7 DEF new

\* The operation of SliceStable, on lists of T.
InsertOp(T, less) == [p \in Seq(T) \X T |-> Insert(p[1], p[2], less)]

LEMMA SliceStableTrace ==
  ASSUME NEW T, NEW s \in Seq(T), NEW less
  PROVE  HasTrace(SliceStable(s, less), s, Seq(T), <<>>, InsertOp(T, less))
<1> DEFINE D == DOMAIN s
           V == Seq(T)
           op == InsertOp(T, less)
           Op(acc, x) == Insert(acc, x, less)
           Rec(g) == [r \in SUBSET D |-> IF r = {} THEN <<>> ELSE Op(g[r \ {Max(r)}], s[Max(r)])]
           iter == CHOOSE g : g = Rec(g)
<1>1. SliceStable(s, less) = iter[D]
  BY DEF SliceStable, FoldLeft, MapThenFoldSet
<1>2. op \in [V \X T -> V] /\ <<>> \in V /\ \A v \in V, x \in T : op[<<v, x>>] = Op(v, x)
  <2>1. \A v \in V, x \in T : Op(v, x) \in V
    BY InsertFacts
  <2>2. op = [p \in V \X T |-> Op(p[1], p[2])]
    BY DEF InsertOp
  <2>3. <<>> \in V
    OBVIOUS
  <2> HIDE DEF Op, op, V
  <2> QED BY <2>1, <2>2, <2>3
<1>3. \A i \in D : s[i] \in T
  OBVIOUS
<1> HIDE DEF V, op, Op
<1>4. PICK g : Solves(g, s, V, <<>>, op)
  BY <1>2, SomeSolves, Zenon
<1>5. g = Rec(g)
  BY <1>2, <1>3, <1>4, Zenon DEF Solves
<1>6. iter = Rec(iter)
  <2> HIDE DEF Rec
  <2> QED BY <1>5
<1> HIDE DEF iter
<1>7. Follows(iter, s, V, <<>>, op)
  <2>1. iter[{}] = <<>>
    BY <1>6
  <2>2. ASSUME NEW r \in SUBSET D, r # {}, iter[r \ {Max(r)}] \in V
        PROVE  iter[r] = op[<<iter[r \ {Max(r)}], s[Max(r)]>>]
    <3>1. Max(r) \in D
      BY <1>4, <2>2, Zenon DEF Solves
    <3> QED BY <1>2, <1>3, <1>6, <2>2, <3>1, Zenon
  <2> QED BY <2>1, <2>2, Zenon DEF Follows
<1>8. HasTrace(iter[D], s, V, <<>>, op)
  BY <1>2, <1>7, TraceOf, Zenon
<1> QED BY <1>1, <1>8 DEF V, op

\* The steps of SliceStable.
LEMMA SliceStableSteps ==
  ASSUME NEW T, NEW s \in Seq(T), NEW less
  PROVE  \E F : /\ F \in [0 .. Len(s) -> Seq(T)] /\ F[0] = <<>>
                /\ \A k \in 1 .. Len(s) : F[k] = Insert(F[k - 1], s[k], less)
                /\ SliceStable(s, less) = F[Len(s)]
<1> DEFINE n == Len(s)
<1>1. PICK F : Trace(F, s, Seq(T), <<>>, InsertOp(T, less)) /\ SliceStable(s, less) = F[n]
  BY SliceStableTrace DEF HasTrace
<1>2. n \in Nat /\ \A i \in 1 .. n : s[i] \in T
  OBVIOUS
<1>3. /\ F \in [0 .. n -> Seq(T)] /\ F[0] = <<>>
      /\ \A k \in 1 .. n : F[k] = InsertOp(T, less)[<<F[k - 1], s[k]>>]
  BY <1>1 DEF Trace
<1>4. \A k \in 1 .. n : F[k - 1] \in Seq(T)
  <2>1. \A k \in 1 .. n : k - 1 \in 0 .. n
    BY <1>2
  <2> QED BY <1>3, <2>1
<1>5. \A k \in 1 .. n : F[k] = Insert(F[k - 1], s[k], less)
  BY <1>2, <1>3, <1>4, Zenon DEF InsertOp
<1> QED BY <1>1, <1>3, <1>5

LEMMA SliceStableFacts ==
  ASSUME NEW T, NEW s \in Seq(T), NEW less
  PROVE  SliceStable(s, less) \in Seq(T) /\ Range(SliceStable(s, less)) = Range(s)
<1> DEFINE n == Len(s)
           Seen(k) == {s[i] : i \in 1 .. k}
<1>1. PICK F : /\ F \in [0 .. n -> Seq(T)] /\ F[0] = <<>>
               /\ \A k \in 1 .. n : F[k] = Insert(F[k - 1], s[k], less)
               /\ SliceStable(s, less) = F[n]
  BY SliceStableSteps, Zenon
<1>2. n \in Nat /\ DOMAIN s = 1 .. n /\ \A i \in 1 .. n : s[i] \in T
  OBVIOUS
<1> HIDE DEF n
<1> DEFINE Good == {k \in 0 .. n : Range(F[k]) = Seen(k)}
<1>3. 0 \in Good
  <2>1. 1 .. 0 = {} /\ Range(<<>>) = {}
    BY DEF Range
  <2> QED BY <1>1, <1>2, <2>1
<1>4. ASSUME NEW k \in 1 .. n, k - 1 \in Good
      PROVE  k \in Good
  <2>1. PICK acc \in Seq(T) : acc = F[k - 1] /\ Range(acc) = Seen(k - 1)
    BY <1>1, <1>2, <1>4, Zenon
  <2>2. Seen(k) = Seen(k - 1) \cup {s[k]} /\ s[k] \in T /\ k \in 0 .. n
    BY <1>2
  <2> HIDE DEF Seen
  <2>3. F[k] = Insert(acc, s[k], less)
    BY <1>1, <2>1
  <2>4. Range(F[k]) = Range(acc) \cup {s[k]}
    BY <2>2, <2>3, InsertFacts
  <2> QED BY <2>1, <2>2, <2>4, Zenon
<1>5. n \in Good
  <2> HIDE DEF Good
  <2>1. 0 .. n \subseteq Good
    BY <1>2, <1>3, <1>4, UpTo, Zenon
  <2> QED BY <1>2, <2>1
<1>6. Seen(n) = Range(s)
  BY <1>2 DEF Range
<1> QED BY <1>1, <1>2, <1>5, <1>6, Zenon

\* A comparison of keys puts states in the order of their keys.
LEMMA InsertSorted ==
  ASSUME NEW T, NEW acc \in Seq(T), NEW x \in T, NEW key \in [T -> Int], NEW less,
         \A a, b \in T : <<a, b>> \in less <=> key[a] < key[b], Sorted(acc, less)
  PROVE  Sorted(Insert(acc, x, less), less)
<1> DEFINE new == Insert(acc, x, less)
           n == Len(acc)
<1>1. PICK p : new \in Seq(T) /\ InsertedAt(new, p, acc, x, less)
  BY InsertPosition
<1> HIDE DEF new
<1>2. /\ n \in Nat /\ DOMAIN acc = 1 .. n /\ DOMAIN new = 1 .. (n + 1) /\ p \in 0 .. n
      /\ \A i \in 1 .. n : acc[i] \in T
  BY <1>1 DEF InsertedAt
<1> DEFINE k(i) == key[acc[i]]
<1>3. \A i \in 1 .. n : k(i) \in Int
  BY <1>2
<1>4. \A i, j \in 1 .. n : i < j => k(i) <= k(j)
  <2> SUFFICES ASSUME NEW i \in 1 .. n, NEW j \in 1 .. n, i < j PROVE k(i) <= k(j)
    OBVIOUS
  <2>1. <<acc[j], acc[i]>> \notin less
    BY <1>2, Zenon DEF Sorted
  <2> QED BY <1>2, <1>3, <2>1
<1>5. \A i \in 1 .. p : k(i) <= key[x]
  <2> SUFFICES ASSUME NEW i \in 1 .. p PROVE k(i) <= key[x]
    OBVIOUS
  <2>1. p \in 1 .. n /\ i \in 1 .. n
    BY <1>2
  <2>2. <<x, acc[p]>> \notin less
    BY <1>1, <1>2, <2>1 DEF InsertedAt
  <2>3. k(p) <= key[x]
    BY <1>2, <2>1, <2>2
  <2>4. i = p \/ k(i) <= k(p)
    BY <1>2, <1>4, <2>1
  <2> HIDE DEF k
  <2> QED BY <1>3, <2>1, <2>3, <2>4
<1>6. \A i \in (p + 1) .. n : key[x] < k(i)
  <2> SUFFICES ASSUME NEW i \in (p + 1) .. n PROVE key[x] < k(i)
    OBVIOUS
  <2>1. <<x, acc[i]>> \in less /\ acc[i] \in T
    BY <1>1, <1>2 DEF InsertedAt
  <2> QED BY <2>1
<1> DEFINE m(i) == key[new[i]]
<1>7. /\ \A i \in 1 .. p : m(i) = k(i)
      /\ m(p + 1) = key[x]
      /\ \A i \in (p + 1) .. n : m(i + 1) = k(i)
  BY <1>1, Zenon DEF InsertedAt
<1>8. key[x] \in Int
  OBVIOUS
<1>9. ASSUME NEW i \in 1 .. (n + 1), NEW j \in 1 .. (n + 1), i < j
      PROVE  <<new[j], new[i]>> \notin less
  <2>1. new[i] \in T /\ new[j] \in T
    BY <1>1, <1>2
  <2>a. i \in Int /\ j \in Int /\ p \in Int /\ n \in Int
    BY <1>2
  <2>2. ~(m(j) < m(i))
    <3> HIDE DEF m, k
    <3>1. CASE j <= p
      <4>1. i \in 1 .. p /\ j \in 1 .. p /\ i \in 1 .. n /\ j \in 1 .. n
        BY <1>2, <1>9, <3>1
      <4> QED BY <1>3, <1>4, <1>7, <1>9, <4>1
    <3>2. CASE j = p + 1
      <4>1. i \in 1 .. p /\ i \in 1 .. n
        BY <1>2, <1>9, <3>2
      <4> QED BY <1>3, <1>5, <1>7, <1>8, <3>2, <4>1
    <3>3. CASE j > p + 1
      <4>1. j - 1 \in (p + 1) .. n /\ j - 1 \in 1 .. n /\ (j - 1) + 1 = j
        BY <1>2, <3>3
      <4>2. m(j) = k(j - 1)
        BY <1>7, <4>1
      <4>3. CASE i <= p
        <5>1. i \in 1 .. p /\ i \in 1 .. n
          BY <1>2, <4>3
        <5> QED BY <1>3, <1>5, <1>6, <1>7, <1>8, <4>1, <4>2, <5>1
      <4>4. CASE i = p + 1
        <5>1. key[x] < k(j - 1) /\ k(j - 1) \in Int /\ m(i) = key[x]
          BY <1>3, <1>6, <1>7, <4>1, <4>4
        <5> QED BY <1>8, <4>2, <5>1
      <4>5. CASE i > p + 1
        <5>1. i - 1 \in (p + 1) .. n /\ i - 1 \in 1 .. n /\ (i - 1) + 1 = i /\ i - 1 < j - 1
          BY <1>2, <1>9, <4>5
        <5>2. m(i) = k(i - 1)
          BY <1>7, <5>1
        <5>3. k(i - 1) <= k(j - 1) /\ k(i - 1) \in Int /\ k(j - 1) \in Int
          BY <1>3, <1>4, <4>1, <5>1
        <5> QED BY <4>2, <5>2, <5>3
      <4> QED BY <2>a, <4>3, <4>4, <4>5
    <3> QED BY <2>a, <3>1, <3>2, <3>3
  <2> QED BY <2>1, <2>2
<1> QED BY <1>2, <1>9 DEF Sorted, new

LEMMA SliceStableSorted ==
  ASSUME NEW T, NEW s \in Seq(T), NEW key \in [T -> Int], NEW less,
         \A a, b \in T : <<a, b>> \in less <=> key[a] < key[b]
  PROVE  Sorted(SliceStable(s, less), less)
<1> DEFINE n == Len(s)
<1>1. PICK F : /\ F \in [0 .. n -> Seq(T)] /\ F[0] = <<>>
               /\ \A k \in 1 .. n : F[k] = Insert(F[k - 1], s[k], less)
               /\ SliceStable(s, less) = F[n]
  BY SliceStableSteps, Zenon
<1>2. n \in Nat /\ \A i \in 1 .. n : s[i] \in T
  OBVIOUS
<1> HIDE DEF n
<1> DEFINE Good == {k \in 0 .. n : Sorted(F[k], less)}
<1>3. 0 \in Good
  BY <1>1, <1>2 DEF Sorted
<1>4. ASSUME NEW k \in 1 .. n, k - 1 \in Good
      PROVE  k \in Good
  <2>1. PICK acc \in Seq(T) : acc = F[k - 1] /\ Sorted(acc, less)
    BY <1>1, <1>2, <1>4
  <2>2. F[k] = Insert(acc, s[k], less) /\ s[k] \in T /\ k \in 0 .. n
    BY <1>1, <1>2, <2>1
  <2>3. Sorted(Insert(acc, s[k], less), less)
    BY <2>1, <2>2, InsertSorted, Zenon
  <2> QED BY <2>2, <2>3
<1>5. n \in Good
  <2> HIDE DEF Good
  <2>1. 0 .. n \subseteq Good
    BY <1>2, <1>3, <1>4, UpTo, Zenon
  <2> QED BY <1>2, <2>1
<1> QED BY <1>1, <1>5

\* No state is less than another one: the order stays.
LEMMA SliceStableSame ==
  ASSUME NEW T, NEW s \in Seq(T), NEW less
  PROVE  (\A p : p \notin less) => SliceStable(s, less) = s
<1>a. SUFFICES ASSUME \A p : p \notin less PROVE SliceStable(s, less) = s
  OBVIOUS
<1> DEFINE n == Len(s)
           Prefix(k) == [i \in 1 .. k |-> s[i]]
<1>1. PICK F : /\ F \in [0 .. n -> Seq(T)] /\ F[0] = <<>>
               /\ \A k \in 1 .. n : F[k] = Insert(F[k - 1], s[k], less)
               /\ SliceStable(s, less) = F[n]
  BY SliceStableSteps, Zenon
<1>2. n \in Nat /\ \A i \in 1 .. n : s[i] \in T
  OBVIOUS
<1>3. Prefix(n) = s
  OBVIOUS
<1> HIDE DEF n
<1> DEFINE Good == {k \in 0 .. n : F[k] = Prefix(k)}
<1>4. 0 \in Good
  BY <1>1, <1>2
<1>5. ASSUME NEW k \in 1 .. n, k - 1 \in Good
      PROVE  k \in Good
  <2>1. PICK acc \in Seq(T) : acc = F[k - 1]
    BY <1>1, <1>2
  <2>b. acc = Prefix(k - 1)
    BY <1>5, <2>1
  <2>2. F[k] = Insert(acc, s[k], less) /\ s[k] \in T /\ k \in 0 .. n
    BY <1>1, <1>2, <2>1
  <2> DEFINE new == Insert(acc, s[k], less)
  <2>3. PICK p : new \in Seq(T) /\ InsertedAt(new, p, acc, s[k], less)
    BY <2>2, InsertPosition
  <2> HIDE DEF new
  <2>4. Len(acc) = k - 1
    BY <2>b
  <2>5. p \in 0 .. (k - 1) /\ \A i \in (p + 1) .. (k - 1) : FALSE
    BY <1>a, <2>3, <2>4, Zenon DEF InsertedAt
  <2>6. p = k - 1
    <3>1. p < k - 1 => p + 1 \in (p + 1) .. (k - 1)
      BY <2>5
    <3> QED BY <2>5, <3>1
  <2>7. Len(new) = k /\ new[k] = s[k] /\ \A i \in 1 .. (k - 1) : new[i] = acc[i]
    BY <2>3, <2>4, <2>6 DEF InsertedAt
  <2>8. \A i \in 1 .. k : new[i] = s[i]
    <3>1. \A i \in 1 .. (k - 1) : acc[i] = s[i]
      BY <2>b
    <3> QED BY <2>7, <3>1
  <2>9. new = Prefix(k)
    BY <2>3, <2>7, <2>8
  <2> QED BY <2>2, <2>9 DEF new
<1>6. n \in Good
  <2> HIDE DEF Good
  <2>1. 0 .. n \subseteq Good
    BY <1>2, <1>4, <1>5, UpTo, Zenon
  <2> QED BY <1>2, <2>1
<1> QED BY <1>1, <1>3, <1>6

\* slices.Index finds a position, or is -1.
LEMMA IndexOfFacts ==
  ASSUME NEW T, NEW s \in Seq(T), NEW x
  PROVE  /\ IndexOf(s, x) \in Int
         /\ Contains(s, x) => IndexOf(s, x) + 1 \in 1 .. Len(s) /\ s[IndexOf(s, x) + 1] = x
<1>1. Len(s) \in Nat /\ DOMAIN s = 1 .. Len(s)
  OBVIOUS
<1>2. CASE Contains(s, x)
  <2> DEFINE i == CHOOSE j \in DOMAIN s : s[j] = x
  <2>1. \E j \in DOMAIN s : s[j] = x
    BY <1>1, <1>2 DEF Contains
  <2>2. i \in DOMAIN s /\ s[i] = x
    BY <2>1
  <2>3. IndexOf(s, x) = i - 1
    BY <1>2 DEF IndexOf
  <2> HIDE DEF i
  <2>4. i \in 1 .. Len(s) /\ (i - 1) + 1 = i /\ i - 1 \in Int
    BY <1>1, <2>2
  <2> QED BY <2>2, <2>3, <2>4
<1>3. CASE ~Contains(s, x)
  BY <1>3 DEF IndexOf
<1> QED BY <1>2, <1>3

=============================================================================
