------------------------ MODULE SubscriptionsFacts -------------------------
(***************************************************************************)
(* The inductive invariant of subscriptions, and what the operators of     *)
(* module Subscriptions compute, for any states, requests and contexts.    *)
(***************************************************************************)
EXTENDS Subscriptions, SlicesProofs

-----------------------------------------------------------------------------
(* The inductive invariant *)

TypeOK ==
  /\ clock \in [States -> Nat] /\ before \in [States -> Nat]
  /\ phase \in {"idle", "ctx", "finals", "crashed", "disposed"}
  /\ activated \subseteq States /\ deactivated \subseteq States
  /\ when \in [States -> SUBSET Requests] /\ whenTime \in [States -> SUBSET Requests]
  /\ whenTimeSum \in Seq(Requests) /\ whenQuery \subseteq Requests
  /\ bind = [r \in Requests |-> bind[r]]
  /\ byCtx \subseteq Requests /\ open \subseteq Requests
  /\ IsFiniteSet(byCtx) /\ IsFiniteSet(open)

\* During a transition the clocks that differ from those before it are those of the
\* states it activated, which are active, and deactivated, which are not.
Moving ==
  phase \in {"ctx", "finals"} =>
    \A s \in States :
      /\ clock[s] # before[s] <=> s \in activated \cup deactivated
      /\ s \in activated => s \in Active
      /\ s \in deactivated => s \notin Active

\* A binding is listed with each of its states, with its context, and nowhere else.
Listing ==
  InService =>
    /\ \A s \in States, r \in Requests :
         /\ r \in when[s]     <=> r \in open /\ r.op \in Lists /\ s \in StatesOf(r)
         /\ r \in whenTime[s] <=> r \in open /\ r.op = "time" /\ s \in StatesOf(r)
    /\ \A r \in Requests :
         /\ Contains(whenTimeSum, r) <=> r \in open /\ r.op = "sum"
         /\ QueryExpired \/ (r \in whenQuery <=> r \in open /\ r.op = "query")
         /\ r \in whenQuery => r.op = "query"
         /\ r \in open /\ r.ctx # "nil" => r \in byCtx
         /\ r \in byCtx /\ r.op \in Lists \cup {"time"} => r \in open

\* The states a binding counts.
Hits(r, b) == {s \in StatesOf(r) : b.on[s] <=> r.op # "whenNot"}

Counted(r, b) ==
  /\ b \in [on : [StatesOf(r) -> BOOLEAN], matched : Nat]
  /\ b.matched = Cardinality(Hits(r, b))

\* States about which bindings have been told all there is.
Told(s) == s \notin missed /\ (phase \in {"ctx", "finals"} => s \notin activated \cup deactivated)

\* A waiting binding has an exact count of what it knows, which is not complete; it knows
\* the states it was told of; and times it has as passed have passed.
Waiting(r) ==
  /\ r.op \in Lists \cup {"time"} => Counted(r, bind[r]) /\ ~Complete(r, bind[r])
  /\ r.op \in Lists =>
       \A s \in StatesOf(r) : Told(s) => (bind[r].on[s] <=> s \in Active)
  /\ r.op = "time" =>
       \A s \in StatesOf(r) : /\ bind[r].on[s] => TimePassed(r, s)
                              /\ Told(s) /\ TimePassed(r, s) => bind[r].on[s]

Ascending(list) == \A i, j \in DOMAIN list : i < j => list[i].sum <= list[j].sum

Waits == InService => \A r \in open : Waiting(r)

\* Sums are in order, and all of them ahead, unless a transition failed.
Sums ==
  /\ Ascending(whenTimeSum)
  /\ phase = "idle" /\ ~skipped => \A r \in open : r.op = "sum" => ~(ClockSum >= r.sum)

Gone == phase = "disposed" => \A r \in open : r.op \in {"sum", "query"}

SubInv == TypeOK /\ Moving /\ Listing /\ Waits /\ Sums /\ Gone

-----------------------------------------------------------------------------

LEMMA RequestType ==
  ASSUME NEW r \in Requests
  PROVE  /\ r.op \in {"when", "whenNot", "time", "sum", "query"} /\ r.sum \in Nat
         /\ StatesOf(r) \subseteq States /\ \A s \in StatesOf(r) : r.want[s] \in Nat
BY SubscriptionsAssumption DEF StatesOf

-----------------------------------------------------------------------------
(* Lists *)

\* Bindings which are in a list get removed from it, all of them and no other.
LEMMA GcListRemoves ==
  ASSUME NEW L, IsFiniteSet(L), NEW r \in L
  PROVE  GcList(L, r) = L \ {r}
<1>1. CASE Cardinality(L) = 1
  <2>1. PICK x : L = {x}
    BY <1>1, FS_Singleton
  <2> QED BY <1>1, <2>1 DEF GcList
<1>2. CASE Cardinality(L) # 1
  BY <1>2 DEF GcList
<1> QED BY <1>1, <1>2

LEMMA GcFold ==
  ASSUME NEW L, IsFiniteSet(L), NEW R \in SUBSET L
  PROVE  FoldSet(LAMBDA r, list : GcList(list, r), L, R) = L \ R
<1> DEFINE ch(s) == CHOOSE x \in s : TRUE
           Rec(g) == [s \in SUBSET R |-> IF s = {} THEN L ELSE GcList(g[s \ {ch(s)}], ch(s))]
           iter == CHOOSE g : g = Rec(g)
           rest == [s \in SUBSET R |-> L \ s]
<1>1. FoldSet(LAMBDA r, list : GcList(list, r), L, R) = iter[R]
  BY DEF FoldSet, MapThenFoldSet
<1>2. ASSUME NEW s \in SUBSET R, s # {}
      PROVE  ch(s) \in s /\ s \ {ch(s)} \in SUBSET R
             /\ GcList(L \ (s \ {ch(s)}), ch(s)) = L \ s
  <2>1. ch(s) \in s
    BY <1>2
  <2> HIDE DEF ch
  <2>2. IsFiniteSet(L \ (s \ {ch(s)})) /\ ch(s) \in L \ (s \ {ch(s)})
    BY <2>1, FS_Subset
  <2>3. GcList(L \ (s \ {ch(s)}), ch(s)) = (L \ (s \ {ch(s)})) \ {ch(s)}
    BY <2>2, GcListRemoves
  <2> QED BY <2>1, <2>3
<1> HIDE DEF ch
<1>3. rest = Rec(rest)
  <2>1. ASSUME NEW s \in SUBSET R
        PROVE  rest[s] = IF s = {} THEN L ELSE GcList(rest[s \ {ch(s)}], ch(s))
    BY <1>2
  <2> QED BY <2>1, Zenon
<1>4. iter = Rec(iter)
  <2> HIDE DEF Rec, rest
  <2> QED BY <1>3
<1> HIDE DEF iter
<1> DEFINE Good == {s \in SUBSET R : iter[s] = L \ s}
<1>5. {} \in Good
  BY <1>4
<1>6. ASSUME NEW s \in SUBSET R, s # {}, \A x \in s : s \ {x} \in Good
      PROVE  s \in Good
  <2>1. iter[s] = GcList(iter[s \ {ch(s)}], ch(s))
    BY <1>4, <1>6, Zenon
  <2> QED BY <1>2, <1>6, <2>1, Zenon
<1>7. IsFiniteSet(R)
  BY FS_Subset
<1>8. SUBSET R \subseteq Good
  <2> HIDE DEF Good
  <2> QED BY <1>5, <1>6, <1>7, Subsets, Zenon
<1> QED BY <1>1, <1>8, Zenon

\* The other bindings stay, in their order.
LEMMA WithoutFacts ==
  ASSUME NEW T, \A r \in T : r.sum \in Nat, NEW list \in Seq(T), Ascending(list), NEW R
  PROVE  /\ SlicesWithout(list, R) \in Seq(T) /\ Ascending(SlicesWithout(list, R))
         /\ \A r : Contains(SlicesWithout(list, R), r) <=> Contains(list, r) /\ r \notin R
<1> DEFINE less == {p \in T \X T : p[1].sum < p[2].sum}
           left == SlicesWithout(list, R)
<1>1. \A a, b \in T : <<a, b>> \in less <=> a.sum < b.sum
  OBVIOUS
<1> HIDE DEF less
<1>2. ASSUME NEW s \in Seq(T) PROVE Ascending(s) <=> Sorted(s, less)
  <2>1. DOMAIN s \subseteq Nat /\ \A i \in DOMAIN s : s[i] \in T /\ s[i].sum \in Nat
    OBVIOUS
  <2>2. ASSUME NEW i \in DOMAIN s, NEW j \in DOMAIN s
        PROVE  s[i].sum <= s[j].sum <=> <<s[j], s[i]>> \notin less
    BY <1>1, <2>1
  <2> QED BY <2>2, Zenon DEF Ascending, Sorted
<1>3. left \in Seq(T) /\ Range(left) = Range(list) \ R /\ (Sorted(list, less) => Sorted(left, less))
  BY SlicesWithoutFacts
<1> HIDE DEF left
<1>4. \A r : Contains(left, r) <=> Contains(list, r) /\ r \notin R
  BY <1>3, RangeFacts
<1>5. Ascending(left)
  BY <1>2, <1>3
<1> QED BY <1>3, <1>4, <1>5 DEF left

\* The list of sums stays sorted.
LEMMA InsertSumFacts ==
  ASSUME whenTimeSum \in Seq(Requests), Ascending(whenTimeSum), NEW r \in Requests
  PROVE  /\ InsertSum(r) \in Seq(Requests) /\ Ascending(InsertSum(r))
         /\ \A x : Contains(InsertSum(r), x) <=> Contains(whenTimeSum, x) \/ x = r
<1> DEFINE list == whenTimeSum
           n == Len(list)
           Low == {i \in DOMAIN list : list[i].sum < r.sum}
           m == Cardinality(Low)
<1>1. n \in Nat /\ DOMAIN list = 1 .. n /\ \A i \in 1 .. n : list[i] \in Requests
  OBVIOUS
<1>2. \A i \in 1 .. n : list[i].sum \in Nat
  BY <1>1, SubscriptionsAssumption
<1>3. \E k \in 0 .. n : Low = 1 .. k
  <2>1. CASE Low = {}
    <3>1. Low = 1 .. 0 /\ 0 \in 0 .. n
      BY <1>1, <2>1
    <3> QED BY <3>1
  <2>2. CASE Low # {}
    <3>1. Low \in SUBSET (1 .. n)
      BY <1>1
    <3>2. Max(Low) \in Low /\ \A i \in Low : i <= Max(Low)
      BY <1>1, <2>2, <3>1, MaxOfPositions, Zenon
    <3>3. PICK k \in Low : k = Max(Low)
      BY <3>2, Zenon
    <3>4. ASSUME NEW i \in 1 .. k PROVE i \in Low
      <4>1. i \in 1 .. n /\ (i < k \/ i = k)
        BY <1>1
      <4>2. list[i].sum <= list[k].sum
        BY <1>1, <1>2, <4>1 DEF Ascending
      <4>3. list[k].sum < r.sum /\ list[k].sum \in Nat /\ list[i].sum \in Nat /\ r.sum \in Nat
        BY <1>1, <1>2, <4>1, SubscriptionsAssumption
      <4> QED BY <1>1, <4>1, <4>2, <4>3
    <3>5. Low = 1 .. k
      BY <1>1, <3>2, <3>3, <3>4
    <3> QED BY <1>1, <3>5
  <2> QED BY <2>1, <2>2
<1>4. m \in Nat /\ m <= n /\ Low = 1 .. m
  <2> HIDE DEF Low, n
  <2>1. PICK k \in 0 .. n : Low = 1 .. k
    BY <1>3
  <2>2. k \in Int /\ k \in Nat /\ k <= n /\ 1 \in Int
    BY <1>1
  <2>3. Cardinality(1 .. k) = IF 1 > k THEN 0 ELSE k - 1 + 1
    BY <2>2, FS_Interval
  <2>4. m = k
    BY <2>1, <2>2, <2>3
  <2> QED BY <2>1, <2>2, <2>4
<1>5. PICK ins : ins = InsertSum(r)
  OBVIOUS
<1>6. ins = InsertAt(list, m + 1, r)
  BY <1>5 DEF InsertSum
<1>7. \A i \in 1 .. n : i <= m <=> list[i].sum < r.sum
  BY <1>1, <1>4
<1> HIDE DEF m, Low
<1>8. /\ ins \in Seq(Requests) /\ Len(ins) = n + 1
      /\ \A i \in 1 .. m : ins[i] = list[i]
      /\ ins[m + 1] = r
      /\ \A i \in (m + 2) .. (n + 1) : ins[i] = list[i - 1]
  <2> HIDE DEF list
  <2>1. list \in Seq(Requests) /\ m \in Nat /\ m <= Len(list)
    BY <1>4 DEF list
  <2>2. ins \in Seq(Requests) /\ Inserted(ins, list, m, r)
    BY <1>6, <2>1, InsertAtFacts
  <2> QED BY <2>2 DEF Inserted
<1>9. Ascending(ins)
  <2> SUFFICES ASSUME NEW i \in 1 .. (n + 1), NEW j \in 1 .. (n + 1), i < j
               PROVE  ins[i].sum <= ins[j].sum
    BY <1>8 DEF Ascending
  <2>0. r.sum \in Nat
    BY SubscriptionsAssumption
  <2>1. \A a, b \in 1 .. n : a < b => list[a].sum <= list[b].sum
    BY <1>1 DEF Ascending
  <2> HIDE DEF list, n
  <2>2. CASE j <= m
    <3>1. ins[i] = list[i] /\ ins[j] = list[j] /\ i \in 1 .. n /\ j \in 1 .. n
      BY <1>1, <1>4, <1>8, <2>2
    <3> QED BY <2>1, <3>1
  <2>3. CASE j = m + 1
    <3>1. ins[i] = list[i] /\ ins[j] = r /\ i \in 1 .. n /\ i <= m
      BY <1>1, <1>4, <1>8, <2>3
    <3> QED BY <1>2, <1>7, <2>0, <3>1
  <2>4. CASE j > m + 1 /\ i <= m
    <3>1. ins[i] = list[i] /\ ins[j] = list[j - 1] /\ i \in 1 .. n /\ j - 1 \in 1 .. n /\ i < j - 1
      BY <1>1, <1>4, <1>8, <2>4
    <3> QED BY <2>1, <3>1
  <2>5. CASE j > m + 1 /\ i = m + 1
    <3>1. ins[i] = r /\ ins[j] = list[j - 1] /\ j - 1 \in 1 .. n /\ ~(j - 1 <= m)
      BY <1>1, <1>4, <1>8, <2>5
    <3> QED BY <1>2, <1>7, <2>0, <3>1
  <2>6. CASE j > m + 1 /\ i > m + 1
    <3>1. /\ ins[i] = list[i - 1] /\ ins[j] = list[j - 1] /\ i - 1 \in 1 .. n /\ j - 1 \in 1 .. n
          /\ i - 1 < j - 1
      BY <1>1, <1>4, <1>8, <2>6
    <3> QED BY <2>1, <3>1
  <2> QED BY <1>1, <1>4, <2>2, <2>3, <2>4, <2>5, <2>6
<1>10. ASSUME NEW x PROVE Contains(ins, x) <=> Contains(list, x) \/ x = r
  <2> HIDE DEF list, n
  <2>0. n = Len(list)
    BY DEF n
  <2>1. ASSUME NEW i \in 1 .. (n + 1), ins[i] = x PROVE x = r \/ \E j \in 1 .. n : list[j] = x
    <3>1. CASE i <= m
      BY <1>1, <1>4, <1>8, <2>1, <3>1
    <3>2. CASE i = m + 1
      BY <1>8, <2>1, <3>2
    <3>3. CASE i > m + 1
      <4>1. ins[i] = list[i - 1] /\ i - 1 \in 1 .. n
        BY <1>1, <1>4, <1>8, <3>3
      <4> QED BY <2>1, <4>1
    <3> QED BY <1>1, <1>4, <3>1, <3>2, <3>3
  <2>2. ASSUME NEW j \in 1 .. n, list[j] = x PROVE \E i \in 1 .. (n + 1) : ins[i] = x
    <3>1. CASE j <= m
      BY <1>1, <1>4, <1>8, <2>2, <3>1
    <3>2. CASE j > m
      <4>1. ins[j + 1] = list[j] /\ j + 1 \in 1 .. (n + 1)
        BY <1>1, <1>4, <1>8, <3>2
      <4> QED BY <2>2, <4>1
    <3> QED BY <1>1, <1>4, <3>1, <3>2
  <2>3. m + 1 \in 1 .. (n + 1)
    BY <1>1, <1>4
  <2> QED BY <1>8, <2>0, <2>1, <2>2, <2>3 DEF Contains
<1> QED BY <1>5, <1>8, <1>9, <1>10

LEMMA ClockSumType ==
  ASSUME clock \in [States -> Nat]
  PROVE  ClockSum \in Nat
<1> DEFINE Ch(s) == CHOOSE x \in s : TRUE
           Rec(g) == [s \in SUBSET States |-> IF s = {} THEN 0 ELSE g[s \ {Ch(s)}] + clock[Ch(s)]]
           iter == CHOOSE g : g = Rec(g)
           ch == [s \in SUBSET States |-> Ch(s)]
           op == [p \in States \X Nat |-> p[2] + clock[p[1]]]
<1>1. ClockSum = iter[States]
  BY DEF ClockSum, TimeSum, FoldSet, MapThenFoldSet
<1>2. IsFiniteSet(States)
  BY SubscriptionsAssumption
<1>3. \A s \in SUBSET States : s # {} => Ch(s) \in s
  OBVIOUS
<1>4. 0 \in Nat /\ op \in [States \X Nat -> Nat] /\ Picks(ch, States)
  BY <1>3 DEF Picks
<1>5. (\A s \in SUBSET States : ch[s] = Ch(s)) /\ \A x \in States, v \in Nat : op[<<x, v>>] = v + clock[x]
  OBVIOUS
<1> HIDE DEF Ch, ch, op
<1>6. PICK g : IsFold(g, States, Nat, 0, ch, op)
  BY <1>2, <1>4, RecursionOnSubsets, Zenon
<1>7. ASSUME NEW s \in SUBSET States
      PROVE  g[s] = IF s = {} THEN 0 ELSE g[s \ {Ch(s)}] + clock[Ch(s)]
  BY <1>3, <1>5, <1>6, Zenon DEF IsFold
<1>8. g = Rec(g)
  BY <1>6, <1>7 DEF IsFold
<1>9. iter = Rec(iter)
  <2> HIDE DEF Rec
  <2> QED BY <1>8
<1> HIDE DEF iter
<1> DEFINE Good == {s \in SUBSET States : iter[s] \in Nat}
<1>10. {} \in Good
  BY <1>9
<1>11. ASSUME NEW s \in SUBSET States, s # {}, \A x \in s : s \ {x} \in Good
       PROVE  s \in Good
  <2>1. iter[s] = iter[s \ {Ch(s)}] + clock[Ch(s)]
    BY <1>9, <1>11, Zenon
  <2>2. Ch(s) \in s
    BY <1>3, <1>11
  <2>3. iter[s \ {Ch(s)}] \in Nat /\ clock[Ch(s)] \in Nat
    BY <1>11, <2>2
  <2> QED BY <2>1, <2>3
<1>12. SUBSET States \subseteq Good
  <2> HIDE DEF Good
  <2> QED BY <1>2, <1>10, <1>11, Subsets, Zenon
<1> QED BY <1>1, <1>12

\* The list of queries only shrinks while contexts are collected; without a panic none
\* of those collected is left in it.
LEMMA AfterQueryCtxFacts ==
  ASSUME NEW T, NEW order \in Seq(T), AfterQueryCtx(order).ok
  PROVE  /\ AfterQueryCtx(order).list \subseteq whenQuery
         /\ \A i \in 1 .. Len(order) : order[i] \notin AfterQueryCtx(order).list
         /\ Len(order) = 0 => AfterQueryCtx(order).list = whenQuery
<1> DEFINE n == Len(order)
           D == DOMAIN order
           V == [list : SUBSET whenQuery, ok : BOOLEAN]
           base == [list |-> whenQuery, ok |-> TRUE]
           Rec(g) == [s \in SUBSET D |-> IF s = {} THEN base ELSE GcQuery(g[s \ {Max(s)}], order[Max(s)])]
           iter == CHOOSE g : g = Rec(g)
           op == [p \in D \X V |-> GcQuery(p[2], order[p[1]])]
<1>1. AfterQueryCtx(order) = iter[D]
  BY DEF AfterQueryCtx, FoldLeft, MapThenFoldSet
<1>2. n \in Nat /\ D = 1 .. n
  OBVIOUS
<1>3. ASSUME NEW q \in V, NEW r
      PROVE  /\ GcQuery(q, r) \in V
             /\ GcQuery(q, r).ok => q.ok /\ r \notin GcQuery(q, r).list
             /\ GcQuery(q, r).list \subseteq q.list
  <2>1. CASE ~q.ok
    BY <2>1 DEF GcQuery
  <2>2. CASE q.ok /\ Cardinality(q.list) = 1
    BY <2>2 DEF GcQuery, GcList
  <2>3. CASE q.ok /\ Cardinality(q.list) # 1 /\ r \in q.list
    BY <2>3 DEF GcQuery, GcList
  <2>4. CASE q.ok /\ Cardinality(q.list) # 1 /\ r \notin q.list
    BY <2>4, Zenon DEF GcQuery
  <2> QED BY <2>1, <2>2, <2>3, <2>4
<1>4. iter = Rec(iter)
  <2>1. base \in V /\ op \in [D \X V -> V]
    BY <1>3
  <2>2. \A i \in D, v \in V : op[<<i, v>>] = GcQuery(v, order[i])
    OBVIOUS
  <2> HIDE DEF n, D, V, op, base
  <2>3. PICK g : IsFoldLeft(g, D, V, base, op)
    BY <1>2, <2>1, RecursionOnPositions, Zenon
  <2>4. ASSUME NEW s \in SUBSET D
        PROVE  g[s] = IF s = {} THEN base ELSE GcQuery(g[s \ {Max(s)}], order[Max(s)])
    <3>1. CASE s = {}
      BY <2>3, <3>1, Zenon DEF IsFoldLeft
    <3>2. CASE s # {}
      <4>1. Max(s) \in D /\ g[s \ {Max(s)}] \in V
        BY <1>2, <2>3, <3>2, MaxOfPositions, Zenon DEF IsFoldLeft
      <4> QED BY <2>2, <2>3, <3>2, <4>1, Zenon DEF IsFoldLeft
    <3> QED BY <3>1, <3>2
  <2>5. g = Rec(g)
    BY <2>3, <2>4 DEF IsFoldLeft
  <2> HIDE DEF Rec
  <2> QED BY <2>5
<1> HIDE DEF iter
<1> DEFINE F(k) == iter[1 .. k]
<1>5. F(0) = base
  BY <1>2, <1>4
<1>6. \A k \in 1 .. n : F(k) = GcQuery(F(k - 1), order[k])
  <2> SUFFICES ASSUME NEW k \in 1 .. n PROVE F(k) = GcQuery(F(k - 1), order[k])
    OBVIOUS
  <2>1. 1 .. k \in SUBSET D /\ 1 .. k # {} /\ Max(1 .. k) = k /\ (1 .. k) \ {k} = 1 .. (k - 1)
    BY <1>2, MaxOfPrefix
  <2> QED BY <1>4, <2>1, Zenon
<1> HIDE DEF F
<1> DEFINE Good == {k \in 0 .. n : /\ F(k) \in V
                                   /\ F(k).ok => \A i \in 1 .. k : order[i] \notin F(k).list}
<1>7. 0 \in Good
  <2>1. 1 .. 0 = {} /\ 0 \in 0 .. n /\ base \in V
    BY <1>2
  <2> HIDE DEF V, base
  <2> QED BY <1>5, <2>1
<1>8. ASSUME NEW k \in 1 .. n, k - 1 \in Good
      PROVE  k \in Good
  <2>1. F(k - 1) \in V /\ (F(k - 1).ok => \A i \in 1 .. (k - 1) : order[i] \notin F(k - 1).list)
    BY <1>8
  <2> HIDE DEF V
  <2>2. /\ F(k) \in V /\ F(k).list \subseteq F(k - 1).list
        /\ F(k).ok => F(k - 1).ok /\ order[k] \notin F(k).list
    BY <1>3, <1>6, <2>1
  <2>3. F(k).ok => \A i \in 1 .. k : order[i] \notin F(k).list
    BY <2>1, <2>2
  <2> QED BY <2>2, <2>3
<1>9. n \in Good
  <2> HIDE DEF Good, n
  <2>1. 0 .. n \subseteq Good
    BY <1>2, <1>7, <1>8, UpTo, Zenon
  <2> QED BY <1>2, <2>1
<1>10. F(n) = AfterQueryCtx(order)
  BY <1>1, <1>2 DEF F
<1> QED BY <1>5, <1>9, <1>10

-----------------------------------------------------------------------------
(* Counts *)

LEMMA HitsFinite ==
  ASSUME NEW r \in Requests, NEW b
  PROVE  /\ IsFiniteSet(StatesOf(r)) /\ IsFiniteSet(Hits(r, b))
         /\ Cardinality(StatesOf(r)) \in Nat /\ Cardinality(Hits(r, b)) \in Nat
         /\ Cardinality(Hits(r, b)) <= Cardinality(StatesOf(r))
         /\ Cardinality(Hits(r, b)) = Cardinality(StatesOf(r)) => Hits(r, b) = StatesOf(r)
<1>1. IsFiniteSet(StatesOf(r))
  BY SubscriptionsAssumption, FS_Subset DEF StatesOf
<1>2. Hits(r, b) \subseteq StatesOf(r)
  BY DEF Hits
<1> QED BY <1>1, <1>2, FS_Subset, FS_CardinalityType

\* One state marked: the count stays exact.
LEMMA MarkFacts ==
  ASSUME NEW r \in Requests, r.op \in Lists, NEW b, Counted(r, b), NEW s \in StatesOf(r)
  PROVE  /\ Counted(r, Mark(r, b, s))
         /\ Mark(r, b, s).on[s] <=> s \in activated
         /\ \A t \in StatesOf(r) : t # s => Mark(r, b, s).on[t] = b.on[t]
         /\ r.op = "whenNot" /\ s \in activated => Mark(r, b, s).matched <= b.matched
<1>1. PICK m : m = Mark(r, b, s)
  OBVIOUS
<1>2. PICK on : on = [b.on EXCEPT ![s] = s \in activated]
  BY Zenon
<1>3. b.on \in [StatesOf(r) -> BOOLEAN] /\ b.matched \in Nat /\ b.matched = Cardinality(Hits(r, b))
  BY DEF Counted
<1>4. on \in [StatesOf(r) -> BOOLEAN] /\ (on[s] <=> s \in activated)
      /\ \A t \in StatesOf(r) : t # s => on[t] = b.on[t]
  <2>1. PICK v \in BOOLEAN : v = (s \in activated)
    <3>1. CASE s \in activated
      <4>1. TRUE \in BOOLEAN /\ TRUE = (s \in activated)
        BY <3>1
      <4> QED BY <4>1, Zenon
    <3>2. CASE s \notin activated
      <4>1. FALSE \in BOOLEAN /\ FALSE = (s \in activated)
        BY <3>2
      <4> QED BY <4>1, Zenon
    <3> QED BY <3>1, <3>2
  <2>2. PICK old \in [StatesOf(r) -> BOOLEAN] : old = b.on
    BY <1>3
  <2>3. on = [old EXCEPT ![s] = v]
    BY <1>2, <2>1, <2>2
  <2>4. on \in [StatesOf(r) -> BOOLEAN] /\ on[s] = v /\ \A t \in StatesOf(r) : t # s => on[t] = old[t]
    BY <2>3
  <2> QED BY <2>1, <2>2, <2>4
<1>5. m.on = on
  BY <1>1, <1>2 DEF Mark
<1>6. \A t \in StatesOf(r) : t # s => (t \in Hits(r, m) <=> t \in Hits(r, b))
  BY <1>4, <1>5 DEF Hits
<1>7. s \in Hits(r, m) <=> (s \in activated <=> r.op = "when")
  BY <1>4, <1>5 DEF Hits, Lists
<1>8. s \in Hits(r, b) <=> (b.on[s] <=> r.op = "when")
  BY <1>3 DEF Hits, Lists
<1>9. Hits(r, b) \subseteq StatesOf(r) /\ Hits(r, m) \subseteq StatesOf(r) /\ IsFiniteSet(Hits(r, b))
  BY HitsFinite, Zenon DEF Hits
<1>10. ASSUME b.on[s] = (s \in activated)
       PROVE  m.matched = b.matched /\ Hits(r, m) = Hits(r, b)
  <2>1. m.matched = b.matched
    BY <1>1, <1>10 DEF Mark
  <2>2. Hits(r, m) = Hits(r, b)
    BY <1>3, <1>6, <1>7, <1>8, <1>9, <1>10
  <2> QED BY <2>1, <2>2
<1>11. ASSUME b.on[s] # (s \in activated), (s \in activated) = (r.op = "when")
       PROVE  m.matched = b.matched + 1 /\ s \notin Hits(r, b) /\ Hits(r, m) = Hits(r, b) \cup {s}
  <2>1. m.matched = b.matched + 1
    BY <1>1, <1>11 DEF Mark
  <2>2. s \notin Hits(r, b)
    BY <1>3, <1>8, <1>11
  <2>3. Hits(r, m) = Hits(r, b) \cup {s}
    BY <1>6, <1>7, <1>9, <1>11
  <2> QED BY <2>1, <2>2, <2>3
<1>12. ASSUME b.on[s] # (s \in activated), (s \in activated) # (r.op = "when")
       PROVE  m.matched = b.matched - 1 /\ s \in Hits(r, b) /\ Hits(r, m) = Hits(r, b) \ {s}
  <2>1. m.matched = b.matched - 1
    BY <1>1, <1>12, Zenon DEF Mark
  <2>2. s \in Hits(r, b)
    BY <1>3, <1>8, <1>12
  <2>3. Hits(r, m) = Hits(r, b) \ {s}
    BY <1>6, <1>7, <1>9, <1>12
  <2> QED BY <2>1, <2>2, <2>3
<1>13. m.matched = Cardinality(Hits(r, m))
  <2>1. CASE b.on[s] = (s \in activated)
    BY <1>3, <1>10, <2>1
  <2>2. CASE b.on[s] # (s \in activated) /\ (s \in activated) = (r.op = "when")
    BY <1>3, <1>9, <1>11, <2>2, FS_AddElement
  <2>3. CASE b.on[s] # (s \in activated) /\ (s \in activated) # (r.op = "when")
    BY <1>3, <1>9, <1>12, <2>3, FS_RemoveElement
  <2> QED BY <2>1, <2>2, <2>3
<1>14. m.matched \in Nat
  BY <1>13, HitsFinite
<1>15. m = [on |-> m.on, matched |-> m.matched]
  BY <1>1 DEF Mark
<1>16. Counted(r, m)
  BY <1>4, <1>5, <1>13, <1>14, <1>15 DEF Counted
<1>17. ASSUME r.op = "whenNot", s \in activated PROVE m.matched <= b.matched
  <2>1. (s \in activated) # (r.op = "when")
    BY <1>17
  <2>2. m.matched = b.matched \/ m.matched = b.matched - 1
    BY <1>10, <1>12, <2>1
  <2> QED BY <1>3, <2>2
<1> QED BY <1>1, <1>4, <1>5, <1>16, <1>17

\* The order in which ProcessWhen goes through states.
LEMMA OrderFacts ==
  ASSUME activated \subseteq States, deactivated \subseteq States,
         NEW seq, seq = SetToSeq(activated) \o SetToSeq(deactivated),
         NEW a, a = Cardinality(activated)
  PROVE  /\ seq \in Seq(States) /\ a \in Nat /\ a <= Len(seq)
         /\ \A i \in 1 .. Len(seq) : IF i <= a THEN seq[i] \in activated ELSE seq[i] \in deactivated
         /\ \A s \in activated : \E i \in 1 .. a : seq[i] = s
         /\ \A s \in deactivated : \E i \in 1 .. Len(seq) : seq[i] = s
<1> DEFINE up == SetToSeq(activated)
           down == SetToSeq(deactivated)
<1>1. IsFiniteSet(activated) /\ IsFiniteSet(deactivated)
  BY SubscriptionsAssumption, FS_Subset
<1>2. /\ up \in Seq(activated) /\ Len(up) = a /\ \A s \in activated : \E i \in 1 .. Len(up) : up[i] = s
      /\ down \in Seq(deactivated) /\ \A s \in deactivated : \E i \in 1 .. Len(down) : down[i] = s
  BY <1>1, SetToSeqFacts
<1>3. a \in Nat
  BY <1>1, FS_CardinalityType
<1>4. seq = up \o down
  OBVIOUS
<1> HIDE DEF up, down
<1>5. up \in Seq(States) /\ down \in Seq(States) /\ Len(down) \in Nat
  BY <1>2
<1>6. /\ seq \in Seq(States) /\ Len(seq) = Len(up) + Len(down)
      /\ \A i \in 1 .. Len(up) + Len(down) : seq[i] = IF i <= Len(up) THEN up[i] ELSE down[i - Len(up)]
  <2>1. /\ up \o down \in Seq(States) /\ Len(up \o down) = Len(up) + Len(down)
        /\ \A i \in 1 .. Len(up) + Len(down) :
             (up \o down)[i] = IF i <= Len(up) THEN up[i] ELSE down[i - Len(up)]
    BY <1>5, ConcatProperties, Zenon
  <2> QED BY <1>4, <2>1, Zenon
<1>7. PICK d \in Nat : d = Len(down)
  BY <1>5
<1>8. \A i \in 1 .. (a + d) : seq[i] = IF i <= a THEN up[i] ELSE down[i - a]
  BY <1>2, <1>6, <1>7, Zenon
<1>9. \A i \in 1 .. a : up[i] \in activated
  BY <1>2
<1>10. \A i \in 1 .. d : down[i] \in deactivated
  BY <1>2, <1>7
<1>11. Len(seq) = a + d
  BY <1>2, <1>6, <1>7
<1>12. ASSUME NEW i \in 1 .. Len(seq)
       PROVE  IF i <= a THEN seq[i] \in activated ELSE seq[i] \in deactivated
  <2>1. i \in 1 .. (a + d)
    BY <1>11
  <2>2. CASE i <= a
    BY <1>3, <1>8, <1>9, <2>1, <2>2
  <2>3. CASE ~(i <= a)
    <3>1. i - a \in 1 .. d
      BY <1>3, <2>1, <2>3
    <3> QED BY <1>8, <1>10, <2>1, <2>3, <3>1
  <2> QED BY <2>2, <2>3
<1>13. ASSUME NEW s \in activated PROVE \E i \in 1 .. a : seq[i] = s
  <2>1. PICK i \in 1 .. a : up[i] = s
    BY <1>2
  <2>2. i \in 1 .. (a + d) /\ i <= a
    BY <1>3
  <2> QED BY <1>8, <2>1, <2>2, Zenon
<1>14. ASSUME NEW s \in deactivated PROVE \E i \in 1 .. Len(seq) : seq[i] = s
  <2>1. PICK i \in 1 .. d : down[i] = s
    BY <1>2, <1>7
  <2>2. a + i \in 1 .. (a + d) /\ ~(a + i <= a) /\ (a + i) - a = i
    BY <1>3
  <2>3. seq[a + i] = down[i]
    BY <1>8, <2>2, Zenon
  <2> QED BY <1>11, <2>1, <2>2, <2>3
<1>15. a <= Len(seq)
  BY <1>3, <1>11
<1> QED BY <1>3, <1>6, <1>12, <1>13, <1>14, <1>15

\* What a walk over the changed states leaves in a binding: an exact count; nothing else
\* changed; all of them marked unless it got complete; and for WhenNot, which activated
\* states only set back, at least those.
LEMMA MarkedFacts ==
  ASSUME activated \subseteq States, deactivated \subseteq States, activated \cap deactivated = {},
         NEW r \in Requests, r.op \in Lists, Counted(r, bind[r]), ~Complete(r, bind[r])
  PROVE  /\ Counted(r, Marked(r))
         /\ \A s \in StatesOf(r) \ (activated \cup deactivated) : Marked(r).on[s] = bind[r].on[s]
         /\ ~Complete(r, Marked(r)) =>
              \A s \in StatesOf(r) \cap (activated \cup deactivated) : Marked(r).on[s] <=> s \in activated
         /\ r.op = "whenNot" => \A s \in StatesOf(r) \cap activated : Marked(r).on[s]
<1> DEFINE seq == SetToSeq(activated) \o SetToSeq(deactivated)
           n == Len(seq)
           a == Cardinality(activated)
           D == DOMAIN seq
           V == {b \in [on : [StatesOf(r) -> BOOLEAN], matched : Nat] : Counted(r, b)}
           Op(b, s) == IF s \in StatesOf(r) /\ ~Complete(r, b) THEN Mark(r, b, s) ELSE b
           Rec(g) == [s \in SUBSET D |-> IF s = {} THEN bind[r] ELSE Op(g[s \ {Max(s)}], seq[Max(s)])]
           iter == CHOOSE g : g = Rec(g)
           op == [p \in D \X V |-> Op(p[2], seq[p[1]])]
<1>1. Marked(r) = iter[D]
  BY DEF Marked, FoldLeft, MapThenFoldSet
<1>2. /\ seq \in Seq(States) /\ a \in Nat /\ a <= Len(seq)
      /\ \A i \in 1 .. Len(seq) : IF i <= a THEN seq[i] \in activated ELSE seq[i] \in deactivated
      /\ \A s \in activated : \E i \in 1 .. a : seq[i] = s
      /\ \A s \in deactivated : \E i \in 1 .. Len(seq) : seq[i] = s
  <2> HIDE DEF seq, a
  <2> QED BY OrderFacts, Zenon DEF seq, a
<1> HIDE DEF seq, a
<1>3. n \in Nat /\ D = 1 .. n
  BY <1>2
<1>4. \A b : b \in V <=> Counted(r, b)
  BY DEF Counted
<1>5. ASSUME NEW b \in V, NEW s PROVE Op(b, s) \in V
  BY <1>4, MarkFacts
<1>6. iter = Rec(iter)
  <2>1. bind[r] \in V /\ op \in [D \X V -> V]
    <3> HIDE DEF V, Op
    <3> QED BY <1>4, <1>5
  <2>2. \A i \in D, v \in V : op[<<i, v>>] = Op(v, seq[i])
    OBVIOUS
  <2> HIDE DEF n, D, V, op, Op
  <2>3. PICK g : IsFoldLeft(g, D, V, bind[r], op)
    BY <1>3, <2>1, RecursionOnPositions, Zenon
  <2>4. ASSUME NEW s \in SUBSET D
        PROVE  g[s] = IF s = {} THEN bind[r] ELSE Op(g[s \ {Max(s)}], seq[Max(s)])
    <3>1. CASE s = {}
      BY <2>3, <3>1, Zenon DEF IsFoldLeft
    <3>2. CASE s # {}
      <4>1. Max(s) \in D /\ g[s \ {Max(s)}] \in V
        BY <1>3, <2>3, <3>2, MaxOfPositions, Zenon DEF IsFoldLeft
      <4> QED BY <2>2, <2>3, <3>2, <4>1, Zenon DEF IsFoldLeft
    <3> QED BY <3>1, <3>2
  <2>5. g = Rec(g)
    BY <2>3, <2>4 DEF IsFoldLeft
  <2> HIDE DEF Rec
  <2> QED BY <2>5
<1> HIDE DEF iter, V
<1> DEFINE F(k) == iter[1 .. k]
<1>7. F(0) = bind[r]
  BY <1>3, <1>6
<1>8. \A k \in 1 .. n : F(k) = Op(F(k - 1), seq[k])
  <2> SUFFICES ASSUME NEW k \in 1 .. n PROVE F(k) = Op(F(k - 1), seq[k])
    OBVIOUS
  <2>1. 1 .. k \in SUBSET D /\ 1 .. k # {} /\ Max(1 .. k) = k /\ (1 .. k) \ {k} = 1 .. (k - 1)
    BY <1>3, MaxOfPrefix
  <2> HIDE DEF Op
  <2> QED BY <1>6, <2>1, Zenon
<1>9. F(n) = Marked(r)
  BY <1>1, <1>3
<1> HIDE DEF F, n
<1> DEFINE Same(k) == \A s \in StatesOf(r) : (\A i \in 1 .. k : seq[i] # s) => F(k).on[s] = bind[r].on[s]
           All(k) == ~Complete(r, F(k)) =>
                       \A i \in 1 .. k : seq[i] \in StatesOf(r) => (F(k).on[seq[i]] <=> seq[i] \in activated)
           Not(k) == r.op = "whenNot" =>
                       /\ k <= a => ~Complete(r, F(k))
                       /\ \A i \in 1 .. k : i <= a /\ seq[i] \in StatesOf(r) => F(k).on[seq[i]]
           Good == {k \in 0 .. n : Counted(r, F(k)) /\ Same(k) /\ All(k) /\ Not(k)}
<1>10. 0 \in Good
  <2>1. 1 .. 0 = {} /\ 0 \in 0 .. n
    BY <1>3
  <2> QED BY <1>7, <2>1
<1>11. ASSUME NEW k \in 1 .. n, k - 1 \in Good
       PROVE  k \in Good
  <2>1. PICK b : b = F(k - 1)
    OBVIOUS
  <2>2. PICK c : c = F(k)
    OBVIOUS
  <2>3. PICK x : x = seq[k]
    OBVIOUS
  <2>4. c = Op(b, x) /\ Counted(r, b)
    BY <1>8, <1>11, <2>1, <2>2, <2>3
  <2>5. Same(k - 1) /\ All(k - 1) /\ Not(k - 1)
    BY <1>11
  <2>6. CASE x \in StatesOf(r) /\ ~Complete(r, b)
    <3>1. c = Mark(r, b, x)
      BY <2>4, <2>6
    <3>2. /\ Counted(r, c) /\ (c.on[x] <=> x \in activated)
          /\ \A t \in StatesOf(r) : t # x => c.on[t] = b.on[t]
          /\ r.op = "whenNot" /\ x \in activated => c.matched <= b.matched
      BY <2>4, <2>6, <3>1, MarkFacts
    <3>3. Same(k)
      BY <2>1, <2>2, <2>3, <2>5, <3>2
    <3>4. All(k)
      BY <2>1, <2>2, <2>3, <2>5, <2>6, <3>2
    <3>5. Not(k)
      <4> SUFFICES ASSUME r.op = "whenNot"
                   PROVE  /\ k <= a => ~Complete(r, c)
                          /\ \A i \in 1 .. k : i <= a /\ seq[i] \in StatesOf(r) => c.on[seq[i]]
        BY <2>2
      <4>1. ASSUME k <= a PROVE ~Complete(r, c)
        <5>1. x \in activated
          BY <1>2, <2>3, <4>1 DEF n
        <5>2. c.matched <= b.matched /\ c.matched \in Nat /\ b.matched \in Nat
          BY <2>4, <3>2, <5>1 DEF Counted
        <5> QED BY <2>6, <5>2, HitsFinite DEF Complete
      <4>2. ASSUME NEW i \in 1 .. k, i <= a, seq[i] \in StatesOf(r) PROVE c.on[seq[i]]
        <5>1. seq[i] \in activated
          BY <1>2, <4>2 DEF n
        <5>2. CASE seq[i] = x
          BY <3>2, <5>1, <5>2
        <5>3. CASE seq[i] # x
          BY <2>1, <2>3, <2>5, <3>2, <4>2, <5>3
        <5> QED BY <5>2, <5>3
      <4> QED BY <4>1, <4>2
    <3> QED BY <2>2, <3>2, <3>3, <3>4, <3>5
  <2>7. CASE x \notin StatesOf(r)
    <3>1. c = b
      BY <2>4, <2>7
    <3>2. Same(k)
      BY <2>1, <2>2, <2>3, <2>5, <2>7, <3>1
    <3>3. All(k)
      BY <2>1, <2>2, <2>3, <2>5, <2>7, <3>1
    <3>4. Not(k)
      BY <1>2, <2>1, <2>2, <2>3, <2>5, <2>7, <3>1
    <3>5. Counted(r, F(k)) /\ k \in 0 .. n
      BY <1>3, <2>2, <2>4, <3>1
    <3> HIDE DEF Same, All, Not, Op
    <3> QED BY <3>2, <3>3, <3>4, <3>5
  <2>8. CASE x \in StatesOf(r) /\ Complete(r, b)
    <3>1. c = b
      BY <2>4, <2>8
    <3>2. Same(k)
      BY <2>1, <2>2, <2>3, <2>5, <3>1
    <3>3. All(k)
      BY <2>2, <2>8, <3>1
    <3>4. Not(k)
      <4> SUFFICES ASSUME r.op = "whenNot"
                   PROVE  /\ ~(k <= a)
                          /\ \A i \in 1 .. k : i <= a /\ seq[i] \in StatesOf(r) => c.on[seq[i]]
        BY <2>2
      <4>1. ~(k - 1 <= a)
        BY <2>1, <2>5, <2>8
      <4>2. ~(k <= a)
        BY <1>2, <4>1
      <4> QED BY <1>2, <2>1, <2>2, <2>5, <3>1, <4>2
    <3>5. Counted(r, F(k)) /\ k \in 0 .. n
      BY <1>3, <2>2, <2>4, <3>1
    <3> HIDE DEF Same, All, Not, Op
    <3> QED BY <3>2, <3>3, <3>4, <3>5
  <2> QED BY <2>6, <2>7, <2>8
<1>12. n \in Good
  <2> HIDE DEF Good
  <2>1. 0 .. n \subseteq Good
    BY <1>3, <1>10, <1>11, UpTo, Zenon
  <2> QED BY <1>3, <2>1
<1>13. Counted(r, Marked(r)) /\ Same(n) /\ All(n) /\ Not(n)
  BY <1>9, <1>12
<1>14. \A i \in 1 .. n : seq[i] \in activated \cup deactivated
  BY <1>2 DEF n
<1>15. \A s \in activated \cup deactivated : \E i \in 1 .. n : seq[i] = s
  BY <1>2 DEF n
<1>16. \A s \in StatesOf(r) \ (activated \cup deactivated) : Marked(r).on[s] = bind[r].on[s]
  BY <1>9, <1>13, <1>14
<1>17. ASSUME ~Complete(r, Marked(r)), NEW s \in StatesOf(r) \cap (activated \cup deactivated)
       PROVE  Marked(r).on[s] <=> s \in activated
  BY <1>9, <1>13, <1>15, <1>17
<1>18. ASSUME r.op = "whenNot", NEW s \in StatesOf(r) \cap activated
       PROVE  Marked(r).on[s]
  <2>1. PICK i \in 1 .. a : seq[i] = s
    BY <1>2
  <2>2. i \in 1 .. n /\ i <= a
    BY <1>2 DEF n
  <2> QED BY <1>9, <1>13, <1>18, <2>1, <2>2
<1> QED BY <1>13, <1>16, <1>17, <1>18

\* Times that passed: the count stays exact.
LEMMA PassedFacts ==
  ASSUME NEW r \in Requests, r.op = "time", Counted(r, bind[r])
  PROVE  /\ Counted(r, Passed(r))
         /\ \A s \in StatesOf(r) :
              Passed(r).on[s] <=> bind[r].on[s] \/ (clock[s] # before[s] /\ TimePassed(r, s))
<1> DEFINE new == {s \in StatesOf(r) : clock[s] # before[s] /\ ~bind[r].on[s] /\ TimePassed(r, s)}
           b == bind[r]
<1>1. PICK p : p = Passed(r)
  OBVIOUS
<1>2. /\ p = [on |-> p.on, matched |-> p.matched]
      /\ p.on = [s \in StatesOf(r) |-> b.on[s] \/ s \in new]
      /\ p.matched = b.matched + Cardinality(new)
  BY <1>1 DEF Passed
<1>3. b.on \in [StatesOf(r) -> BOOLEAN] /\ b.matched \in Nat /\ b.matched = Cardinality(Hits(r, b))
  BY DEF Counted
<1>4. p.on \in [StatesOf(r) -> BOOLEAN] /\ \A s \in StatesOf(r) : p.on[s] <=> b.on[s] \/ s \in new
  <2> HIDE DEF new
  <2> QED BY <1>2, <1>3, Zenon
<1>5. IsFiniteSet(new) /\ Cardinality(new) \in Nat
  BY HitsFinite, FS_Subset, FS_CardinalityType
<1>6. \A s \in new : s \in StatesOf(r) /\ ~b.on[s]
  OBVIOUS
<1>7. Hits(r, p) = Hits(r, b) \cup new /\ Hits(r, b) \cap new = {}
  <2> HIDE DEF new
  <2> QED BY <1>3, <1>4, <1>6 DEF Hits
<1>8. Cardinality(Hits(r, p)) = p.matched
  <2> HIDE DEF new
  <2>1. Cardinality(Hits(r, b) \cup new) = Cardinality(Hits(r, b)) + Cardinality(new)
    <3>1. IsFiniteSet(Hits(r, b)) /\ Cardinality(Hits(r, b)) \in Nat
      BY HitsFinite
    <3>2. Cardinality(Hits(r, b) \cup new) =
            Cardinality(Hits(r, b)) + Cardinality(new) - Cardinality(Hits(r, b) \cap new)
      BY <1>5, <3>1, FS_Union
    <3>3. Cardinality(Hits(r, b) \cap new) = 0
      BY <1>7, FS_EmptySet
    <3> QED BY <1>5, <3>1, <3>2, <3>3
  <2> QED BY <1>2, <1>3, <1>7, <2>1
<1>9. Counted(r, p)
  <2> HIDE DEF new
  <2>1. p.matched \in Nat
    BY <1>2, <1>3, <1>5
  <2>2. p \in [on : [StatesOf(r) -> BOOLEAN], matched : Nat]
    BY <1>2, <1>4, <2>1, Zenon
  <2> QED BY <1>8, <2>2 DEF Counted
<1>10. \A s \in StatesOf(r) : p.on[s] <=> b.on[s] \/ (clock[s] # before[s] /\ TimePassed(r, s))
  BY <1>4
<1> QED BY <1>1, <1>9, <1>10

\* A binding that is not complete when it is made: some state is not counted.
LEMMA NotComplete ==
  ASSUME NEW r \in Requests, NEW b, Counted(r, b)
  PROVE  Complete(r, b) <=> Hits(r, b) = StatesOf(r)
<1>1. b.matched = Cardinality(Hits(r, b))
  BY DEF Counted
<1> QED BY <1>1, HitsFinite DEF Complete

\* A new binding knows all its states and its count is exact.
LEMMA NewBindingFacts ==
  ASSUME TypeOK, NEW r \in Requests, NEW On, NEW Hit, NewBinding(r, On, Hit),
         \A s \in StatesOf(r) : s \in Hit <=> (s \in On <=> r.op # "whenNot")
  PROVE  /\ bind' = [x \in Requests |-> bind'[x]]
         /\ \A x \in Requests : x # r => bind'[x] = bind[x]
         /\ \A s \in StatesOf(r) : bind'[r].on[s] <=> s \in On
         /\ Counted(r, bind'[r])
         /\ Complete(r, bind'[r]) <=> StatesOf(r) \subseteq Hit
<1> DEFINE on == [s \in StatesOf(r) |-> s \in On]
           m == Cardinality(StatesOf(r) \cap Hit)
<1>1. PICK nb : nb = [on |-> on, matched |-> m]
  BY Zenon
<1>2. bind' = [bind EXCEPT ![r] = nb] /\ bind = [x \in Requests |-> bind[x]]
  BY <1>1 DEF NewBinding, TypeOK
<1>3. bind' = [x \in Requests |-> bind'[x]] /\ bind'[r] = nb /\ \A x \in Requests : x # r => bind'[x] = bind[x]
  BY <1>2
<1>4. on \in [StatesOf(r) -> BOOLEAN] /\ \A s \in StatesOf(r) : on[s] <=> s \in On
  <2>1. \A s \in StatesOf(r) : on[s] <=> s \in On
    BY Zenon
  <2>2. \A s \in StatesOf(r) : (s \in On) \in BOOLEAN
    OBVIOUS
  <2>3. on \in [StatesOf(r) -> BOOLEAN]
    BY <2>2, Zenon
  <2> QED BY <2>1, <2>3
<1> HIDE DEF on
<1>5. nb.on = on /\ nb.matched = m
  BY <1>1
<1>6. Hits(r, nb) = StatesOf(r) \cap Hit
  BY <1>4, <1>5 DEF Hits
<1>7. m = Cardinality(Hits(r, nb)) /\ m \in Nat
  BY <1>6, HitsFinite
<1> HIDE DEF m
<1>8. nb \in [on : [StatesOf(r) -> BOOLEAN], matched : Nat]
  BY <1>1, <1>4, <1>7
<1>9. Counted(r, nb)
  BY <1>5, <1>7, <1>8 DEF Counted
<1>10. Complete(r, nb) <=> StatesOf(r) \subseteq Hit
  BY <1>6, <1>9, NotComplete
<1> QED BY <1>3, <1>4, <1>5, <1>9, <1>10

-----------------------------------------------------------------------------
(* What is reached *)

\* In a sorted list, stopping at the first later time leaves out nothing that is due.
LEMMA SumReachedFacts ==
  ASSUME TypeOK, Ascending(whenTimeSum)
  PROVE  /\ \A r \in SumReached : r \in Requests /\ Contains(whenTimeSum, r)
         /\ \A r \in Requests :
              Contains(whenTimeSum, r) /\ r \notin ExpiredOf({"sum"}) =>
                (r \in SumReached <=> ClockSum >= r.sum)
<1> DEFINE list == whenTimeSum
           exp == ExpiredOf({"sum"})
           late == {i \in DOMAIN list : list[i].sum > ClockSum /\ list[i] \notin exp}
<1>1. list \in Seq(Requests) /\ DOMAIN list = 1 .. Len(list) /\ Len(list) \in Nat
  BY DEF TypeOK
<1>2. ClockSum \in Nat /\ \A i \in DOMAIN list : list[i] \in Requests /\ list[i].sum \in Nat
  BY <1>1, ClockSumType, RequestType DEF TypeOK
<1>3. \A r : r \in SumReached <=> \E i \in DOMAIN list : list[i] = r /\ \A k \in late : i < k
  BY DEF SumReached
<1>4. \A r : Contains(list, r) <=> \E i \in DOMAIN list : list[i] = r
  BY <1>1 DEF Contains
<1>5. \A i, j \in DOMAIN list : i < j => list[i].sum <= list[j].sum
  BY DEF Ascending
<1>6. \A i \in DOMAIN list : i \in Nat
  BY <1>1
<1> HIDE DEF list, exp
<1>7. ASSUME NEW i \in DOMAIN list, list[i] \notin exp, ~(ClockSum >= list[i].sum)
      PROVE  i \in late
  BY <1>2, <1>7
<1>8. ASSUME NEW i \in DOMAIN list, ClockSum >= list[i].sum, NEW k \in late
      PROVE  i < k
  <2>1. k \in DOMAIN list /\ list[k].sum > ClockSum
    OBVIOUS
  <2>2. k # i /\ ~(k < i)
    BY <1>2, <1>5, <1>8, <2>1
  <2> QED BY <1>6, <2>1, <2>2
<1> HIDE DEF late
<1>9. ASSUME NEW r \in Requests, Contains(list, r), r \notin exp
      PROVE  r \in SumReached <=> ClockSum >= r.sum
  <2>1. ASSUME r \in SumReached, ~(ClockSum >= r.sum) PROVE FALSE
    <3>1. PICK i \in DOMAIN list : list[i] = r /\ \A k \in late : i < k
      BY <1>3, <2>1
    <3>2. i \in late
      BY <1>7, <1>9, <2>1, <3>1
    <3> QED BY <1>6, <3>1, <3>2
  <2>2. ASSUME ClockSum >= r.sum PROVE r \in SumReached
    <3>1. PICK i \in DOMAIN list : list[i] = r
      BY <1>4, <1>9
    <3> QED BY <1>3, <1>8, <2>2, <3>1
  <2> QED BY <2>1, <2>2
<1> QED BY <1>1, <1>2, <1>3, <1>4, <1>9 DEF list, exp

\* Bindings done with leave the lists of all their states, and no other binding does.
LEMMA GcListsFacts ==
  ASSUME NEW lists \in [States -> SUBSET Requests], IsFiniteSet(open), NEW R, NEW ops,
         \A s \in States : \A r \in Requests :
            r \in lists[s] <=> r \in open /\ r.op \in ops /\ s \in StatesOf(r),
         \A r \in R : r \in Requests /\ r \in open /\ r.op \in ops
  PROVE  /\ GcLists(lists, R) \in [States -> SUBSET Requests]
         /\ \A s \in States : GcLists(lists, R)[s] = lists[s] \ R
<1>1. ASSUME NEW s \in States PROVE GcLists(lists, R)[s] = lists[s] \ R
  <2> DEFINE L == lists[s]
             Of == {r \in R : s \in StatesOf(r)}
  <2>1. GcLists(lists, R)[s] = FoldSet(LAMBDA r, list : GcList(list, r), L, Of)
    BY DEF GcLists
  <2>2. IsFiniteSet(L)
    BY FS_Subset
  <2>3. Of \in SUBSET L
    OBVIOUS
  <2>4. L \ Of = lists[s] \ R
    OBVIOUS
  <2> HIDE DEF L, Of
  <2>5. FoldSet(LAMBDA r, list : GcList(list, r), L, Of) = L \ Of
    BY <2>2, <2>3, GcFold, Zenon
  <2> QED BY <2>1, <2>4, <2>5, Zenon
<1>2. GcLists(lists, R) = [s \in States |-> GcLists(lists, R)[s]]
  BY DEF GcLists
<1> QED BY <1>1, <1>2
=============================================================================
