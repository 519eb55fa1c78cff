------------------------- MODULE TransitionProofs --------------------------
(***************************************************************************)
(* Proofs about module Transition, for all schemas, mutations and bounds:  *)
(* clocks and active states never disagree, the active states are what the *)
(* relations allow, and results tell what happened.                        *)
(***************************************************************************)
EXTENDS Transition, SlicesProofs

-----------------------------------------------------------------------------
(* Clocks *)

\* Clocks are natural numbers with the parity of their states.
InStep(time, states) ==
  /\ time \in [Names -> Nat]
  /\ \A s \in Names : IsActiveTick(time[s]) <=> Contains(states, s)

ParityInv == InStep(clock, active)

\* Ticking by 1 for a change and by 2 for a new instance keeps the parity.
LEMMA TickedInStep ==
  ASSUME NEW time, NEW called, NEW from, NEW to, InStep(time, from)
  PROVE  InStep(Ticked(time, called, from, to), to)
<1> DEFINE new == Ticked(time, called, from, to)
<1>1. ASSUME NEW s \in Names
      PROVE  new[s] \in Nat /\ (IsActiveTick(new[s]) <=> Contains(to, s))
  <2> DEFINE was == Contains(from, s)
             is  == Contains(to, s)
  <2>1. time[s] \in Nat /\ (IsActiveTick(time[s]) <=> was)
    BY DEF InStep
  <2>2. CASE ~(was <=> is)
    <3>1. new[s] = time[s] + 1
      BY <2>2 DEF Ticked
    <3>2. IsActiveTick(new[s]) <=> ~IsActiveTick(time[s])
      BY <2>1, <3>1 DEF IsActiveTick
    <3>3. new[s] \in Nat
      BY <2>1, <3>1
    <3> HIDE DEF was, is, new
    <3>4. IsActiveTick(new[s]) <=> is
      BY <2>1, <2>2, <3>2, Zenon
    <3> QED BY <3>3, <3>4 DEF is
  <2>3. CASE was <=> is
    <3>1. new[s] = time[s] + 2 \/ new[s] = time[s]
      BY <2>3 DEF Ticked
    <3>2. IsActiveTick(new[s]) <=> IsActiveTick(time[s])
      BY <2>1, <3>1 DEF IsActiveTick
    <3>3. new[s] \in Nat
      BY <2>1, <3>1
    <3> HIDE DEF was, is, new
    <3>4. IsActiveTick(new[s]) <=> is
      BY <2>1, <2>3, <3>2, Zenon
    <3> QED BY <3>3, <3>4 DEF is
  <2> QED BY <2>2, <2>3
<1>2. new = [s \in Names |-> new[s]]
  BY DEF Ticked
<1> QED BY <1>1, <1>2 DEF InStep

LEMMA ParityStep == ParityInv /\ [Next]_vars => ParityInv'
<1> SUFFICES ASSUME ParityInv, [Next]_vars PROVE ParityInv'
  OBVIOUS
<1>1. ASSUME UNCHANGED <<active, clock>> PROVE ParityInv'
  BY <1>1 DEF ParityInv, InStep
<1>2. ASSUME NEW type \in Types, NEW called \in Lists, Mutate(type, called) PROVE ParityInv'
  BY <1>1, <1>2 DEF Mutate
<1>3. CASE MutatePrepended
  BY <1>1, <1>3 DEF MutatePrepended
<1>4. CASE Cancel
  BY <1>1, <1>4 DEF Cancel
<1>5. CASE ExitRejected
  BY <1>1, <1>5 DEF ExitRejected
<1>6. ASSUME NEW R \in SUBSET Range(target), Accept(R) PROVE ParityInv'
  <2>1. PICK to : active' = to /\ clock' = Ticked(clock, tx.called, active, to)
    BY <1>6 DEF Accept, SetActiveStates
  <2>2. InStep(clock, active)
    BY DEF ParityInv
  <2>3. InStep(Ticked(clock, tx.called, active, to), to)
    BY <2>2, TickedInStep
  <2> QED BY <2>1, <2>3 DEF ParityInv, InStep
<1>7. CASE FinalHandler
  BY <1>1, <1>7 DEF FinalHandler
<1>8. ASSUME NEW n \in {0, 1, 2}, Recover(n) PROVE ParityInv'
  <2> DEFINE once == Ticked(clock, tx.called, active, Recovered)
             twice == Ticked(once, tx.called, Recovered, Recovered)
  <2>1. InStep(clock, active)
    BY DEF ParityInv
  <2>2. InStep(once, Recovered)
    BY <2>1, TickedInStep
  <2>3. InStep(twice, Recovered)
    BY <2>2, TickedInStep
  <2>4. \/ UNCHANGED <<active, clock>>
        \/ active' = Recovered /\ clock' = once
        \/ active' = Recovered /\ clock' = twice
    BY <1>8, Zenon DEF Recover
  <2> HIDE DEF once, twice
  <2> QED BY <2>2, <2>3, <2>4, <1>1 DEF ParityInv, InStep
<1>9. ASSUME NEW n \in {0, 1, 2}, NEW q, FinalFailed(n, q) PROVE ParityInv'
  BY <1>8, <1>9 DEF FinalFailed
<1>10. Recoveries \in {0, 1}
  BY DEF Recoveries
<1>11. CASE FinalTimeout
  BY <1>9, <1>10, <1>11 DEF FinalTimeout
<1>12. CASE FinalPanic
  <2>1. PICK n \in {0, 1, 2} : FinalFailed(n, PanicQueue)
    BY <1>10, <1>12 DEF FinalPanic
  <2> QED BY <1>9, <2>1
<1>13. CASE Finish
  BY <1>1, <1>13 DEF Finish
<1>14. CASE UNCHANGED vars
  BY <1>1, <1>14 DEF vars
<1> QED BY <1>2, <1>3, <1>4, <1>5, <1>6, <1>7, <1>11, <1>12, <1>13, <1>14 DEF Next

\* At every moment of every transition, also of one whose final handlers fail, a clock is
\* odd exactly when its state is active (setActiveStates, recoverFinalPhase).
THEOREM ClocksTellStates == Spec => []ClockParity
<1>1. Init => ParityInv
  <2> SUFFICES ASSUME Init PROVE ParityInv
    OBVIOUS
  <2>1. active = <<>> /\ clock = [s \in Names |-> 0]
    BY DEF Init
  <2>2. \A s : ~Contains(<<>>, s)
    BY DEF Contains
  <2> QED BY <2>1, <2>2 DEF ParityInv, InStep, IsActiveTick
<1>2. ParityInv /\ [Next]_vars => ParityInv'
  BY ParityStep
<1>3. ParityInv => ClockParity
  BY DEF ParityInv, InStep, ClockParity
<1> QED BY <1>1, <1>2, <1>3, PTL DEF Spec

-----------------------------------------------------------------------------
(* parseAdd *)

LEMMA AddOfType ==
  ASSUME NEW sch, NEW t, NEW s
  PROVE  /\ AddOf(sch, t, s) \in Seq(Names)
         /\ Range(AddOf(sch, t, s)) \subseteq sch[s].add
         /\ t.type = "remove" => \A a \in Range(AddOf(sch, t, s)) : ~Contains(t.called, a)
<1> DEFINE A == {a \in sch[s].add : ~(t.type = "remove" /\ Contains(t.called, a))}
<1>1. Index \in Seq(Names)
  BY RelationsAssumption DEF Names
<1>2. Listed(A) \in Seq(Names) /\ Range(Listed(A)) \subseteq A
  <2> HIDE DEF A
  <2> QED BY <1>1, FilterFacts DEF Listed
<1>3. <<>> \in Seq(Names) /\ Range(<<>>) = {}
  BY DEF Range
<1>4. AddOf(sch, t, s) = <<>> \/ AddOf(sch, t, s) = Listed(A)
  BY DEF AddOf
<1>5. CASE AddOf(sch, t, s) = <<>>
  BY <1>3, <1>5
<1>6. CASE AddOf(sch, t, s) = Listed(A)
  BY <1>2, <1>6
<1> QED BY <1>4, <1>5, <1>6

\* The operation of ParseAdd.
ParseAddOp(sch, t) == [p \in Seq(Names) \X Names |-> p[1] \o AddOf(sch, t, p[2])]

LEMMA ParseAddTrace ==
  ASSUME NEW sch, NEW t, NEW states \in Seq(Names)
  PROVE  HasTrace(ParseAdd(sch, t, states), states, Seq(Names), states, ParseAddOp(sch, t))
<1> DEFINE D == DOMAIN states
           V == Seq(Names)
           op == ParseAddOp(sch, t)
           Op(acc, x) == acc \o AddOf(sch, t, x)
           Rec(g) == [r \in SUBSET D |-> IF r = {} THEN states ELSE Op(g[r \ {Max(r)}], states[Max(r)])]
           iter == CHOOSE g : g = Rec(g)
<1>1. ParseAdd(sch, t, states) = iter[D]
  BY DEF ParseAdd, FoldLeft, MapThenFoldSet
<1>2. op \in [V \X Names -> V] /\ states \in V /\ \A v \in V, x \in Names : op[<<v, x>>] = Op(v, x)
  <2>1. \A v \in V, x \in Names : Op(v, x) \in V
    BY AddOfType
  <2>2. op = [p \in V \X Names |-> Op(p[1], p[2])]
    BY DEF ParseAddOp
  <2> HIDE DEF Op, op
  <2> QED BY <2>1, <2>2, Zenon DEF V
<1>3. \A i \in D : states[i] \in Names
  OBVIOUS
<1> HIDE DEF V, op, Op
<1>4. PICK g : Solves(g, states, V, states, op)
  BY <1>2, SomeSolves, Zenon
<1>5. g = Rec(g)
  BY <1>2, <1>3, <1>4, Zenon DEF Solves
<1>6. iter = Rec(iter)
  <2> HIDE DEF Rec
  <2> QED BY <1>5
<1> HIDE DEF iter
<1>7. Follows(iter, states, V, states, op)
  <2>1. iter[{}] = states
    BY <1>6
  <2>2. ASSUME NEW r \in SUBSET D, r # {}, iter[r \ {Max(r)}] \in V
        PROVE  iter[r] = op[<<iter[r \ {Max(r)}], states[Max(r)]>>]
    <3>1. Max(r) \in D
      BY <1>4, <2>2, Zenon DEF Solves
    <3> QED BY <1>2, <1>3, <1>6, <2>2, <3>1, Zenon
  <2> QED BY <2>1, <2>2, Zenon DEF Follows
<1>8. HasTrace(iter[D], states, V, states, op)
  BY <1>2, <1>7, TraceOf, Zenon
<1> QED BY <1>1, <1>8 DEF V, op

\* Every state was given, or is implied by one that was.
LEMMA ParseAddFacts ==
  ASSUME NEW sch, NEW t, NEW states \in Seq(Names)
  PROVE  /\ ParseAdd(sch, t, states) \in Seq(Names)
         /\ \A a \in Range(ParseAdd(sch, t, states)) :
              a \in Range(states) \/ \E s \in Range(states) : a \in Range(AddOf(sch, t, s))
<1> DEFINE n == Len(states)
           Given(a) == a \in Range(states) \/ \E s \in Range(states) : a \in Range(AddOf(sch, t, s))
<1>1. PICK F : Trace(F, states, Seq(Names), states, ParseAddOp(sch, t))
               /\ ParseAdd(sch, t, states) = F[n]
  BY ParseAddTrace DEF HasTrace
<1>2. n \in Nat /\ DOMAIN states = 1 .. n /\ \A i \in 1 .. n : states[i] \in Names /\ states[i] \in Range(states)
  BY DEF Range
<1>3. /\ F \in [0 .. n -> Seq(Names)] /\ F[0] = states
      /\ \A k \in 1 .. n : F[k] = F[k - 1] \o AddOf(sch, t, states[k])
  <2>1. /\ F \in [0 .. n -> Seq(Names)] /\ F[0] = states
        /\ \A k \in 1 .. n : F[k] = ParseAddOp(sch, t)[<<F[k - 1], states[k]>>]
    BY <1>1 DEF Trace
  <2>2. \A k \in 1 .. n : F[k - 1] \in Seq(Names)
    BY <1>2, <2>1
  <2> QED BY <1>2, <2>1, <2>2, Zenon DEF ParseAddOp
<1> HIDE DEF n
<1> DEFINE Good == {k \in 0 .. n : \A a \in Range(F[k]) : Given(a)}
<1>4. 0 \in Good
  BY <1>2, <1>3
<1>5. ASSUME NEW k \in 1 .. n, k - 1 \in Good
      PROVE  k \in Good
  <2>1. PICK acc \in Seq(Names) : acc = F[k - 1]
    BY <1>2, <1>3
  <2>2. PICK add \in Seq(Names) : add = AddOf(sch, t, states[k])
    BY AddOfType
  <2>3. F[k] = acc \o add
    BY <1>3, <2>1, <2>2, Zenon
  <2>4. Range(F[k]) = Range(acc) \cup Range(add)
    BY <2>3, ConcatRange
  <2>5. \A a \in Range(acc) : Given(a)
    BY <1>5, <2>1
  <2>6. \A a \in Range(add) : Given(a)
    BY <1>2, <2>2
  <2> HIDE DEF Given
  <2> QED BY <1>2, <2>4, <2>5, <2>6
<1>6. n \in Good
  <2> HIDE DEF Good
  <2>1. 0 .. n \subseteq Good
    BY <1>2, <1>4, <1>5, UpTo
  <2> QED BY <1>2, <2>1
<1>7. F[n] \in Seq(Names)
  BY <1>2, <1>3
<1> QED BY <1>1, <1>6, <1>7

-----------------------------------------------------------------------------
(* parseRequire *)

\* The requirements of all the states of S are in S.
Closed(sch, S) == \A s \in S : sch[s].require \subseteq S

\* The operation of ParseRequire.
ParseRequireOp(sch) == [p \in Seq(Names) \X Names |-> Filter(p[1], Met(sch, p[1]))]

LEMMA ParseRequireTrace ==
  ASSUME NEW sch, NEW states \in Seq(Names)
  PROVE  HasTrace(ParseRequire(sch, states), states, Seq(Names), states, ParseRequireOp(sch))
<1> DEFINE D == DOMAIN states
           V == Seq(Names)
           op == ParseRequireOp(sch)
           Op(acc, x) == Filter(acc, Met(sch, acc))
           Rec(g) == [r \in SUBSET D |-> IF r = {} THEN states ELSE Op(g[r \ {Max(r)}], states[Max(r)])]
           iter == CHOOSE g : g = Rec(g)
<1>1. ParseRequire(sch, states) = iter[D]
  BY DEF ParseRequire, FoldLeft, MapThenFoldSet
<1>2. op \in [V \X Names -> V] /\ states \in V /\ \A v \in V, x \in Names : op[<<v, x>>] = Op(v, x)
  <2>1. \A v \in V, x \in Names : Op(v, x) \in V
    BY FilterFacts
  <2>2. op = [p \in V \X Names |-> Op(p[1], p[2])]
    BY DEF ParseRequireOp
  <2> HIDE DEF Op, op
  <2> QED BY <2>1, <2>2, Zenon DEF V
<1>3. \A i \in D : states[i] \in Names
  OBVIOUS
<1> HIDE DEF V, op, Op
<1>4. PICK g : Solves(g, states, V, states, op)
  BY <1>2, SomeSolves, Zenon
<1>5. g = Rec(g)
  BY <1>2, <1>3, <1>4, Zenon DEF Solves
<1>6. iter = Rec(iter)
  <2> HIDE DEF Rec
  <2> QED BY <1>5
<1> HIDE DEF iter
<1>7. Follows(iter, states, V, states, op)
  <2>1. iter[{}] = states
    BY <1>6
  <2>2. ASSUME NEW r \in SUBSET D, r # {}, iter[r \ {Max(r)}] \in V
        PROVE  iter[r] = op[<<iter[r \ {Max(r)}], states[Max(r)]>>]
    <3>1. Max(r) \in D
      BY <1>4, <2>2, Zenon DEF Solves
    <3> QED BY <1>2, <1>3, <1>6, <2>2, <3>1, Zenon
  <2> QED BY <2>1, <2>2, Zenon DEF Follows
<1>8. HasTrace(iter[D], states, V, states, op)
  BY <1>2, <1>7, TraceOf, Zenon
<1> QED BY <1>1, <1>8 DEF V, op

\* It ends with a list whose requirements are met, and every set of states with its
\* requirements met survives.
LEMMA ParseRequireFacts ==
  ASSUME NEW sch, NEW states \in Seq(Names)
  PROVE  /\ ParseRequire(sch, states) \in Seq(Names)
         /\ Range(ParseRequire(sch, states)) \subseteq Range(states)
         /\ Closed(sch, Range(ParseRequire(sch, states)))
         /\ \A S \in SUBSET Range(states) :
              Closed(sch, S) => S \subseteq Range(ParseRequire(sch, states))
<1> DEFINE n == Len(states)
           all == Range(states)
<1>1. PICK F : Trace(F, states, Seq(Names), states, ParseRequireOp(sch))
               /\ ParseRequire(sch, states) = F[n]
  BY ParseRequireTrace DEF HasTrace
<1>2. n \in Nat /\ DOMAIN states = 1 .. n /\ \A i \in 1 .. n : states[i] \in Names
  OBVIOUS
<1>3. /\ F \in [0 .. n -> Seq(Names)] /\ F[0] = states
      /\ \A k \in 1 .. n : F[k] = Filter(F[k - 1], Met(sch, F[k - 1]))
  <2>1. /\ F \in [0 .. n -> Seq(Names)] /\ F[0] = states
        /\ \A k \in 1 .. n : F[k] = ParseRequireOp(sch)[<<F[k - 1], states[k]>>]
    BY <1>1 DEF Trace
  <2>2. \A k \in 1 .. n : F[k - 1] \in Seq(Names)
    BY <1>2, <2>1
  <2> QED BY <1>2, <2>1, <2>2, Zenon DEF ParseRequireOp
<1>4. Len(F[0]) = n
  BY <1>3
<1> HIDE DEF n, all
<1> DEFINE Keeps(left) == \A S \in SUBSET all : Closed(sch, S) => S \subseteq Range(left)
           Good == {k \in 0 .. n : /\ Range(F[k]) \subseteq all /\ Keeps(F[k])
                                   /\ Len(F[k]) <= n - k \/ Closed(sch, Range(F[k]))}
<1>5. 0 \in Good
  BY <1>2, <1>3, <1>4 DEF all
<1>6. ASSUME NEW k \in 1 .. n, k - 1 \in Good
      PROVE  k \in Good
  <2>1. PICK left \in Seq(Names) : left = F[k - 1]
    BY <1>2, <1>3
  <2>2. /\ Range(left) \subseteq all /\ Keeps(left)
        /\ Len(left) <= n - (k - 1) \/ Closed(sch, Range(left))
    BY <1>6, <2>1
  <2> DEFINE met == Met(sch, left)
             new == Filter(left, met)
  <2>3. F[k] = new
    BY <1>3, <2>1
  <2>4. met = {s \in Range(left) : sch[s].require \subseteq Range(left)}
    BY DEF Met
  <2> HIDE DEF met
  <2>5. /\ Range(new) = Range(left) \cap met
        /\ Len(new) < Len(left) \/ Range(left) \subseteq met
        /\ Len(new) \in Nat /\ Len(left) \in Nat
    <3>1. new \in Seq(Names)
      BY FilterFacts
    <3> QED BY <3>1, FilterFacts
  <2> HIDE DEF new
  <2>6. Keeps(new)
    <3> SUFFICES ASSUME NEW S \in SUBSET all, Closed(sch, S) PROVE S \subseteq Range(new)
      OBVIOUS
    <3>1. S \subseteq Range(left)
      BY <2>2
    <3> QED BY <2>4, <2>5, <3>1 DEF Closed
  <2>7. CASE Range(left) \subseteq met
    <3>1. Closed(sch, Range(new))
      BY <2>4, <2>5, <2>7 DEF Closed
    <3> HIDE DEF Keeps
    <3>2. k \in 0 .. n /\ Range(F[k]) \subseteq all
      BY <1>2, <2>2, <2>3, <2>5
    <3>3. Keeps(F[k]) /\ Closed(sch, Range(F[k]))
      BY <2>3, <2>6, <3>1
    <3> QED BY <3>2, <3>3
  <2>8. CASE ~(Range(left) \subseteq met)
    <3>1. ~Closed(sch, Range(left))
      BY <2>4, <2>8 DEF Closed
    <3>2. Len(new) <= n - k
      BY <1>2, <2>2, <2>5, <2>8, <3>1
    <3> HIDE DEF Keeps
    <3> QED BY <1>2, <2>2, <2>3, <2>5, <2>6, <3>2
  <2> QED BY <2>7, <2>8
<1>7. n \in Good
  <2> HIDE DEF Good
  <2>1. 0 .. n \subseteq Good
    BY <1>2, <1>5, <1>6, UpTo, Zenon
  <2> QED BY <1>2, <2>1
<1>8. F[n] \in Seq(Names)
  BY <1>2, <1>3
<1>9. ASSUME Len(F[n]) <= n - n PROVE Closed(sch, Range(F[n]))
  <2>1. DOMAIN F[n] = {}
    BY <1>2, <1>8, <1>9
  <2> QED BY <2>1 DEF Closed, Range
<1> QED BY <1>1, <1>7, <1>8, <1>9 DEF all

\* So it is the greatest such set.
LEMMA ParseRequireGreatest ==
  ASSUME NEW sch, NEW states \in Seq(Names)
  PROVE  Range(ParseRequire(sch, states)) =
           UNION {S \in SUBSET Range(states) : \A s \in S : sch[s].require \subseteq S}
<1> DEFINE R == Range(ParseRequire(sch, states))
<1>1. R \in SUBSET Range(states) /\ \A s \in R : sch[s].require \subseteq R
  BY ParseRequireFacts DEF Closed
<1>2. ASSUME NEW S \in SUBSET Range(states), \A s \in S : sch[s].require \subseteq S
      PROVE  S \subseteq R
  BY <1>2, ParseRequireFacts DEF Closed
<1> HIDE DEF R
<1> QED BY <1>1, <1>2 DEF R

-----------------------------------------------------------------------------
(* SortStates *)

LEMMA SortStatesFacts ==
  ASSUME NEW sch, NEW top, NEW states \in Seq(Names)
  PROVE  /\ SortStates(sch, top, states) \in Seq(Names)
         /\ Range(SortStates(sch, top, states)) = Range(states)
<1> DEFINE once == SliceStable(states, ByRequire(top))
<1>1. once \in Seq(Names) /\ Range(once) = Range(states)
  BY SliceStableFacts
<1> HIDE DEF once
<1>2. SliceStable(once, ByAfter(sch)) \in Seq(Names)
      /\ Range(SliceStable(once, ByAfter(sch))) = Range(once)
  BY <1>1, SliceStableFacts
<1> QED BY <1>1, <1>2 DEF SortStates, once

\* Without After, states are in the order of the topology.
LEMMA SortedByRequire ==
  ASSUME NEW sch, NEW top \in Seq(Names), NEW states \in Seq(Names),
         \A s \in Names : sch[s].after = {}
  PROVE  Sorted(SortStates(sch, top, states), ByRequire(top))
<1> DEFINE key == [s \in Names |-> IndexOf(top, s)]
           less == ByRequire(top)
           once == SliceStable(states, less)
<1>1. key \in [Names -> Int]
  BY IndexOfFacts
<1>2. \A a, b \in Names : <<a, b>> \in less <=> key[a] < key[b]
  BY DEF ByRequire
<1> HIDE DEF key, less
<1>3. Sorted(once, less) /\ once \in Seq(Names)
  BY <1>1, <1>2, SliceStableSorted, SliceStableFacts
<1>4. \A p : p \notin ByAfter(sch)
  BY DEF ByAfter
<1> HIDE DEF once
<1>5. SliceStable(once, ByAfter(sch)) = once
  BY <1>3, <1>4, SliceStableSame
<1> QED BY <1>3, <1>5 DEF SortStates, once, less

-----------------------------------------------------------------------------
(* TargetStates *)

LEMMA UnblockedFacts ==
  ASSUME NEW sch, NEW states \in Seq(Names)
  PROVE  /\ Unblocked(sch, states) \in Seq(Names)
         /\ Range(Unblocked(sch, states)) \subseteq Range(states)
<1>1. Reverse(states) \in Seq(Names) /\ Range(Reverse(states)) = Range(states)
  BY ReverseFacts
<1>2. PICK S : Unblocked(sch, states) = Filter(Reverse(states), S)
  BY Zenon DEF Unblocked
<1> QED BY <1>1, <1>2, FilterFacts

\* Every target state was asked for, or is implied by such a state, or by an implied one.
Implied(sch, t, S) == UNION {Range(AddOf(sch, t, s)) : s \in S}

LEMMA AddedFacts ==
  ASSUME NEW sch, NEW t, NEW states \in Seq(Names)
  PROVE  /\ Uniq(ParseAdd(sch, t, states)) \in Seq(Names)
         /\ Range(Uniq(ParseAdd(sch, t, states)))
              \subseteq Range(states) \cup Implied(sch, t, Range(states))
<1>1. ParseAdd(sch, t, states) \in Seq(Names)
  BY ParseAddFacts
<1>2. Range(ParseAdd(sch, t, states)) \subseteq Range(states) \cup Implied(sch, t, Range(states))
  BY ParseAddFacts DEF Implied
<1> QED BY <1>1, <1>2, UniqFacts

\* What TargetStates returns: a list whose requirements are met, in the order of Require
\* unless After has a say; without a state called for removal, and, if no state implies
\* others, without a state that another one removes.
LEMMA TargetStatesFacts ==
  ASSUME NEW sch, NEW top \in Seq(Names), NEW t, NEW states \in Seq(Names)
  PROVE  LET to == TargetStates(sch, top, t, states) IN
         /\ to \in Seq(Names)
         /\ Closed(sch, Range(to))
         /\ (\A s \in Names : sch[s].after = {}) => Sorted(to, ByRequire(top))
         /\ t.type = "remove" /\ (\A s \in Range(states) : ~Contains(t.called, s)) =>
              \A s \in Range(to) : ~Contains(t.called, s)
         /\ (\A s \in Names : sch[s].add = {}) =>
              \A s \in Range(to) : sch[s].remove \cap Range(to) = {}
<1> DEFINE all      == Uniq(ParseAdd(sch, t, Uniq(states)))
           implied  == ParseRequire(sch, all)
           resolved == Unblocked(sch, implied)
           toRemove == UNION {sch[s].remove : s \in Range(resolved)}
           added    == ParseAdd(sch, t, resolved)
           kept     == Filter(added, Names \ toRemove)
           left     == ParseRequire(sch, Reverse(Uniq(kept)))
           to       == TargetStates(sch, top, t, states)
<1>1. to = SortStates(sch, top, left)
  BY DEF TargetStates
<1>2. all \in Seq(Names) /\ Range(all) \subseteq Range(states) \cup Implied(sch, t, Range(states))
  <2>1. Uniq(states) \in Seq(Names) /\ Range(Uniq(states)) = Range(states)
    BY UniqFacts
  <2> QED BY <2>1, AddedFacts
<1>3. implied \in Seq(Names) /\ Range(implied) \subseteq Range(all)
  <2> HIDE DEF all
  <2> QED BY <1>2, ParseRequireFacts
<1>4. resolved \in Seq(Names) /\ Range(resolved) \subseteq Range(implied)
  <2> HIDE DEF implied
  <2> QED BY <1>3, UnblockedFacts
<1> HIDE DEF all, implied, resolved, to
<1>5. added \in Seq(Names) /\ Range(added) \subseteq Range(resolved) \cup Implied(sch, t, Range(resolved))
  BY <1>4, ParseAddFacts DEF Implied
<1> HIDE DEF added
<1>6. kept \in Seq(Names) /\ Range(kept) = Range(added) \ toRemove
  <2> HIDE DEF toRemove
  <2>1. Range(added) \subseteq Names
    BY <1>5, RangeFacts
  <2> QED BY <1>5, <2>1, FilterFacts
<1> HIDE DEF kept
<1>7. Reverse(Uniq(kept)) \in Seq(Names) /\ Range(Reverse(Uniq(kept))) = Range(kept)
  <2>1. Uniq(kept) \in Seq(Names) /\ Range(Uniq(kept)) = Range(kept)
    BY <1>6, UniqFacts
  <2> QED BY <2>1, ReverseFacts
<1>8. left \in Seq(Names) /\ Range(left) \subseteq Range(kept) /\ Closed(sch, Range(left))
  BY <1>7, ParseRequireFacts
<1> HIDE DEF left
<1>9. to \in Seq(Names) /\ Range(to) = Range(left)
  BY <1>1, <1>8, SortStatesFacts
<1>10. Closed(sch, Range(to))
  BY <1>8, <1>9
<1>11. ASSUME \A s \in Names : sch[s].after = {}
       PROVE  Sorted(to, ByRequire(top))
  BY <1>1, <1>8, <1>11, SortedByRequire
<1>12. ASSUME t.type = "remove", \A s \in Range(states) : ~Contains(t.called, s)
       PROVE  \A s \in Range(to) : ~Contains(t.called, s)
  <2>1. ASSUME NEW S, NEW s \in Implied(sch, t, S) PROVE ~Contains(t.called, s)
    <3>1. PICK r \in S : s \in Range(AddOf(sch, t, r))
      BY DEF Implied
    <3> QED BY <1>12, <3>1, AddOfType
  <2>2. \A s \in Range(resolved) : ~Contains(t.called, s)
    BY <1>2, <1>3, <1>4, <1>12, <2>1
  <2> HIDE DEF toRemove
  <2> QED BY <1>5, <1>6, <1>8, <1>9, <2>1, <2>2
<1>13. ASSUME \A s \in Names : sch[s].add = {}
       PROVE  \A s \in Range(to) : sch[s].remove \cap Range(to) = {}
  <2>1. Range(resolved) \subseteq Names
    BY <1>4, RangeFacts
  <2>2. Implied(sch, t, Range(resolved)) = {}
    <3>1. \A r \in Range(resolved) : Range(AddOf(sch, t, r)) \subseteq {}
      BY <1>13, <2>1, AddOfType
    <3> QED BY <3>1 DEF Implied
  <2>3. Range(to) \subseteq Range(resolved) \ toRemove
    <3> HIDE DEF toRemove
    <3> QED BY <1>5, <1>6, <1>8, <1>9, <2>2
  <2> QED BY <2>3
<1> QED BY <1>9, <1>10, <1>11, <1>12, <1>13 DEF to

-----------------------------------------------------------------------------
(* Types *)

Mutations == [type : {"add", "remove", "set"}, called : Seq(Names), auto : BOOLEAN]

\* All the states with a Require relation are in o, after those they require.
Topological(sch, o) ==
  /\ \A i, j \in DOMAIN o : o[j] \in sch[o[i]].require => j < i
  /\ \A s, r \in Names : r \in sch[s].require => Contains(o, s) /\ Contains(o, r)

TypeOK ==
  /\ schema \in Schema
  /\ topology \in Seq(Names) /\ (topology # <<>> => Topological(schema, topology))
  /\ active \in Seq(Names) /\ target \in Seq(Names)
  /\ tx.type \in {"add", "remove", "set"} /\ tx.called \in Seq(Names) /\ tx.before \in Seq(Names)
  /\ exits \in Seq(Names) /\ enters \in Seq(Names) /\ pos \in Nat \ {0}
  /\ prepended \in Seq(Mutations)

LEMMA FiniteNames == IsFiniteSet(Names) /\ \A S \in SUBSET Names : IsFiniteSet(S)
<1>1. Index \in Seq(Names)
  BY RelationsAssumption DEF Names
<1>2. IsFiniteSet(1 .. Len(Index)) /\ DOMAIN Index = 1 .. Len(Index)
  BY <1>1, FS_Interval
<1>3. Index \in Surjection(1 .. Len(Index), Names)
  BY <1>1, <1>2 DEF Surjection, Names, Range
<1>4. IsFiniteSet(Names)
  BY <1>2, <1>3, FS_Surjection
<1> QED BY <1>4, FS_Subset

LEMMA ListOfNames ==
  ASSUME NEW S \in SUBSET Names, NEW o \in SetToSeqs(S)
  PROVE  o \in Seq(Names) /\ Range(o) = S
<1>1. o \in Seq(S) /\ Range(o) = S
  BY FiniteNames, SetToSeqsFacts
<1> QED BY <1>1

LEMMA ListsType == \A called \in Lists : called \in Seq(Names)
<1> SUFFICES ASSUME NEW called \in Lists PROVE called \in Seq(Names)
  OBVIOUS
<1>1. PICK T \in SUBSET Names : called \in SetToSeqs(T)
  BY TransitionAssumption DEF StateLists
<1> QED BY <1>1, ListOfNames

LEMMA TopologiesFacts ==
  ASSUME NEW sch \in Schema, NEW o \in Topologies(sch)
  PROVE  o \in Seq(Names) /\ (o # <<>> => Topological(sch, o))
<1> DEFINE nodes == UNION {sch[s].require \cup {s} : s \in {r \in Names : sch[r].require # {}}}
           sorted == {q \in SetToSeqs(nodes) : \A i, j \in DOMAIN q :
                        q[j] \in sch[q[i]].require => j < i}
<1>1. CASE o = <<>>
  BY <1>1
<1>2. CASE o # <<>>
  <2>1. o \in sorted
    BY <1>2 DEF Topologies
  <2>2. \A s \in Names : sch[s].require \subseteq Names
    BY DEF Schema, State
  <2>3. nodes \in SUBSET Names
    BY <2>2
  <2>4. \A s, r \in Names : r \in sch[s].require => s \in nodes /\ r \in nodes
    OBVIOUS
  <2>5. o \in SetToSeqs(nodes) /\ \A i, j \in DOMAIN o : o[j] \in sch[o[i]].require => j < i
    BY <2>1
  <2> HIDE DEF nodes, sorted
  <2>6. o \in Seq(Names) /\ Range(o) = nodes
    BY <2>3, <2>5, ListOfNames
  <2>7. \A x : Contains(o, x) <=> x \in nodes
    BY <2>6, RangeFacts
  <2> QED BY <2>4, <2>5, <2>6, <2>7 DEF Topological
<1> QED BY <1>1, <1>2

LEMMA ParseType == \A s \in Schema : Parse(s) \in Schema
<1> SUFFICES ASSUME NEW s \in Schema, NEW n \in Names
             PROVE  [s[n] EXCEPT !.remove = (s[n].remove \ {n}) \ s[n].add,
                                 !.after  = s[n].after \ {n}] \in State
  BY Zenon DEF Parse, Schema
<1>1. PICK r \in State : r = s[n]
  BY DEF Schema
<1>2. PICK X \in SUBSET Names : X = (r.remove \ {n}) \ r.add
  BY Zenon DEF State
<1>3. PICK Y \in SUBSET Names : Y = r.after \ {n}
  BY Zenon DEF State
<1>4. [r EXCEPT !.remove = X] \in State
  BY DEF State
<1>5. [[r EXCEPT !.remove = X] EXCEPT !.after = Y] \in State
  BY <1>4, Zenon DEF State
<1> QED BY <1>1, <1>2, <1>3, <1>5

LEMMA StatesDiffFacts ==
  ASSUME NEW s \in Seq(Names), NEW r \in Seq(Names)
  PROVE  StatesDiff(s, r) \in Seq(Names) /\ Range(StatesDiff(s, r)) = Range(s) \ Range(r)
BY SlicesWithoutFacts DEF StatesDiff

LEMMA StatesToSetFacts ==
  ASSUME NEW type \in {"add", "remove", "set"}, NEW called \in Seq(Names), NEW states \in Seq(Names)
  PROVE  /\ StatesToSet(type, called, states) \in Seq(Names)
         /\ type = "remove" => \A s \in Range(StatesToSet(type, called, states)) : ~Contains(called, s)
<1>1. CASE type = "remove"
  <2>1. StatesToSet(type, called, states) = StatesDiff(states, called)
    BY <1>1 DEF StatesToSet
  <2>2. \A x : Contains(called, x) <=> x \in Range(called)
    BY RangeFacts
  <2>3. StatesDiff(states, called) \in Seq(Names)
        /\ Range(StatesDiff(states, called)) = Range(states) \ Range(called)
    BY StatesDiffFacts
  <2> QED BY <2>1, <2>2, <2>3
<1>2. CASE type = "add"
  BY <1>2, ConcatRange DEF StatesToSet
<1>3. CASE type = "set"
  BY <1>3 DEF StatesToSet
<1> QED BY <1>1, <1>2, <1>3

-----------------------------------------------------------------------------
(* Transitions *)

NoAdd(sch) == \A s \in Names : sch[s].add = {}
NoAfter(sch) == \A s \in Names : sch[s].after = {}

\* No state of S removes another one, in a schema without Add.
Exclusive(sch, S) == NoAdd(sch) => \A s \in S : sch[s].remove \cap S = {}

\* A list in the order of Require, in a schema without After.
InOrder(sch, top, s) == NoAfter(sch) => Sorted(s, ByRequire(top))

\* What TargetStates guarantees.
Resolved(sch, top, to) ==
  to \in Seq(Names) /\ Closed(sch, Range(to)) /\ Exclusive(sch, Range(to)) /\ InOrder(sch, top, to)

LEMMA TargetsResolved ==
  ASSUME NEW sch, NEW top \in Seq(Names), NEW t, NEW states \in Seq(Names)
  PROVE  Resolved(sch, top, TargetStates(sch, top, t, states))
BY TargetStatesFacts, Zenon DEF Resolved, Exclusive, InOrder, NoAdd, NoAfter

LEMMA NoneResolved == ASSUME NEW sch, NEW top PROVE Resolved(sch, top, <<>>)
<1>1. Range(<<>>) = {}
  BY DEF Range
<1> QED BY <1>1 DEF Resolved, Closed, Exclusive, InOrder, Sorted

LEMMA FewerExclusive ==
  ASSUME NEW sch, NEW S, Exclusive(sch, S), NEW R \in SUBSET S
  PROVE  Exclusive(sch, R)
BY DEF Exclusive

\* The targets are resolved, and become active; what is active stays so until then, and
\* loses states afterwards in a failed final phase only.  A transition that is not
\* auto was accepted with the targets that it still has.
Settled ==
  /\ Resolved(schema, topology, target) /\ InOrder(schema, topology, enters)
  /\ Exclusive(schema, Range(active))
  /\ ~MayFail(schema) => Closed(schema, Range(active))
  /\ phase = "negotiating" => tx.before = active /\ tx.timeBefore = clock
  /\ phase = "finals" => active = target
  /\ phase = "finals" /\ ~tx.auto => Accepted
  /\ phase \in {"negotiating", "finals"} /\ ~tx.auto /\ tx.type = "remove" =>
       \A s \in Range(target) : ~Contains(tx.called, s)

LEMMA EntersFacts ==
  ASSUME TypeOK, NEW to, Resolved(schema, topology, to), NEW called, SetupExitEnter(called, to)
  PROVE  /\ exits' \in Seq(Names) /\ enters' \in Seq(Names)
         /\ InOrder(schema, topology, enters')
<1>1. active \in Seq(Names) /\ to \in Seq(Names)
  BY DEF TypeOK, Resolved
<1>2. exits' \in Seq(Names)
  <2>1. StatesDiff(active, to) \in Seq(Names)
    BY <1>1, StatesDiffFacts
  <2> QED BY <2>1, SortStatesFacts DEF SetupExitEnter
<1>3. PICK S : enters' = Filter(to, S)
  BY DEF SetupExitEnter
<1>4. enters' \in Seq(Names)
  BY <1>1, <1>3, FilterFacts
<1>5. InOrder(schema, topology, enters')
  <2>1. SUFFICES ASSUME NoAfter(schema) PROVE Sorted(enters', ByRequire(topology))
    BY DEF InOrder
  <2>2. Sorted(to, ByRequire(topology))
    BY <2>1 DEF Resolved, InOrder
  <2> QED BY <1>1, <1>3, <2>2, FilterSorted
<1> QED BY <1>2, <1>4, <1>5

LEMMA NewTransitionStep ==
  ASSUME TypeOK, Settled, NEW type \in {"add", "remove", "set"}, NEW called \in Seq(Names), NEW auto,
         NewTransition(type, called, auto), UNCHANGED <<mach, active, clock>>,
         prepended' \in Seq(Mutations)
  PROVE  TypeOK' /\ Settled'
<1> DEFINE t == [type |-> type, called |-> called, auto |-> auto, before |-> active,
                timeBefore |-> clock]
           states == StatesToSet(type, called, active)
           to == TargetStates(schema, topology, t, states)
<1>1. /\ tx' = t /\ target' = to /\ SetupExitEnter(called, to)
      /\ pos' = 1 /\ phase' = "negotiating"
  BY DEF NewTransition
<1>2. /\ active \in Seq(Names) /\ topology \in Seq(Names)
      /\ schema' = schema /\ topology' = topology /\ active' = active /\ clock' = clock
  BY DEF TypeOK, mach
<1>3. states \in Seq(Names) /\ (type = "remove" => \A s \in Range(states) : ~Contains(called, s))
  BY <1>2, StatesToSetFacts
<1>4. /\ t.type = type /\ t.called = called /\ t.auto = auto
      /\ t.before = active /\ t.timeBefore = clock
  OBVIOUS
<1> HIDE DEF t, states
<1>5. Resolved(schema, topology, to)
  BY <1>2, <1>3, TargetsResolved
<1>6. type = "remove" => \A s \in Range(to) : ~Contains(called, s)
  BY <1>2, <1>3, <1>4, TargetStatesFacts, Zenon
<1> HIDE DEF to
<1>7. exits' \in Seq(Names) /\ enters' \in Seq(Names) /\ InOrder(schema, topology, enters')
  BY <1>1, <1>5, EntersFacts
<1>8. TypeOK'
  BY <1>1, <1>2, <1>4, <1>5, <1>7 DEF TypeOK, Resolved
<1>9. Settled'
  BY <1>1, <1>2, <1>4, <1>5, <1>6, <1>7 DEF Settled
<1> QED BY <1>8, <1>9

LEMMA EndStep ==
  ASSUME TypeOK, Settled, NEW res, End(res), UNCHANGED mach, active' \in Seq(Names),
         Range(active') \subseteq Range(active), MayFail(schema) \/ active' = active,
         prepended' \in Seq(Mutations)
  PROVE  TypeOK' /\ Settled'
<1>1. /\ phase' = "idle" /\ tx' = NoTx /\ target' = <<>> /\ exits' = <<>> /\ enters' = <<>> /\ pos' = 1
      /\ schema' = schema /\ topology' = topology
  BY DEF End, mach
<1>2. NoTx.type = "add" /\ NoTx.called = <<>> /\ NoTx.before = <<>>
  BY DEF NoTx
<1>3. TypeOK'
  BY <1>1, <1>2 DEF TypeOK
<1>4. Resolved(schema, topology, <<>>)
  BY NoneResolved
<1>5. Exclusive(schema, Range(active'))
  BY FewerExclusive DEF Settled
<1>6. ~MayFail(schema) => Closed(schema, Range(active'))
  BY DEF Settled
<1>7. Settled'
  BY <1>1, <1>4, <1>5, <1>6 DEF Settled, Resolved
<1> QED BY <1>3, <1>7

LEMMA FailureType == ASSUME TypeOK PROVE FailureQueues \subseteq Seq(Mutations)
<1>1. ErrMutation \in Mutations
  BY TransitionAssumption DEF ErrMutation, Mutations
<1>2. <<ErrMutation>> \in Seq(Mutations) /\ prepended \in Seq(Mutations)
  BY <1>1 DEF TypeOK
<1>3. <<ErrMutation>> \o prepended \in Seq(Mutations)
  BY <1>2, ConcatRange
<1> QED BY <1>2, <1>3, Zenon DEF FailureQueues, PanicQueue, TimeoutQueues

LEMMA AcceptStep ==
  ASSUME TypeOK, Settled, NEW R, Accept(R)
  PROVE  TypeOK' /\ Settled'
<1> DEFINE to == IF tx.auto THEN Recheck(R) ELSE target
<1>1. /\ phase = "negotiating" /\ Accepted /\ active' = to /\ target' = to /\ phase' = "finals"
      /\ IF tx.auto THEN SetupExitEnter(tx.called, to) ELSE UNCHANGED <<exits, enters>>
      /\ schema' = schema /\ topology' = topology /\ tx' = tx /\ pos' = pos
  BY DEF Accept, SetActiveStates, mach
<1>2. prepended' \in Seq(Mutations)
  <2>1. prepended' \in {prepended} \cup FailureQueues
    BY DEF Accept
  <2> QED BY <2>1, FailureType DEF TypeOK
<1>3. Resolved(schema, topology, to)
  <2>1. CASE tx.auto
    <3> DEFINE left == Filter(tx.called, Range(target) \ R)
               states == StatesToSet("add", left, active)
    <3>1. left \in Seq(Names)
      BY FilterFacts DEF TypeOK
    <3> HIDE DEF left
    <3>2. states \in Seq(Names)
      BY <3>1, StatesToSetFacts DEF TypeOK
    <3>3. Recheck(R) = TargetStates(schema, topology, tx, states)
      BY DEF Recheck, left
    <3> HIDE DEF states
    <3>4. Resolved(schema, topology, Recheck(R))
      BY <3>2, <3>3, TargetsResolved DEF TypeOK
    <3> QED BY <2>1, <3>4
  <2>2. CASE ~tx.auto
    BY <2>2 DEF Settled
  <2> QED BY <2>1, <2>2
<1>a. ~tx.auto => to = target
  OBVIOUS
<1> HIDE DEF to
<1>4. exits' \in Seq(Names) /\ enters' \in Seq(Names) /\ InOrder(schema, topology, enters')
  <2>1. CASE tx.auto
    BY <1>1, <1>3, <2>1, EntersFacts
  <2>2. CASE ~tx.auto
    BY <1>1, <2>2 DEF TypeOK, Settled
  <2> QED BY <2>1, <2>2
<1>5. TypeOK'
  BY <1>1, <1>2, <1>3, <1>4 DEF TypeOK, Resolved
<1>6. ~tx.auto => Accepted'
  BY <1>1, <1>a DEF Accepted
<1>7. Settled'
  BY <1>1, <1>3, <1>4, <1>6, <1>a DEF Settled, Resolved
<1> QED BY <1>5, <1>7

LEMMA FinalsType == ASSUME TypeOK PROVE Finals \in Seq(Names)
BY ConcatRange DEF TypeOK, Finals

LEMMA RecoveredFacts ==
  ASSUME TypeOK
  PROVE  /\ Recovered \in Seq(Names) /\ Range(Recovered) \subseteq Range(active)
         /\ pos > Len(exits) =>
              Range(Recovered) = Range(active) \ {Finals[i] : i \in pos .. Len(Finals)}
<1>1. Finals \in Seq(Names) /\ pos \in Nat \ {0} /\ active \in Seq(Names) /\ exits \in Seq(Names)
  BY FinalsType DEF TypeOK
<1>2. CASE pos > Len(exits)
  <2> DEFINE rest == SubSeq(Finals, pos, Len(Finals))
  <2>1. rest \in Seq(Names) /\ Range(rest) = {Finals[i] : i \in pos .. Len(Finals)}
    BY <1>1, SubSeqRange
  <2> HIDE DEF rest
  <2>2. Recovered = StatesDiff(active, rest)
    BY <1>2 DEF Recovered, rest
  <2> QED BY <1>1, <2>1, <2>2, StatesDiffFacts
<1>3. CASE ~(pos > Len(exits))
  <2>1. Recovered = active
    BY <1>3 DEF Recovered
  <2> QED BY <1>1, <1>3, <2>1
<1> QED BY <1>2, <1>3

\* A failed final handler.
LEMMA FinalFailedStep ==
  ASSUME TypeOK, NEW n \in {0, 1, 2}, NEW queue, FinalFailed(n, queue)
  PROVE  /\ phase = "finals" /\ MayFail(schema) /\ End("canceled") /\ UNCHANGED mach
         /\ prepended' = queue
         /\ active' = active \/ active' = Recovered
         /\ n > 0 => active' = Recovered
<1>1. /\ phase = "finals" /\ MayFail(schema) /\ End("canceled") /\ UNCHANGED mach
      /\ prepended' = queue /\ Recover(n)
  BY DEF FinalFailed
<1>2. CASE n = 0
  BY <1>1, <1>2 DEF Recover
<1>3. CASE n = 1
  BY <1>1, <1>3 DEF Recover
<1>4. CASE n = 2
  BY <1>1, <1>4 DEF Recover
<1> QED BY <1>1, <1>2, <1>3, <1>4

LEMMA FinalStep ==
  ASSUME TypeOK, FinalTimeout \/ FinalPanic
  PROVE  \E n \in {0, 1, 2} : /\ FinalFailed(n, prepended') /\ prepended' \in FailureQueues
                              /\ pos <= Len(Finals) => n > 0
<1>1. Recoveries \in {0, 1} /\ (pos <= Len(Finals) => Recoveries = 1)
  BY DEF Recoveries
<1>2. CASE FinalTimeout
  <2>1. PICK queue \in TimeoutQueues : FinalFailed(Recoveries, queue)
    BY <1>2 DEF FinalTimeout
  <2>2. prepended' = queue /\ MayFail(schema)
    BY <2>1 DEF FinalFailed
  <2>3. prepended' \in FailureQueues
    BY <2>1, <2>2 DEF FailureQueues
  <2> QED BY <1>1, <2>1, <2>2, <2>3
<1>3. CASE FinalPanic
  <2>1. PICK n \in {0, 1, 2} : FinalFailed(n, PanicQueue) /\ (pos <= Len(Finals) => n > 0)
    BY <1>1, <1>3 DEF FinalPanic
  <2>2. prepended' = PanicQueue /\ MayFail(schema)
    BY <2>1 DEF FinalFailed
  <2>3. prepended' \in FailureQueues
    BY <2>2 DEF FailureQueues
  <2> QED BY <2>1, <2>2, <2>3
<1> QED BY <1>2, <1>3

\* An auto mutation is prepended, or nothing.
LEMMA FinishQueue ==
  ASSUME TypeOK, Finish
  PROVE  prepended' \in Seq(Mutations)
<1>1. CASE prepended' = prepended
  BY <1>1 DEF TypeOK
<1>2. CASE prepended' # prepended
  <2>1. PICK called \in SetToSeqs(AutoStates(schema, active)) :
          prepended' = <<[type |-> "add", called |-> called, auto |-> TRUE]>> \o prepended
    BY <1>2, Zenon DEF Finish
  <2>2. AutoStates(schema, active) \in SUBSET Names
    BY DEF AutoStates
  <2>3. called \in Seq(Names)
    BY <2>1, <2>2, ListOfNames
  <2>4. [type |-> "add", called |-> called, auto |-> TRUE] \in Mutations
    BY <2>3 DEF Mutations
  <2>5. <<[type |-> "add", called |-> called, auto |-> TRUE]>> \in Seq(Mutations)
    BY <2>4
  <2> QED BY <2>1, <2>5, ConcatRange DEF TypeOK
<1> QED BY <1>1, <1>2

TransInv == TypeOK /\ Settled

LEMMA TransStep == TransInv /\ [Next]_vars => TransInv'
<1> SUFFICES ASSUME TypeOK, Settled, [Next]_vars PROVE TypeOK' /\ Settled'
  BY DEF TransInv
<1>1. ASSUME NEW type \in Types, NEW called \in Lists, Mutate(type, called)
      PROVE  TypeOK' /\ Settled'
  <2>1. /\ NewTransition(type, called, FALSE) /\ UNCHANGED <<mach, active, clock>>
        /\ prepended' \in Seq(Mutations)
    BY <1>1, Zenon DEF Mutate, TypeOK
  <2>2. type \in {"add", "remove", "set"} /\ called \in Seq(Names)
    BY TransitionAssumption, ListsType
  <2> QED BY <2>1, <2>2, NewTransitionStep, Zenon
<1>2. CASE MutatePrepended
  <2>1. PICK m \in Mutations : m = Head(prepended)
    BY <1>2 DEF MutatePrepended, TypeOK
  <2>2. Tail(prepended) \in Seq(Mutations)
    BY <1>2 DEF MutatePrepended, TypeOK
  <2>3. /\ NewTransition(m.type, m.called, m.auto) /\ UNCHANGED <<mach, active, clock>>
        /\ prepended' \in Seq(Mutations)
    BY <1>2, <2>1, <2>2 DEF MutatePrepended
  <2>4. m.type \in {"add", "remove", "set"} /\ m.called \in Seq(Names)
    BY DEF Mutations
  <2> QED BY <2>3, <2>4, NewTransitionStep
<1>3. CASE Cancel
  <2>1. End("canceled") /\ UNCHANGED mach /\ active' = active
    BY <1>3 DEF Cancel
  <2>2. prepended' \in {prepended} \cup FailureQueues
    BY <1>3 DEF Cancel
  <2>3. prepended' \in Seq(Mutations) /\ active \in Seq(Names)
    BY <2>2, FailureType DEF TypeOK
  <2> QED BY <2>1, <2>3, EndStep
<1>4. CASE ExitRejected
  BY <1>4 DEF ExitRejected, TypeOK, Settled, mach, trans
<1>5. ASSUME NEW R \in SUBSET Range(target), Accept(R) PROVE TypeOK' /\ Settled'
  BY <1>5, AcceptStep
<1>6. CASE FinalHandler
  <2>1. /\ UNCHANGED <<schema, topology, active, clock, phase, tx, target, exits, enters, prepended>>
        /\ pos' \in Nat \ {0}
    BY <1>6 DEF FinalHandler, mach, TypeOK
  <2>2. TypeOK'
    BY <2>1 DEF TypeOK
  <2>3. Accepted' <=> Accepted
    BY <2>1 DEF Accepted
  <2>4. Settled'
    BY <2>1, <2>3 DEF Settled
  <2> QED BY <2>2, <2>4
<1>7. CASE FinalTimeout \/ FinalPanic
  <2>1. PICK n \in {0, 1, 2} : FinalFailed(n, prepended') /\ prepended' \in FailureQueues
    BY <1>7, FinalStep
  <2>2. MayFail(schema) /\ End("canceled") /\ UNCHANGED mach /\ (active' = active \/ active' = Recovered)
    BY <2>1, FinalFailedStep
  <2>3. active' \in Seq(Names) /\ Range(active') \subseteq Range(active)
    BY <2>2, RecoveredFacts, Zenon DEF TypeOK
  <2>4. prepended' \in Seq(Mutations)
    BY <2>1, FailureType
  <2> QED BY <2>2, <2>3, <2>4, EndStep
<1>8. CASE Finish
  <2>1. End(Outcome) /\ UNCHANGED mach /\ active' = active
    BY <1>8 DEF Finish
  <2>2. active \in Seq(Names)
    BY DEF TypeOK
  <2> QED BY <1>8, <2>1, <2>2, FinishQueue, EndStep
<1>9. CASE UNCHANGED vars
  <2>1. Accepted' <=> Accepted
    BY <1>9 DEF Accepted, vars, trans
  <2> QED BY <1>9, <2>1 DEF vars, mach, trans, TypeOK, Settled
<1> QED BY <1>1, <1>2, <1>3, <1>4, <1>5, <1>6, <1>7, <1>8, <1>9 DEF Next

LEMMA TransInit == Init => TransInv
<1> SUFFICES ASSUME Init PROVE TransInv
  OBVIOUS
<1>1. schema \in Schema
  BY TransitionAssumption, ParseType DEF Init
<1>2. topology \in Seq(Names) /\ (topology # <<>> => Topological(schema, topology))
  BY <1>1, TopologiesFacts DEF Init
<1>3. /\ active = <<>> /\ target = <<>> /\ exits = <<>> /\ enters = <<>> /\ prepended = <<>>
      /\ pos = 1 /\ phase = "idle" /\ tx = NoTx
  BY DEF Init
<1>4. NoTx.type = "add" /\ NoTx.called = <<>> /\ NoTx.before = <<>>
  BY DEF NoTx
<1>5. TypeOK
  BY <1>1, <1>2, <1>3, <1>4 DEF TypeOK
<1>6. Resolved(schema, topology, <<>>)
  BY NoneResolved
<1>7. Settled
  BY <1>3, <1>6 DEF Settled, Resolved
<1> QED BY <1>5, <1>7 DEF TransInv

LEMMA TransInvariant == Spec => []TransInv
BY TransInit, TransStep, PTL DEF Spec

-----------------------------------------------------------------------------
(* The relations of the active states *)

\* TargetStates and the recheck of auto transitions end with parseRequire, and sorting drops
\* nothing: active states have the states they Require, until a final handler fails.
THEOREM RequirementsMet == Spec => []RequireClosed
<1>1. TransInv => RequireClosed
  BY DEF TransInv, Settled, Resolved, RequireClosed, Closed
<1> QED BY <1>1, TransInvariant, PTL

\* Whatever survives among the states that remove each other, TargetStates takes the
\* ones it removes out of the targets: without Add, none comes back.
THEOREM NoneRemoved == Spec => []RemoveExclusive
<1>1. TransInv => RemoveExclusive
  BY DEF TransInv, Settled, RemoveExclusive, Exclusive, NoAdd
<1> QED BY <1>1, TransInvariant, PTL

\* The passes of parseRequire over any list of states, cycles included, leave the greatest
\* set with its requirements met.
THEOREM GreatestKept == Spec => []RequireGreatest
<1>1. TypeOK => RequireGreatest
  <2> SUFFICES ASSUME TypeOK PROVE RequireGreatest
    OBVIOUS
  <2> DEFINE states == StatesToSet(tx.type, tx.called, tx.before)
             implied == Uniq(ParseAdd(schema, tx, Uniq(states)))
  <2>1. states \in Seq(Names)
    BY StatesToSetFacts DEF TypeOK
  <2> HIDE DEF states
  <2>2. Uniq(states) \in Seq(Names)
    BY <2>1, UniqFacts
  <2>3. implied \in Seq(Names)
    BY <2>2, AddedFacts
  <2> HIDE DEF implied
  <2>4. Range(ParseRequire(schema, implied)) =
          UNION {S \in SUBSET Range(implied) : \A s \in S : schema[s].require \subseteq S}
    BY <2>3, ParseRequireGreatest
  <2> QED BY <2>4 DEF RequireGreatest, implied, states
<1>2. TransInv => RequireGreatest
  BY <1>1 DEF TransInv
<1> QED BY <1>2, TransInvariant, PTL

\* The insertion sort by the topology keeps requirements first, through the filters that
\* make Enters of the targets.
THEOREM RequirementsFirst == Spec => []RequiredFirst
<1>1. TransInv => RequiredFirst
  <2> SUFFICES ASSUME TransInv, topology # <<>>, \A s \in Names : schema[s].after = {},
                      NEW i \in DOMAIN enters, NEW j \in DOMAIN enters,
                      enters[j] \in schema[enters[i]].require, ~(j <= i)
               PROVE  FALSE
    BY DEF RequiredFirst
  <2>1. /\ enters \in Seq(Names) /\ topology \in Seq(Names) /\ Topological(schema, topology)
        /\ Sorted(enters, ByRequire(topology))
    BY DEF TransInv, TypeOK, Settled, InOrder, NoAfter
  <2>2. PICK s \in Names : s = enters[i]
    BY <2>1
  <2>3. PICK r \in Names : r = enters[j]
    BY <2>1
  <2>4. i < j
    BY <2>1
  <2>5. <<r, s>> \notin ByRequire(topology)
    BY <2>1, <2>2, <2>3, <2>4 DEF Sorted
  <2>6. Contains(topology, s) /\ Contains(topology, r)
    BY <2>1, <2>2, <2>3 DEF Topological
  <2> DEFINE a == IndexOf(topology, r)
             b == IndexOf(topology, s)
  <2>7. /\ a \in Int /\ b \in Int /\ a + 1 \in DOMAIN topology /\ b + 1 \in DOMAIN topology
        /\ topology[a + 1] = r /\ topology[b + 1] = s
    BY <2>1, <2>6, IndexOfFacts
  <2>8. ~(a < b)
    BY <2>5 DEF ByRequire
  <2> HIDE DEF a, b
  <2>9. a + 1 < b + 1
    BY <2>1, <2>2, <2>3, <2>7 DEF Topological
  <2> QED BY <2>7, <2>8, <2>9
<1> QED BY <1>1, TransInvariant, PTL

-----------------------------------------------------------------------------
(* Results *)

\* Next, for the steps which end a transition.
LEMMA EndingCases ==
  ASSUME [Next]_vars, Ending
  PROVE  Cancel \/ FinalTimeout \/ FinalPanic \/ Finish
<1>1. ASSUME NEW type \in Types, NEW called \in Lists, Mutate(type, called) PROVE FALSE
  BY <1>1 DEF Mutate, NewTransition, Ending
<1>2. ~MutatePrepended
  BY DEF MutatePrepended, NewTransition, Ending
<1>3. ~ExitRejected
  BY DEF ExitRejected, Ending
<1>4. ASSUME NEW R \in SUBSET Range(target), Accept(R) PROVE FALSE
  BY <1>4 DEF Accept, Ending
<1>5. ~FinalHandler
  BY DEF FinalHandler, Ending
<1>6. ~UNCHANGED vars
  BY DEF vars, Ending
<1> QED BY <1>1, <1>2, <1>3, <1>4, <1>5, <1>6 DEF Next

\* The result of emitEvents is honest: Executed if and only if what was called for is the
\* case, unless a final handler failed.
THEOREM HonestResults == Spec => ResultHonest
<1> DEFINE Honest ==
      Ending /\ ~tx.auto =>
        /\ result' = "executed" /\ tx.type # "remove" => Range(tx.called) \subseteq Range(active')
        /\ result' = "executed" /\ tx.type = "remove" => Range(tx.called) \cap Range(active') = {}
        /\ result' = "canceled" => \/ active' = tx.before /\ clock' = tx.timeBefore
                                   \/ phase = "finals" /\ MayFail(schema)
<1>1. ASSUME TransInv, [Next]_vars PROVE Honest
  <2> SUFFICES ASSUME Ending, ~tx.auto PROVE Honest
    OBVIOUS
  <2>1. TypeOK /\ Settled
    BY <1>1 DEF TransInv
  <2>2. CASE Cancel
    <3>1. phase = "negotiating" /\ result' = "canceled" /\ active' = active /\ clock' = clock
      BY <2>2 DEF Cancel, End
    <3> QED BY <2>1, <3>1 DEF Settled
  <2>3. CASE FinalTimeout \/ FinalPanic
    <3>1. PICK n \in {0, 1, 2} : FinalFailed(n, prepended')
      BY <2>1, <2>3, FinalStep
    <3>2. phase = "finals" /\ MayFail(schema) /\ result' = "canceled"
      BY <3>1 DEF FinalFailed, End
    <3> QED BY <3>2
  <2>4. CASE Finish
    <3>1. phase = "finals" /\ result' = Outcome /\ active' = active
      BY <2>4 DEF Finish, End
    <3>2. active = target /\ Accepted /\ tx.called \in Seq(Names) /\ target \in Seq(Names)
          /\ tx.type \in {"add", "remove", "set"}
      BY <2>1, <3>1 DEF Settled, TypeOK
    <3>3. CASE tx.type = "remove"
      <4>1. \A s \in Range(target) : ~Contains(tx.called, s)
        BY <2>1, <3>1, <3>3 DEF Settled
      <4>2. \A s : Contains(tx.called, s) <=> s \in Range(tx.called)
        BY <3>2, RangeFacts
      <4>3. Range(tx.called) \cap Range(active) = {}
        BY <3>2, <4>1, <4>2
      <4>4. Outcome = "executed"
        BY <3>3, <4>3 DEF Outcome
      <4> QED BY <3>1, <3>3, <4>3, <4>4
    <3>4. CASE tx.type # "remove"
      <4>1. StatesDiff(tx.called, target) = <<>>
        BY <3>2, <3>4 DEF Accepted
      <4>2. Range(<<>>) = {}
        BY DEF Range
      <4>3. Range(tx.called) \ Range(target) = {}
        BY <3>2, <4>1, <4>2, StatesDiffFacts
      <4>4. Outcome = "executed"
        BY <3>2, <3>4 DEF Outcome
      <4> QED BY <3>1, <3>2, <3>4, <4>3, <4>4
    <3> QED BY <3>3, <3>4
  <2> QED BY <1>1, <2>2, <2>3, <2>4, EndingCases
<1>2. TransInv /\ [Next]_vars => [Honest]_vars
  BY <1>1
<1>3. Spec => [][Honest]_vars
  <2> HIDE DEF Honest
  <2> QED BY <1>2, TransInvariant, PTL DEF Spec
<1> QED BY <1>3 DEF ResultHonest

\* recoverFinalPhase leaves out the failed state and those with handlers after it, and
\* nothing else, once or twice in a row.
THEOREM FailedLeaveOut == Spec => FailedDropped
<1> DEFINE Dropped == Failing /\ pos > Len(exits) =>
             Range(active') = Range(target) \ {Finals[i] : i \in pos .. Len(Finals)}
<1>1. ASSUME TransInv, [Next]_vars PROVE Dropped
  <2> SUFFICES ASSUME Failing, pos > Len(exits)
               PROVE  Range(active') = Range(target) \ {Finals[i] : i \in pos .. Len(Finals)}
    OBVIOUS
  <2>1. TypeOK /\ Settled /\ Ending /\ phase = "finals" /\ pos <= Len(Finals)
    BY <1>1 DEF TransInv, Failing
  <2>2. ~Cancel
    BY <2>1 DEF Cancel
  <2>3. ~Finish
    <3>1. Len(Finals) \in Nat
      BY <2>1, FinalsType
    <3> QED BY <2>1, <3>1 DEF Finish
  <2>4. FinalTimeout \/ FinalPanic
    BY <1>1, <2>1, <2>2, <2>3, EndingCases
  <2>5. PICK n \in {0, 1, 2} : FinalFailed(n, prepended') /\ n > 0
    BY <2>1, <2>4, FinalStep
  <2>6. active' = Recovered
    BY <2>1, <2>5, FinalFailedStep
  <2>7. active = target
    BY <2>1 DEF Settled
  <2> QED BY <2>1, <2>6, <2>7, RecoveredFacts
<1>2. TransInv /\ [Next]_vars => [Dropped]_vars
  BY <1>1
<1>3. Spec => [][Dropped]_vars
  <2> HIDE DEF Dropped
  <2> QED BY <1>2, TransInvariant, PTL DEF Spec
<1> QED BY <1>3, PTL DEF FailedDropped
=============================================================================
