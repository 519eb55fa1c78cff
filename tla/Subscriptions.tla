--------------------------- MODULE Subscriptions ---------------------------
(***************************************************************************)
(* State subscriptions of pkg/machine: When, WhenNot, WhenTime,            *)
(* WhenTimeSum, WhenQuery and state contexts, called by any goroutine      *)
(* between the steps of a transition which change and report active states.*)
(*                                                                         *)
(* activeStatesMx is held by every call below and by setActiveStates and   *)
(* processSubscriptions, so each is one step; ProcessStateCtx only has the *)
(* lock of the subscriptions, and is a step of its own.  A state is active *)
(* when its clock is odd (ClockParity of Transition).  A binding, and its  *)
(* channel, goes by the request it was made for: calls which get an        *)
(* existing or a closed channel change nothing and are no steps.           *)
(***************************************************************************)
EXTENDS Integers, Sequences, FiniteSets, SequencesExt, Slices

CONSTANTS States,
          Multi,      \* the Multi states among them
          Ctxs,       \* contexts of callers, besides "nil"
          Requests,   \* subscriptions callers ask for: [op, want, sum, ctx]
          MaxTick,    \* bound: no transitions after a clock reaches it
          MaxOpen     \* bound: open channels at a time

\* want: the states of a request, with the times for WhenTime and the clocks which
\* the function of WhenQuery looks for.
ASSUME SubscriptionsAssumption ==
  /\ IsFiniteSet(States) /\ Multi \subseteq States
  /\ \A r \in Requests :
       /\ r.op \in {"when", "whenNot", "time", "sum", "query"}
       /\ DOMAIN r.want \subseteq States /\ \A s \in DOMAIN r.want : r.want[s] \in Nat
       /\ r.sum \in Nat
       /\ r.ctx \in Ctxs \cup {"nil"}
  /\ MaxTick \in Nat /\ MaxOpen \in Nat

VARIABLES
  clock,        \* Machine.clock
  phase,        \* where the transition is, or how the machine ended
  before,       \* Transition.ClockBefore
  activated,    \* Transition.cacheActivated
  deactivated,  \* Transition.cacheDeactivated
  stateCtx,     \* tick of the state context in the index of each state
  when,         \* WhenBindings of each state
  whenTime,     \* WhenTimeBindings of each state
  whenTimeSum,  \* WhenTimeSumBindings, in the order of their times
  whenQuery,    \* whenQueryBindings
  bind,         \* States (or Completed) and Matched of each binding
  byCtx,        \* bindings in whenCtx, whenTimeCtx, whenTimeSumCtx, whenQueryCtx
  expired,      \* contexts which are done
  open,         \* channels given to callers and not closed
  missed,       \* history: states whose last change was not reported
  skipped       \* history: the last transition failed and reported nothing

tvars == <<clock, phase, before, activated, deactivated>>
index == <<when, whenTime, whenTimeSum, whenQuery, byCtx>>
hvars == <<missed, skipped>>
vars  == <<tvars, stateCtx, index, bind, expired, open, hvars>>

NoTick == -1
NoBinding == [on |-> <<>>, matched |-> 0]

StatesOf(r) == DOMAIN r.want
Active == {s \in States : clock[s] % 2 = 1}
TimeSum(time) == FoldSet(LAMBDA s, n : n + time[s], 0, States)
ClockSum == TimeSum(clock)
Lists == {"when", "whenNot"}

Init ==
  /\ clock = [s \in States |-> 0] /\ before = clock
  /\ phase = "idle" /\ activated = {} /\ deactivated = {}
  /\ stateCtx = [s \in States |-> NoTick]
  /\ when = [s \in States |-> {}] /\ whenTime = [s \in States |-> {}]
  /\ whenTimeSum = <<>> /\ whenQuery = {}
  /\ bind = [r \in Requests |-> NoBinding]
  /\ byCtx = {} /\ expired = {} /\ open = {}
  /\ missed = {} /\ skipped = FALSE

-----------------------------------------------------------------------------
(* Binding *)

TimePassed(r, s) == clock[s] >= r.want[s]

\* What the channel of a request is there to tell.
Met(r) ==
  CASE r.op = "when"    -> StatesOf(r) \subseteq Active
    [] r.op = "whenNot" -> StatesOf(r) \cap Active = {}
    [] r.op = "time"    -> \A s \in StatesOf(r) : TimePassed(r, s)
    [] r.op = "sum"     -> ClockSum >= r.sum
    [] r.op = "query"   -> \A s \in StatesOf(r) : clock[s] = r.want[s]

\* disposed is looked at first; after a panic activeStatesMx stays locked.
InService == phase \notin {"crashed", "disposed"}

\* A new channel, indexed by its context if there is one.
Subscribe(r) ==
  /\ InService
  /\ r \notin open /\ Cardinality(open) < MaxOpen
  /\ open' = open \cup {r}
  /\ byCtx' = IF r.ctx = "nil" THEN byCtx ELSE byCtx \cup {r}
  /\ UNCHANGED <<tvars, stateCtx, expired, hvars>>

\* A binding which has the states On already and counts the states Hit.
NewBinding(r, On, Hit) ==
  bind' = [bind EXCEPT ![r] = [on |-> [s \in StatesOf(r) |-> s \in On],
                               matched |-> Cardinality(StatesOf(r) \cap Hit)]]

\* Mutant: the binding starts as if no state was active.
BindWhenEmpty(r) ==
  /\ r.op \in Lists
  /\ ~Met(r) /\ r.ctx \notin expired
  /\ NewBinding(r, {}, IF r.op = "when" THEN {} ELSE States)
  /\ when' = [s \in States |-> IF s \in StatesOf(r) THEN when[s] \cup {r} ELSE when[s]]
  /\ UNCHANGED <<whenTime, whenTimeSum, whenQuery>>

\* When and WhenNot.
BindWhen(r) ==
  /\ r.op \in Lists
  /\ ~Met(r) /\ r.ctx \notin expired
  /\ NewBinding(r, Active, IF r.op = "when" THEN Active ELSE States \ Active)
  /\ when' = [s \in States |-> IF s \in StatesOf(r) THEN when[s] \cup {r} ELSE when[s]]
  /\ UNCHANGED <<whenTime, whenTimeSum, whenQuery>>

BindTime(r) ==
  LET passed == {s \in StatesOf(r) : TimePassed(r, s)}
  IN  /\ r.op = "time"
      /\ ~Met(r) /\ r.ctx \notin expired
      /\ NewBinding(r, passed, passed)
      /\ whenTime' = [s \in States |-> IF s \in StatesOf(r) THEN whenTime[s] \cup {r}
                                                            ELSE whenTime[s]]
      /\ UNCHANGED <<when, whenTimeSum, whenQuery>>

\* Mutant: bindings are kept in the order they were made.
InsertSumLast(r) == Append(whenTimeSum, r)

InsertSum(r) ==
  LET lower == Cardinality({i \in DOMAIN whenTimeSum : whenTimeSum[i].sum < r.sum})
  IN  InsertAt(whenTimeSum, lower + 1, r)

\* An existing channel for the same time is shared by all callers, whatever their
\* contexts; the context is not looked at.
BindTimeSum(r) ==
  /\ r.op = "sum"
  /\ ~Met(r) /\ \A i \in DOMAIN whenTimeSum : whenTimeSum[i].sum # r.sum
  /\ whenTimeSum' = InsertSum(r)
  /\ UNCHANGED <<when, whenTime, whenQuery, bind>>

\* The function is not called before the next transition.
BindQuery(r) ==
  /\ r.op = "query"
  /\ r.ctx \notin expired
  /\ whenQuery' = whenQuery \cup {r}
  /\ UNCHANGED <<when, whenTime, whenTimeSum, bind>>

NewChannel(r) == Subscribe(r) /\ (BindWhen(r) \/ BindTime(r) \/ BindTimeSum(r) \/ BindQuery(r))

\* A context of a state's current tick, unless the index has one already.
NewStateCtx(s) ==
  /\ InService
  /\ stateCtx[s] = NoTick
  /\ stateCtx' = [stateCtx EXCEPT ![s] = clock[s]]
  /\ UNCHANGED <<tvars, index, bind, expired, open, hvars>>

\* The context of some callers is done; nobody is told.
Expire(c) ==
  /\ c \notin expired
  /\ expired' = expired \cup {c}
  /\ UNCHANGED <<tvars, stateCtx, index, bind, open, hvars>>

-----------------------------------------------------------------------------
(* A transition *)

\* setActiveStates, then cacheActivated and cacheDeactivated.  Multi states M which
\* were active and got called again are entered again.
SetActiveStates(to, M) ==
  /\ phase = "idle"
  /\ \A s \in States : clock[s] < MaxTick
  /\ M \subseteq Multi \cap to \cap Active
  /\ before' = clock
  /\ activated' = (to \ Active) \cup M
  /\ deactivated' = Active \ to
  /\ clock' = [s \in States |-> CASE s \in M -> clock[s] + 2
                                  [] (s \in to) # (s \in Active) -> clock[s] + 1
                                  [] OTHER -> clock[s]]
  /\ phase' = "ctx"
  /\ UNCHANGED <<stateCtx, index, bind, expired, open, hvars>>

\* Mutant: contexts of activated states are kept.
ToCancelDeactivated == deactivated

ToCancel == activated \cup deactivated

\* ProcessStateCtx takes contexts out of the index and cancels them.
ProcessStateCtx ==
  /\ phase = "ctx"
  /\ stateCtx' = [s \in States |-> IF s \in ToCancel THEN NoTick ELSE stateCtx[s]]
  /\ phase' = "finals"
  /\ UNCHANGED <<clock, before, activated, deactivated, index, bind, expired, open, hvars>>

\* The transition goes out of use.
CleanCache == activated' = {} /\ deactivated' = {} /\ before' = clock'

\* A final handler failed: recoverFinalPhase, run n times, drops the states Dropped
\* that were not entered and ticks the called Multi states again.  The transition is
\* not accepted anymore and no subscriptions are processed, state contexts included.
FinalsFailed(n, Dropped, Again) ==
  /\ phase = "finals"
  /\ Dropped \subseteq activated /\ (Dropped # {} => n > 0)
  /\ Again \subseteq (activated \cap Multi) \ Dropped
  /\ {s \in activated \ Dropped : before[s] % 2 = 1} \subseteq Again
  /\ clock' = [s \in States |-> CASE s \in Dropped -> clock[s] + 1
                                  [] s \in Again   -> clock[s] + 2 * n
                                  [] OTHER -> clock[s]]
  /\ phase' = "idle"
  /\ missed' = missed \cup activated \cup deactivated
  /\ skipped' = TRUE
  /\ CleanCache
  /\ UNCHANGED <<stateCtx, index, bind, expired, open>>

-----------------------------------------------------------------------------
(* processSubscriptions, after an accepted transition *)

\* Bindings whose contexts are done, of the maps of these operations.
ExpiredOf(ops) == {r \in byCtx : r.op \in ops /\ r.ctx \in expired}

\* Mutant: the state's whole list goes with a binding.
GcListAll(list, r) == {}

\* gcWhenBinding and gcWhenTimeBinding, for one of the binding's states: a list of
\* one is deleted without a look at it.
GcList(list, r) == IF Cardinality(list) = 1 THEN {} ELSE list \ {r}

GcLists(lists, R) ==
  [s \in States |-> FoldSet(LAMBDA r, list : GcList(list, r), lists[s],
                            {r \in R : s \in StatesOf(r)})]

\* ProcessWhen, one state of one binding.
Mark(r, b, s) ==
  LET up == (s \in activated) = (r.op = "when")
  IN  [on |-> [b.on EXCEPT ![s] = s \in activated],
       matched |-> IF b.on[s] = (s \in activated) THEN b.matched
                   ELSE b.matched + (IF up THEN 1 ELSE -1)]

\* Mutant: one state less is enough.
CompleteButOne(r, b) == b.matched + 1 >= Cardinality(StatesOf(r))

Complete(r, b) == b.matched >= Cardinality(StatesOf(r))

\* ProcessWhen walks the activated states, then the deactivated ones, and closes a
\* binding as soon as its count is complete.  Within either group the order makes
\* no difference.
Marked(r) ==
  FoldLeft(LAMBDA b, s : IF s \in StatesOf(r) /\ ~Complete(r, b) THEN Mark(r, b, s) ELSE b,
           bind[r], SetToSeq(activated) \o SetToSeq(deactivated))

\* ProcessWhenTime looks at the states whose clocks changed.
Passed(r) ==
  LET new == {s \in StatesOf(r) : clock[s] # before[s] /\ ~bind[r].on[s] /\ TimePassed(r, s)}
  IN  [on |-> [s \in StatesOf(r) |-> bind[r].on[s] \/ s \in new],
       matched |-> bind[r].matched + Cardinality(new)]

\* ProcessWhenTimeSum stops at the first binding with a later time.
SumReached ==
  LET late == {i \in DOMAIN whenTimeSum : whenTimeSum[i].sum > ClockSum
                                          /\ whenTimeSum[i] \notin ExpiredOf({"sum"})}
  IN  {whenTimeSum[i] : i \in {i \in DOMAIN whenTimeSum : \A k \in late : i < k}}

\* gcWhenQueryBinding: a list of one is deleted without a look at it, and a binding
\* which is not in the list makes slices.Delete panic.
GcQuery(q, r) ==
  IF q.ok /\ Cardinality(q.list) # 1 /\ r \notin q.list
  THEN [q EXCEPT !.ok = FALSE]
  ELSE [q EXCEPT !.list = IF q.ok THEN GcList(@, r) ELSE @]

\* processWhenQueryCtx, in some order of the map of contexts.
AfterQueryCtx(order) == FoldLeft(GcQuery, [list |-> whenQuery, ok |-> TRUE], order)

\* Bindings of states which changed, and those of them which are complete by that.
Touched  == (UNION {when[s] : s \in activated \cup deactivated}) \ ExpiredOf(Lists)
DoneWhen == {r \in Touched : Complete(r, Marked(r))}
Ticked   == (UNION {whenTime[s] : s \in {s \in States : clock[s] # before[s]}}) \ ExpiredOf({"time"})
DoneTime == {r \in Ticked : Complete(r, Passed(r))}
DoneSum  == SumReached \ ExpiredOf({"sum"})
DoneQuery(order) == {r \in AfterQueryCtx(order).list : Met(r)}

\* Channels which get closed.
Closed(order) ==
  ExpiredOf(Lists) \cup ExpiredOf({"time"}) \cup ExpiredOf({"sum"}) \cup ExpiredOf({"query"})
  \cup DoneWhen \cup DoneTime \cup DoneSum \cup DoneQuery(order)

\* All of it.  The contexts of WhenTimeSum and WhenQuery stay in their maps: those
\* of other maps are deleted instead, by then without the expired ones.
ProcessSubscriptions(order) ==
  /\ phase = "finals"
  /\ AfterQueryCtx(order).ok
  /\ when' = GcLists(when, ExpiredOf(Lists) \cup DoneWhen)
  /\ whenTime' = GcLists(whenTime, ExpiredOf({"time"}) \cup DoneTime)
  /\ whenTimeSum' = SlicesWithout(whenTimeSum, ExpiredOf({"sum"}) \cup DoneSum)
  /\ whenQuery' = AfterQueryCtx(order).list \ DoneQuery(order)
  /\ bind' = [r \in Requests |-> CASE r \in Closed(order)           -> NoBinding
                                   [] r \in Touched \ Closed(order) -> Marked(r)
                                   [] r \in Ticked \ Closed(order)  -> Passed(r)
                                   [] OTHER -> bind[r]]
  /\ byCtx' = byCtx \ (ExpiredOf(Lists) \cup ExpiredOf({"time"})
                        \cup DoneWhen \cup DoneTime \cup DoneSum \cup DoneQuery(order))
  /\ open' = open \ Closed(order)
  /\ phase' = "idle"
  /\ missed' = missed \ (activated \cup deactivated)
  /\ skipped' = FALSE
  /\ clock' = clock
  /\ CleanCache
  /\ UNCHANGED <<stateCtx, expired>>

\* The goroutine panics with activeStatesMx locked for reading, which ends the
\* machine; what it changed before is of no use to anybody.
QueryPanic(order) ==
  /\ phase = "finals"
  /\ ~AfterQueryCtx(order).ok
  /\ phase' = "crashed"
  /\ UNCHANGED <<clock, before, activated, deactivated, stateCtx, index, bind, expired,
                 open, hvars>>

\* Subscriptions.dispose, between transitions: channels of sums and queries are left.
Dispose ==
  /\ phase = "idle"
  /\ phase' = "disposed"
  /\ stateCtx' = [s \in States |-> NoTick]
  /\ open' = open \ (UNION {when[s] \cup whenTime[s] : s \in States})
  /\ UNCHANGED <<clock, before, activated, deactivated, index, bind, expired, hvars>>

Next ==
  \/ \E r \in Requests : NewChannel(r)
  \/ \E s \in States : NewStateCtx(s)
  \/ \E c \in Ctxs : Expire(c)
  \/ \E to \in SUBSET States, M \in SUBSET Multi : SetActiveStates(to, M)
  \/ ProcessStateCtx
  \/ \E n \in 0 .. 2, Dropped, Again \in SUBSET States : FinalsFailed(n, Dropped, Again)
  \/ \E order \in SetToSeqs(ExpiredOf({"query"})) :
       ProcessSubscriptions(order) \/ QueryPanic(order)
  \/ Dispose

Spec == Init /\ [][Next]_vars

-----------------------------------------------------------------------------
(* Properties *)

QueryExpired == \E r \in byCtx : r.op = "query" /\ r.ctx \in expired

\* Every open channel can be found by what will close it: it is in the lists of all
\* its states and of its context, and no closed channel is in a list, however many
\* bindings were made, completed and expired in between.  Queries are excepted once
\* the context of one is done.
Indexed ==
  InService =>
    \A s \in States, r \in Requests :
      /\ r \in when[s]     <=> r \in open /\ r.op \in Lists /\ s \in StatesOf(r)
      /\ r \in whenTime[s] <=> r \in open /\ r.op = "time" /\ s \in StatesOf(r)
      /\ Contains(whenTimeSum, r) <=> r \in open /\ r.op = "sum"
      /\ QueryExpired \/ (r \in whenQuery <=> r \in open /\ r.op = "query")
      /\ r \in open /\ r.ctx # "nil" => r \in byCtx
      /\ r \in byCtx /\ r.op \in Lists \cup {"time"} => r \in open

\* Between transitions the counter of a When or WhenNot binding is that of its states
\* as they are, although it is only told of differences, and may be bound in the
\* middle of a transition.  States changed by a failed transition are excepted until
\* they change again.
CountsExact ==
  phase = "idle" =>
    \A r \in open : r.op \in Lists =>
      /\ \A s \in StatesOf(r) \ missed : bind[r].on[s] <=> s \in Active
      /\ bind[r].matched = Cardinality({s \in StatesOf(r) : bind[r].on[s] = (r.op = "when")})

\* Nobody waits between transitions for what is already the case, unless a failed
\* transition has not been made up for; nor for states and times of a disposed machine.
NoMissedWakeup ==
  /\ phase = "idle" =>
       \A r \in open : r.op # "query" /\ Met(r) =>
         IF r.op = "sum" THEN skipped ELSE StatesOf(r) \cap missed # {}
  /\ phase = "disposed" => \A r \in open : r.op \in {"sum", "query"}

\* A channel closes when what it is there to tell is the case, when the context is done
\* or with the machine.  When may be early by states that go in the same transition in
\* which others come, as ProcessWhen counts activated states first.
ClosedWhenMet ==
  [][phase' = "idle" =>
       \A r \in open \ open' :
         \/ r.ctx \in expired
         \/ Met(r)
         \/ r.op \in Lists /\ StatesOf(r) \cap missed # {}
         \/ r.op = "when" /\ StatesOf(r) \subseteq Active \cup deactivated]_vars

\* From the moment a transition processed state contexts, one which is not canceled
\* has the current tick of its state: nothing runs on for a state that was deactivated
\* or entered anew, but by a failed transition.
StateCtxCurrent ==
  phase # "ctx" =>
    \A s \in States \ missed : stateCtx[s] \in {NoTick, clock[s]}
=============================================================================
