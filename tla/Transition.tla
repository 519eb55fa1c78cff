---------------------------- MODULE Transition -----------------------------
(***************************************************************************)
(* The life of a transition in pkg/machine: newTransition resolves the     *)
(* target states, negotiation handlers accept, cancel or (auto states)     *)
(* partially reject them, setActiveStates ticks the clocks, final handlers *)
(* run one by one and may panic or time out, recoverFinalPhase repairs the *)
(* active states, and an auto mutation may follow.                         *)
(*                                                                         *)
(* Transitions of a machine are serial (module Queue), so one at a time is *)
(* modelled, with the mutations it prepends, auto and Exception, which     *)
(* the queue takes next.  Other goroutines read active and clock between   *)
(* any two handlers, so each handler is a step.                            *)
(***************************************************************************)
EXTENDS Relations

CONSTANTS Schemas,      \* the schemas given to New
          Lists,        \* the lists of states mutations are called with
          Types,        \* the mutation types asked for
          MayFail(_),   \* whether handlers panic and final handlers time out, by schema
          MaxTick(_)    \* bound: no mutations after a clock reaches it (prepended
                        \* ones: after the clock of Exception does), by schema

Exception == "Exception"

ASSUME TransitionAssumption ==
  /\ Exception \in Names
  /\ Schemas \subseteq Schema
  /\ Lists \subseteq StateLists(Names) \ {<<>>}
  /\ Types \subseteq {"add", "remove", "set"}
  /\ \A s \in Schemas : MayFail(s) \in BOOLEAN /\ MaxTick(s) \in Nat

VARIABLES
  schema, topology,   \* Machine.schema and the resolver's topology
  active,             \* Machine.activeStates
  clock,              \* Machine.clock
  phase,              \* idle, negotiating, finals, crashed
  tx,                 \* [type, called, auto, before, timeBefore]
  target,             \* Transition.TargetStates
  rejected,           \* states an auto transition lost to their own handlers
  exits, enters,      \* Transition.Exits, Transition.Enters
  pos,                \* number of the final handler to run
  result,             \* of the last transition
  prepended           \* the prepended mutations, [type, called, auto]

mach == <<schema, topology>>
trans == <<tx, target, rejected, exits, enters, pos>>
vars == <<mach, active, clock, phase, trans, result, prepended>>

NoTx == [type |-> "add", called |-> <<>>, auto |-> FALSE, before |-> <<>>,
         timeBefore |-> [s \in Names |-> 0]]

Finals == exits \o enters

Init ==
  /\ schema \in {Parse(s) : s \in {r \in Schemas : ~Conflict(r)}}
  /\ topology \in Topologies(schema)
  /\ active = <<>> /\ clock = [s \in Names |-> 0]
  /\ phase = "idle" /\ result = "none"
  /\ tx = NoTx /\ target = <<>> /\ rejected = {}
  /\ exits = <<>> /\ enters = <<>> /\ pos = 1
  /\ prepended = <<>>

-----------------------------------------------------------------------------
(* newTransition *)

IsActiveTick(tick) == tick % 2 = 1

\* Clocks after the states change from "from" to "to": +1 for a change, +2 for a
\* called Multi state which stays active.
Ticked(time, called, from, to) ==
  [s \in Names |->
     CASE ~(Contains(from, s) <=> Contains(to, s)) -> time[s] + 1
       [] Contains(from, s) /\ Contains(to, s) /\ Contains(called, s) /\ schema[s].multi
            -> time[s] + 2
       [] OTHER -> time[s]]

\* setupExitEnter.
SetupExitEnter(called, to) ==
  /\ exits' = SortStates(schema, topology, StatesDiff(active, to))
  /\ enters' = Filter(to, {s \in Range(to) :
       ~Contains(active, s) \/ (schema[s].multi /\ Contains(called, s))})

NewTransition(type, called, auto) ==
  LET t  == [type |-> type, called |-> called, auto |-> auto, before |-> active,
             timeBefore |-> clock]
      to == TargetStates(schema, topology, t, StatesToSet(type, called, active))
  IN  /\ tx' = t
      /\ target' = to
      /\ SetupExitEnter(called, to)
      /\ rejected' = {} /\ pos' = 1
      /\ phase' = "negotiating" /\ result' = "none"

\* Mutant: a part of the called states is enough.
AcceptedAny == Range(tx.called) \cap Range(target) # {} \/ tx.type = "remove"

\* setupAccepted, of a transition which is not a check.
Accepted ==
  LET notAccepted == StatesDiff(tx.called, target)
  IN  \/ tx.type = "remove"
      \/ tx.auto /\ Len(notAccepted) < Len(tx.called)
      \/ notAccepted = <<>>

\* The transition is over, CleanCache and the next one to come.
End(res) ==
  /\ phase' = "idle" /\ result' = res
  /\ tx' = NoTx /\ target' = <<>> /\ rejected' = {}
  /\ exits' = <<>> /\ enters' = <<>> /\ pos' = 1

\* A mutation from the queue; prepended ones come first.
Mutate(type, called) ==
  /\ phase = "idle" /\ prepended = <<>>
  /\ \A s \in Names : clock[s] < MaxTick(schema)
  /\ NewTransition(type, called, FALSE)
  /\ UNCHANGED <<mach, active, clock, prepended>>

MutatePrepended ==
  /\ phase = "idle" /\ prepended # <<>> /\ clock[Exception] < MaxTick(schema)
  /\ NewTransition(Head(prepended).type, Head(prepended).called, Head(prepended).auto)
  /\ prepended' = Tail(prepended)
  /\ UNCHANGED <<mach, active, clock>>

-----------------------------------------------------------------------------
(* emitEvents: negotiation *)

ErrMutation == [type |-> "add", called |-> <<Exception>>, auto |-> FALSE]

\* The mutations to come once a handler failed.  A panic prepends Exception
\* (recoverToErr), unless Exception was being added; a timeout leaves the queue
\* alone, or replaces it once HandlerDeadline has passed.
PanicQueue == IF Contains(tx.called, Exception) THEN prepended ELSE <<ErrMutation>> \o prepended
TimeoutQueues == {prepended, <<ErrMutation>>}
FailureQueues == IF MayFail(schema) THEN {PanicQueue} \cup TimeoutQueues ELSE {}

\* Not accepted, or a negotiation handler returned false, panicked or timed out.
Cancel ==
  /\ phase = "negotiating"
  /\ End("canceled")
  /\ prepended' \in {prepended} \cup (IF Accepted THEN FailureQueues ELSE {})
  /\ UNCHANGED <<mach, active, clock>>

\* An auto transition drops an Auto state whose handler returned false.  For an
\* Exit handler the state is not among the targets, and slices.Delete panics
\* with the index -1.
ExitRejected ==
  /\ phase = "negotiating" /\ Accepted /\ tx.auto
  /\ \E s \in Range(exits) : schema[s].auto
  /\ phase' = "crashed"
  /\ UNCHANGED <<mach, active, clock, trans, result, prepended>>

\* Mutant: the target states of an auto transition are not re-calculated.
RecheckNothing(R) == Filter(target, Range(target) \ R)

\* The target states once the Auto states R were rejected by their handlers:
\* re-calculated with the called states that are left.
Recheck(R) ==
  LET left == Filter(tx.called, Range(target) \ R)
  IN  TargetStates(schema, topology, tx, StatesToSet("add", left, active))

\* setActiveStates.
SetActiveStates(to) ==
  /\ active' = to
  /\ clock' = Ticked(clock, tx.called, active, to)

\* All the negotiation handlers returned true, save those of R, which may have
\* failed as well.
Accept(R) ==
  LET to == IF tx.auto THEN Recheck(R) ELSE target
  IN  /\ phase = "negotiating" /\ Accepted
      /\ R # {} => tx.auto
      /\ R \subseteq {s \in Range(target) : schema[s].auto}
      /\ tx.auto => Range(target) # R
      /\ SetActiveStates(to)
      /\ target' = to
      /\ rejected' = R
      /\ IF tx.auto THEN SetupExitEnter(tx.called, to) ELSE UNCHANGED <<exits, enters>>
      /\ phase' = "finals"
      /\ prepended' \in {prepended} \cup (IF R # {} THEN FailureQueues ELSE {})
      /\ UNCHANGED <<mach, tx, pos, result>>

-----------------------------------------------------------------------------
(* emitEvents: final handlers *)

FinalHandler ==
  /\ phase = "finals" /\ pos <= Len(Finals)
  /\ pos' = pos + 1
  /\ UNCHANGED <<mach, active, clock, phase, tx, target, rejected, exits,
                 enters, result, prepended>>

\* Mutant: only the failed state is dropped.
RecoveredOne ==
  Filter(active, Range(active) \ {Finals[i] : i \in {pos} \cap DOMAIN Finals})

\* recoverFinalPhase drops the state of the failed State handler and those with
\* handlers after it.  End handlers and AnyState have no state in the finals.
Recovered ==
  IF pos > Len(exits)
  THEN StatesDiff(active, SubSeq(Finals, pos, Len(Finals)))
  ELSE active

\* Mutant: the clocks stay, only the active states are fixed.
RecoverStatesOnly(times) == active' = Recovered /\ clock' = clock

\* recoverFinalPhase, with its setActiveStates, run this many times in a row.
Recover(times) ==
  LET once == Ticked(clock, tx.called, active, Recovered)
  IN  CASE times = 0 -> UNCHANGED <<active, clock>>
        [] times = 1 -> active' = Recovered /\ clock' = once
        [] times = 2 -> active' = Recovered
                        /\ clock' = Ticked(once, tx.called, Recovered, Recovered)

FinalFailed(times, queue) ==
  /\ phase = "finals" /\ MayFail(schema)
  /\ Recover(times)
  /\ End("canceled")
  /\ prepended' = queue
  /\ UNCHANGED mach

\* A State or End handler which was canceled makes emitEvents recover, AnyState
\* does not.
Recoveries == IF pos <= Len(Finals) THEN 1 ELSE 0

FinalTimeout == \E queue \in TimeoutQueues : FinalFailed(Recoveries, queue)

\* recoverToErr recovers as well, unless Exception was being added.
FinalPanic ==
  FinalFailed(IF Contains(tx.called, Exception) THEN Recoveries ELSE Recoveries + 1, PanicQueue)

\* The result of emitEvents: a transition which did what it was called for.
Outcome ==
  IF CASE tx.type = "remove" -> Range(tx.called) \cap Range(active) = {}
       [] tx.type # "remove" /\ tx.auto -> Len(target) > Len(tx.before)
       [] OTHER -> Range(target) \subseteq Range(active)
  THEN "executed" ELSE "canceled"

\* The end, with an auto mutation if any clock changed.
Finish ==
  /\ phase = "finals" /\ pos = Len(Finals) + 1
  /\ End(Outcome)
  /\ \/ /\ ~tx.auto /\ clock # tx.timeBefore /\ AutoStates(schema, active) # {}
        /\ \E called \in SetToSeqs(AutoStates(schema, active)) :
             prepended' = <<[type |-> "add", called |-> called, auto |-> TRUE]>> \o prepended
     \/ /\ tx.auto \/ clock = tx.timeBefore \/ AutoStates(schema, active) = {}
        /\ UNCHANGED prepended
  /\ UNCHANGED <<mach, active, clock>>

Next ==
  \/ \E type \in Types, called \in Lists : Mutate(type, called)
  \/ MutatePrepended
  \/ Cancel \/ ExitRejected
  \/ \E R \in SUBSET Range(target) : Accept(R)
  \/ FinalHandler \/ FinalTimeout \/ FinalPanic \/ Finish

Spec == Init /\ [][Next]_vars

-----------------------------------------------------------------------------
(* Properties *)

\* The parity of a clock tells whether its state is active, at every moment another
\* goroutine can look: setActiveStates keeps both in step through acceptance,
\* partial acceptance and the repair of a failed final phase.
ClockParity == \A s \in Names : IsActiveTick(clock[s]) <=> Contains(active, s)

\* Active states have the states they Require, whatever TargetStates and the recheck
\* of auto transitions left out; only the repair of a failed final phase may leave
\* requirements unmet, until the next transition.
RequireClosed ==
  ~MayFail(schema) \/ phase = "finals" =>
    \A s \in Range(active) : schema[s].require \subseteq Range(active)

\* In a schema without relations Add between states, none of the active states
\* Removes another one of them.
RemoveExclusive ==
  (\A s \in Names : schema[s].add = {}) =>
    \A s \in Range(active) : schema[s].remove \cap Range(active) = {}

Ending == phase # "idle" /\ phase' = "idle"
Failing == Ending /\ phase = "finals" /\ pos <= Len(Finals)

\* The result of a mutation that is not auto: Executed means that the called states
\* are active (or not, for a removal), Canceled without a failed final handler that
\* nothing happened.
ResultHonest ==
  [][Ending /\ ~tx.auto =>
       /\ result' = "executed" /\ tx.type # "remove" => Range(tx.called) \subseteq Range(active')
       /\ result' = "executed" /\ tx.type = "remove" => Range(tx.called) \cap Range(active') = {}
       /\ result' = "canceled" => \/ active' = tx.before /\ clock' = tx.timeBefore
                                  \/ phase = "finals" /\ MayFail(schema)]_vars

\* parseRequire leaves no state out needlessly: what it keeps is the greatest set in
\* which all requirements are met.
RequireGreatest ==
  phase = "negotiating" =>
    LET implied == Uniq(ParseAdd(schema, tx, Uniq(StatesToSet(tx.type, tx.called, tx.before))))
    IN  Range(ParseRequire(schema, implied)) =
          UNION {S \in SUBSET Range(implied) : \A s \in S : schema[s].require \subseteq S}

\* Final handlers of a state run after those of the states it Requires, when no After
\* relation says otherwise and Require has no cycles (SortStates).
RequiredFirst ==
  (topology # <<>> /\ \A s \in Names : schema[s].after = {}) =>
    \A i, j \in DOMAIN enters : enters[j] \in schema[enters[i]].require => j <= i

\* When a State handler fails, exactly the states whose State handlers did not finish
\* are left out (recoverFinalPhase).
FailedDropped ==
  [][Failing /\ pos > Len(exits) =>
       Range(active') = Range(target) \ {Finals[i] : i \in pos .. Len(Finals)}]_vars
=============================================================================
