----------------------------- MODULE Relations -----------------------------
(***************************************************************************)
(* The DefaultRelationsResolver of pkg/machine: which states a mutation    *)
(* leads to, and in which order their handlers run.                        *)
(*                                                                         *)
(* A schema maps each state name of Index to its properties.  The lists of *)
(* a relation are sets here; the code walks Add in the order written, here *)
(* it is the order of Index.  Lists of states are sequences, as their      *)
(* order decides about blocking and about handlers.                        *)
(***************************************************************************)
EXTENDS Integers, SequencesExt, Slices

CONSTANT Index    \* Machine.stateNames

ASSUME RelationsAssumption == Index \in Seq(Range(Index))

Names == Range(Index)

State == [add : SUBSET Names, remove : SUBSET Names, require : SUBSET Names,
          after : SUBSET Names, auto : BOOLEAN, multi : BOOLEAN]
Schema == [Names -> State]

\* The lists of distinct names.
StateLists(S) == UNION {SetToSeqs(T) : T \in SUBSET S}

Listed(S) == Filter(Index, S)

StatesDiff(s, r) == SlicesWithout(s, Range(r))

-----------------------------------------------------------------------------
(* Schema.Parse *)

\* Cleans up a schema whose relations name existing states only.
Parse(schema) ==
  [s \in Names |-> [schema[s] EXCEPT !.remove = (@ \ {s}) \ schema[s].add,
                                     !.after  = @ \ {s}]]

\* The error it reports: a require-remove conflict.
Conflict(schema) == \E s \in Names : Parse(schema)[s].remove \cap schema[s].require # {}

-----------------------------------------------------------------------------
(* DefaultRelationsResolver.  tx is a transition: its mutation type, called   *)
(* states and the states before it.                                           *)

\* Mutant: also the states that were active before imply others.
AddOfAll(schema, tx, s) == Listed(schema[s].add)

\* The states implied by s.  Already active states imply nothing, unless Multi.
AddOf(schema, tx, s) ==
  IF Contains(tx.before, s) /\ ~schema[s].multi
  THEN <<>>
  ELSE Listed({a \in schema[s].add : ~(tx.type = "remove" /\ Contains(tx.called, a))})

ParseAdd(schema, tx, states) ==
  FoldLeft(LAMBDA acc, s : acc \o AddOf(schema, tx, s), states, states)

\* The states of a list whose requirements are in it.
Met(schema, states) == {s \in Range(states) : schema[s].require \subseteq Range(states)}

\* Mutant: a single pass, without the fixpoint.
ParseRequireOnce(schema, states) == Filter(states, Met(schema, states))

\* Drops states with missing requirements until nothing changes; as many passes
\* as there are states are enough.
ParseRequire(schema, states) ==
  FoldLeft(LAMBDA left, s : Filter(left, Met(schema, left)), states, states)

\* stateBlockedBy.
BlockedBy(schema, states, s) == {b \in Range(states) : s \in schema[b].remove}

\* From the end of the list, drops blocked states; a state that got dropped does
\* not block any more.
Unblocked(schema, states) ==
  LET Block(blocked, x) ==
        IF BlockedBy(schema, states, x) \subseteq blocked THEN blocked ELSE blocked \cup {x}
      all == FoldLeft(Block, {}, Reverse(states))
  IN  Filter(Reverse(states), Range(states) \ all)

\* NewSchema: a topological order of the states with Require relations, empty
\* when they form a cycle.  The code visits a map, so any order is possible.
Topologies(schema) ==
  LET nodes == UNION {schema[s].require \cup {s} : s \in {r \in Names : schema[r].require # {}}}
      sorted == {o \in SetToSeqs(nodes) : \A i, j \in DOMAIN o :
                   o[j] \in schema[o[i]].require => j < i}
  IN  IF sorted = {} THEN {<<>>} ELSE sorted

\* The comparisons of sortRequire and of SortStates, as the pairs that are less.
ByRequire(topology) ==
  {p \in Names \X Names : IndexOf(topology, p[1]) < IndexOf(topology, p[2])}
ByAfter(schema) ==
  {p \in Names \X Names : p[2] \notin schema[p[1]].after /\ p[1] \in schema[p[2]].after}

\* Mutant: sorted by After only.
SortAfterOnly(schema, topology, states) == SliceStable(states, ByAfter(schema))

SortStates(schema, topology, states) ==
  SliceStable(SliceStable(states, ByRequire(topology)), ByAfter(schema))

\* Mutant: the states removed by the survivors stay.
TargetStatesKeeping(schema, topology, tx, statesToSet) ==
  LET implied == ParseRequire(schema, Uniq(ParseAdd(schema, tx, Uniq(statesToSet))))
      targets == ParseRequire(schema, Reverse(Uniq(ParseAdd(schema, tx, Reverse(implied)))))
  IN  SortStates(schema, topology, targets)

TargetStates(schema, topology, tx, statesToSet) ==
  LET implied  == ParseRequire(schema, Uniq(ParseAdd(schema, tx, Uniq(statesToSet))))
      resolved == Unblocked(schema, implied)
      toRemove == UNION {schema[s].remove : s \in Range(resolved)}
      kept     == Filter(ParseAdd(schema, tx, resolved), Names \ toRemove)
  IN  SortStates(schema, topology, ParseRequire(schema, Reverse(Uniq(kept))))

\* NewAutoMutation: the Auto states to add, in the random order of a map.
AutoStates(schema, active) ==
  {s \in Names : /\ schema[s].auto /\ ~Contains(active, s)
                 /\ \A a \in Range(active) : s \notin schema[a].remove}

-----------------------------------------------------------------------------
(* Transition *)

\* Transition.statesToSet.
StatesToSet(type, called, active) ==
  CASE type = "remove" -> StatesDiff(active, called)
    [] type = "add"    -> called \o active
    [] type = "set"    -> called
=============================================================================
