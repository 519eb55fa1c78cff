--------------------------- MODULE MCTransition ----------------------------
(***************************************************************************)
(* Schemas, mutations and bounds for model checking Transition: all the    *)
(* schemas of three states with a few relations, plus Exception.           *)
(***************************************************************************)
EXTENDS Transition

States == {"A", "B", "C"}

MCIndex == <<"A", "B", "C", "Exception">>

\* Up to n relations, of these kinds, between two different states.  Renamings of
\* the states lead to one set of relations.
Pairs == {p \in States \X States : p[1] # p[2]}
Renamed(f, edges) == {<<e[1], <<f[e[2][1]], f[e[2][2]]>>>> : e \in edges}
Relabel == {f \in [States -> States] : Range(f) = States}
UpTo(n, kinds) ==
  LET E == kinds \X Pairs
      sets == {{}} \cup CASE n = 1 -> {{a} : a \in E}
                        [] n = 2 -> {{a, b} : a, b \in E}
                        [] n = 3 -> {{a, b, c} : a, b, c \in E}
  IN  {CHOOSE r \in {Renamed(f, e) : f \in Relabel} : TRUE : e \in sets}

\* The schema with these relations, Auto and Multi states.  Exception is Multi, as New
\* adds it.
MakeSchema(edges, autos, multis) ==
  [s \in Names |->
     LET To(kind) == {t \in States : <<kind, <<s, t>>>> \in edges}
     IN  [add |-> To("add"), remove |-> To("remove"), require |-> To("require"),
          after |-> To("after"), auto |-> s \in autos,
          multi |-> s = "Exception" \/ s \in multis]]

SchemasOf(kinds, n, autos, multis) ==
  {MakeSchema(e, a, m) : e \in UpTo(n, kinds),
                         a \in autos, m \in multis}

NoStates == {{}}

\* Three relations at most.
ThreeEdges == SchemasOf({"add", "remove", "require"}, 3, NoStates, NoStates)
\* For handlers that fail: one relation, any Auto states, A is Multi.
FailSchemas ==
  SchemasOf({"add", "remove", "require"}, 1, (SUBSET States) \ {States}, {{"A"}})

MCSchemas == ThreeEdges \cup FailSchemas
MCMayFail(s) == s["A"].multi
MCMaxTick(s) == IF MCMayFail(s) THEN 2 ELSE 3

ShortLists == {l \in StateLists(States) : Len(l) \in 1 .. 2}
AllTypes == {"add", "remove", "set"}
=============================================================================
