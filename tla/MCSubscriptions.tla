-------------------------- MODULE MCSubscriptions --------------------------
(* Instances of Subscriptions for TLC. *)
EXTENDS Subscriptions

Request(op, want, sum, ctx) == [op |-> op, want |-> want, sum |-> sum, ctx |-> ctx]
Both(a, b) == [s \in {"A", "B"} |-> IF s = "A" THEN a ELSE b]
Only(n)    == [s \in {"A"} |-> n]

WhenBoth == Request("when", Both(0, 0), 0, "nil")

AllRequests == {
  WhenBoth,
  Request("when", Only(0), 0, "c"),
  Request("whenNot", Both(0, 0), 0, "nil"),
  Request("time", Both(2, 1), 0, "nil"),
  Request("time", Only(2), 0, "c"),
  Request("sum", <<>>, 3, "nil"),
  Request("sum", <<>>, 2, "c"),
  Request("query", Both(1, 1), 0, "nil"),
  Request("query", Only(2), 0, "c")}

WhenOnly == {WhenBoth}
=============================================================================
