----------------------------- MODULE MCHistory -----------------------------
(* An instance of History for TLC: a list per backend, of a single state.   *)
EXTENDS HistoryQuery

NoLists == [called |-> {}, calledExclude |-> FALSE, changed |-> {}, changedExclude |-> FALSE]
MCCfg ==
  [memory |-> [NoLists EXCEPT !.called = {"A"}],
   bbolt  |-> [NoLists EXCEPT !.called = {"A"}, !.calledExclude = TRUE],
   badger |-> [NoLists EXCEPT !.changed = {"A"}, !.changedExclude = TRUE],
   gorm   |-> [NoLists EXCEPT !.changed = {"A"}]]
MCMaxSeq == [b \in Backends |-> IF b = "gorm" THEN 4 ELSE 6]
=============================================================================
