------------------------------ MODULE MCQueue ------------------------------
(* Instances of Queue for TLC. *)
EXTENDS Queue, TLC

CONSTANTS t1, t2, t3

TwoThreads == {t1, t2}
ThreeThreads == {t1, t2, t3}
Symmetry == Permutations(Threads)

Call(op, st, args) == [op |-> op, st |-> st, args |-> args]
AddA    == Call("add", "A", FALSE)
RemoveA == Call("remove", "A", FALSE)
SetB    == Call("set", "B", FALSE)
CheckA  == Call("check", "A", FALSE)
EvalX   == Call("eval", "", FALSE)
AddErr  == Call("add", Exception, TRUE)

AddOnly    == {AddA}
MixedCalls == {AddA, RemoveA, EvalX, AddErr}
StateCalls == {AddA, SetB, CheckA}
=============================================================================
