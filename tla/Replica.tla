------------------------------ MODULE Replica ------------------------------
(***************************************************************************)
(* What a network machine promises about the machine it stands for: at any *)
(* time it shows a clock that the source has had.  It may lag behind, jump *)
(* ahead and fall back, but shows nothing that never was, until something  *)
(* in "excuses" has happened.                                              *)
(***************************************************************************)
CONSTANTS Clocks, Excuses

VARIABLES past,       \* the clocks the source has had
          shown,      \* the clock of the replica
          excuses     \* what went wrong on the way

replica == <<past, shown, excuses>>

Init ==
  /\ past \in SUBSET Clocks
  /\ shown \in past
  /\ excuses = {}

Advance ==
  /\ past' \in SUBSET Clocks /\ past \subseteq past'
  /\ UNCHANGED <<shown, excuses>>

Show ==
  /\ shown' \in past
  /\ UNCHANGED <<past, excuses>>

Err ==
  /\ excuses' \in SUBSET Excuses /\ excuses' # {} /\ excuses \subseteq excuses'
  /\ UNCHANGED past

Next == Advance \/ Show \/ Err

Spec == Init /\ [][Next]_replica
=============================================================================
