------------------------------- MODULE Slices -------------------------------
(***************************************************************************)
(* The helpers for slices which pkg/machine uses, on sequences, where the  *)
(* community modules have none that fits.  Functions which the code passes *)
(* to them are given by the sets of elements, or of pairs of elements, for *)
(* which they return true.                                                 *)
(***************************************************************************)
EXTENDS Integers, SequencesExt

\* slicesFilter: the elements of a list which are in S.
Filter(s, S) ==
  LET kept[i \in 0 .. Len(s)] ==
        IF i = 0 THEN <<>> ELSE IF s[i] \in S THEN Append(kept[i - 1], s[i]) ELSE kept[i - 1]
  IN  kept[Len(s)]

\* slicesWithout, for every element of R.
SlicesWithout(s, R) == Filter(s, Range(s) \ R)

\* slicesUniq.
Uniq(s) ==
  FoldLeft(LAMBDA acc, x : IF Contains(acc, x) THEN acc ELSE Append(acc, x), <<>>, s)

\* slices.Index, -1 when absent, from 0.
IndexOf(s, x) == IF Contains(s, x) THEN (CHOOSE i \in DOMAIN s : s[i] = x) - 1 ELSE -1

\* sort.SliceStable of a short list: an insertion sort, for any comparison.
Insert(acc, x, less) ==
  LET p == Max({0} \cup {k \in DOMAIN acc : <<x, acc[k]>> \notin less})
  IN  InsertAt(acc, p + 1, x)
SliceStable(s, less) == FoldLeft(LAMBDA acc, x : Insert(acc, x, less), <<>>, s)
=============================================================================
