---------------------------- MODULE HistoryQuery ----------------------------
(***************************************************************************)
(* Queries on histories (pkg/history): FindLatest of each backend, of the  *)
(* records whose times are in a range, as they are in a state of module    *)
(* History.  Of the conditions on states, the loops of memory, bbolt and   *)
(* badger skip only their own iterations.                                  *)
(***************************************************************************)
EXTENDS History, Sequences, Functions

Get(id) == (CHOOSE r \in db : r.id = id).seq

\* From the newest record to the oldest one, until there are enough.
Look(ret, id, range, limit) ==
  IF id \in Ids(db) /\ Get(id) \in range /\ (limit > 0 => Len(ret) < limit)
  THEN Append(ret, Get(id)) ELSE ret
Rows(range, limit) ==
  LET top == Max({0} \cup Ids(db))
      after[n \in 0 .. top] ==
        IF n = 0 THEN <<>> ELSE Look(after[n - 1], top + 1 - n, range, limit)
  IN  after[top]
FindLatestMemory(range, limit) == Rows(range, limit)
FindLatestGorm(range, limit) == Rows(range, limit)

\* A pass of the loop, which reads the record before the one it looks at.  The passes without
\* an older record read into one object ("first", 0 in "ret"), which all of their results are.
Pass(st, range) ==
  IF st.older = 0
  THEN [id    |-> st.id - 2,
        older |-> IF st.id - 1 \in Ids(db) THEN st.id - 1 ELSE 0,
        first |-> st.id,
        ret   |-> IF Get(st.id) \in range THEN Append(st.ret, 0) ELSE st.ret]
  ELSE [st EXCEPT !.id = @ - 1, !.older = st.id,
                  !.ret = IF Get(st.older) \in range THEN Append(@, st.older) ELSE @]

\* At the first missing id, or once there are enough results.
Over(st, limit) ==
  st.id <= 0 \/ st.id \notin Ids(db) \/ (limit > 0 /\ Len(st.ret) >= limit)

Advance(st, range, limit) == IF Over(st, limit) THEN st ELSE Pass(st, range)

Passes(range, limit) ==
  LET after[n \in 0 .. nextId] ==
        IF n = 0 THEN [id |-> nextId - 1, older |-> 0, first |-> 0, ret |-> <<>>]
        ELSE Advance(after[n - 1], range, limit)
  IN  after[nextId]

Scan(range, limit) ==
  LET st == Passes(range, limit)
  IN  [i \in DOMAIN st.ret |-> Get(IF st.ret[i] = 0 THEN st.first ELSE st.ret[i])]

FindLatestBbolt(range, limit) == Scan(range, limit)
FindLatestBadger(range, limit) == Scan(range, limit)
FindLatest(range, limit) ==
  CASE backend = "memory" -> FindLatestMemory(range, limit)
    [] backend = "bbolt"  -> FindLatestBbolt(range, limit)
    [] backend = "badger" -> FindLatestBadger(range, limit)
    [] backend = "gorm"   -> FindLatestGorm(range, limit)

\* The matches, from the newest to the oldest, or as many of the newest ones as the limit allows.
Answers(ret, matches, limit) ==
  /\ Range(ret) \subseteq matches
  /\ \A i, j \in DOMAIN ret : i < j => ret[i] > ret[j]
  /\ limit > 0 => Len(ret) <= limit
  /\ \A x \in matches \ Range(ret) :
       limit > 0 /\ Len(ret) = limit /\ \A i \in DOMAIN ret : ret[i] > x

\* With nothing pending and no missing record, FindLatest gives all records of a range that
\* were not collected, from the newest to the oldest, up to the limit; bbolt and badger leave
\* out the oldest one.
QueryLatest ==
  LET kept == 1 .. seq \ {r.seq : r \in gone}
      all == IF backend \in {"bbolt", "badger"} /\ Cardinality(kept) > 1
             THEN kept \ {Min(kept)} ELSE kept
  IN  base = 0 /\ queue = {} /\ jobs = {} /\ gc = NoGc /\ phase = "up"
      /\ (\A i \in Ids(db) : i + 1 \in Ids(db) \/ i + 1 = nextId)
      => \A lo, hi, limit \in 0 .. MaxSeq[backend] :
           Answers(FindLatest(lo .. hi, limit), all \cap lo .. hi, limit)
=============================================================================
