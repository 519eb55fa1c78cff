--------------------------- MODULE HistoryProofs ---------------------------
(***************************************************************************)
(* Proofs about histories, for any number of records, crashes and sizes of *)
(* batches.  Ids and places of a process's records go up together; this    *)
(* is what makes batches, which are sets of records, lose and repeat none  *)
(* (Accounted), and what the ids that garbage collections compute and that *)
(* the next process starts with are compared with (GcKeepsLatest,          *)
(* ResumesAfter).  That gorm's rows stay whole (RowsWhole) rests on        *)
(* Accounted, and what queries find (QueryLatest) on ids that are places.  *)
(***************************************************************************)
EXTENDS HistoryQuery, FiniteSetTheorems, WellFoundedInduction, TLAPS

Records == [id : Nat, seq : Nat]
Jobs == [recs : SUBSET Records, next : Nat \ {0}, locked : BOOLEAN,
         at : {"new", "times", "ticks", "leaked"}]

TypeOK ==
  /\ backend \in Backends
  /\ seq \in Nat /\ base \in Nat /\ base <= seq /\ nextId \in Nat \ {0} /\ dbNext \in Nat \ {0}
  /\ saved \in Nat /\ savedGc \in Nat /\ crashes \in Nat /\ swapped \in BOOLEAN
  /\ queue \in SUBSET Records /\ db \in SUBSET Records /\ gone \in SUBSET Records
  /\ jobs \in SUBSET Jobs
  /\ gc \in [at : {"none", "start", "batch", "ticks"}, from : Nat, to : Nat]

Finite == IsFiniteSet(queue) /\ IsFiniteSet(db) /\ \A j \in jobs : IsFiniteSet(j.recs)

\* A record of this process.
Own(r) == r.seq > base /\ r.seq <= seq /\ r.id - r.seq = nextId - 1 - seq

\* A job that has yet to write its records.
Waits(j) == j.at \in {"new", "times"}

Owned ==
  /\ nextId > seq - base
  /\ \A r \in queue : Own(r)
  /\ \A j \in jobs : \A r \in j.recs : Own(r)
  /\ \A r \in db \cup gone : r.seq <= seq
  /\ \A r \in db : r.seq > base => Own(r)

\* No record is in two places.
Apart ==
  /\ \A j \in jobs : \A r \in j.recs : r \notin queue
  /\ \A j, k \in jobs : \A r \in j.recs : r \in k.recs => j = k
  /\ \A r \in queue : r \notin db /\ r \notin gone
  /\ \A j \in jobs : Waits(j) => \A r \in j.recs : r \notin db /\ r \notin gone

\* And each one is in some place.
Held(n) ==
  \E r \in Records :
    /\ r.seq = n
    /\ r \in queue \/ r \in db \/ r \in gone \/ \E j \in jobs : Waits(j) /\ r \in j.recs

Ledger == Owned /\ Apart /\ \A n \in Nat : base < n /\ n <= seq => Held(n)

-----------------------------------------------------------------------------
(* Types *)

\* TransitionEnd makes a record.
LEMMA RecordType == ASSUME TypeOK PROVE Record(nextId, seq + 1) \in Records
BY DEF TypeOK, Record, Records

\* Steps of other things than records.
Idle ==
  \/ TracerIn \/ TransitionSkipped \/ TransitionEndExpired \/ Cancel \/ SyncLock
  \/ DisposeStart \/ DisposeClose \/ DisposeDetach
  \/ UNCHANGED vars

LEMMA IdleKeeps ==
  ASSUME Idle
  PROVE  /\ UNCHANGED <<backend, base, crashes, seq, nextId, queue, jobs, saved, savedGc, gc, db,
                        ticks, dbNext, swapped, gone>>
         /\ phase' = "up" => phase = "up"
<1>1. CASE TracerIn \/ TransitionSkipped \/ Cancel \/ SyncLock \/ UNCHANGED vars
  BY <1>1 DEF TracerIn, TransitionSkipped, Cancel, SyncLock, life, disk, vars
<1>2. CASE TransitionEndExpired
  BY <1>2 DEF TransitionEndExpired, life, disk
<1>3. CASE DisposeStart \/ DisposeClose \/ DisposeDetach
  BY <1>3 DEF DisposeStart, DisposeClose, DisposeDetach, DisposeRest, life
<1> QED BY <1>1, <1>2, <1>3 DEF Idle

LEMMA NextCases ==
  ASSUME [Next]_vars
  PROVE  \/ Idle \/ TransitionEndMemory \/ TransitionEnd \/ Save
         \/ GcBbolt \/ GcBadger \/ GcGorm \/ Sync \/ DisposeLock \/ MachineInit
BY DEF Next, Traced, Goroutines, Idle

\* The steps of a job: it wrote its records, failed to, or, in gorm, did one of three
\* things in order.
Moved(j, at) ==
  \E k \in Jobs : /\ k.recs = j.recs /\ k.next = j.next /\ k.at = at
                 /\ jobs' = (jobs \ {j}) \cup {k}
Wrote(j) ==
  /\ backend \in {"bbolt", "badger"} /\ jobs' = jobs \ {j} /\ db' = Put(j.recs)
  /\ dbNext' = j.next /\ saved' = saved + Cardinality(j.recs)
  /\ swapped' = (swapped \/ j.next < dbNext) /\ UNCHANGED <<ticks, gone>>
Lost(j) ==
  /\ IF backend = "gorm" THEN Waits(j) ELSE jobs' = jobs \ {j}
  /\ jobs' = jobs \ {j} \/ (phase # "up" /\ Moved(j, "leaked"))
  /\ gone' = gone \cup j.recs /\ UNCHANGED <<db, ticks, dbNext, saved, swapped>>
WroteMachine(j) ==
  /\ backend = "gorm" /\ j.at = "new" /\ Moved(j, "times")
  /\ dbNext' = j.next /\ swapped' = (swapped \/ j.next < dbNext)
  /\ UNCHANGED <<db, ticks, gone, saved>>
WroteTimes(j) ==
  /\ backend = "gorm" /\ j.at = "times" /\ Ids(j.recs) \cap Ids(db) = {} /\ Moved(j, "ticks")
  /\ db' = db \cup j.recs /\ UNCHANGED <<ticks, dbNext, gone, saved, swapped>>
WroteTicks(j) ==
  /\ backend = "gorm" /\ j.at = "ticks" /\ jobs' = jobs \ {j}
  /\ ticks' = IF Closed THEN ticks ELSE ticks \cup Ids(j.recs)
  /\ UNCHANGED <<db, dbNext, gone, saved, swapped>>

LEMMA SaveCases ==
  ASSUME TypeOK, Save
  PROVE  /\ \E j \in jobs : \/ Wrote(j) \/ Lost(j) \/ WroteMachine(j) \/ WroteTimes(j)
                            \/ WroteTicks(j)
         /\ UNCHANGED <<backend, base, crashes, seq, nextId, queue, savedGc, gc, phase>>
<1>1. PICK j \in jobs : SaveBbolt(j) \/ SaveBadger(j) \/ SaveGorm(j)
  BY DEF Save
<1>2. ASSUME NEW at \in {"times", "ticks", "leaked"}, Step(j, at)
      PROVE  Moved(j, at)
  <2> DEFINE k == [j EXCEPT !.at = at]
  <2>1. k \in Jobs /\ k.recs = j.recs /\ k.next = j.next /\ k.at = at
    BY DEF TypeOK, Jobs
  <2>2. jobs' = (jobs \ {j}) \cup {k}
    BY <1>2 DEF Step
  <2> HIDE DEF k
  <2> QED BY <2>1, <2>2 DEF Moved
<1>3. ASSUME SaveBbolt(j) PROVE Wrote(j) \/ Lost(j)
  BY <1>3 DEF SaveBbolt, Wrote, Lost, NotSaved, End, disk
<1>4. ASSUME SaveBadger(j) PROVE Wrote(j) \/ Lost(j)
  BY <1>4 DEF SaveBadger, Wrote, Lost, NotSaved, End, disk
<1>5. ASSUME SaveGorm(j)
      PROVE  Lost(j) \/ WroteMachine(j) \/ WroteTimes(j) \/ WroteTicks(j)
  <2>1. CASE j.at = "new" /\ phase # "up"
    BY <1>2, <1>5, <2>1 DEF SaveGorm, Lost, NotSaved, End, Waits, disk
  <2>2. CASE j.at = "new" /\ phase = "up"
    BY <1>2, <1>5, <2>2 DEF SaveGorm, WroteMachine
  <2>3. CASE j.at = "times" /\ ~Closed /\ Ids(j.recs) \cap Ids(db) = {}
    BY <1>2, <1>5, <2>3 DEF SaveGorm, WroteTimes
  <2>4. CASE j.at = "times" /\ (Closed \/ Ids(j.recs) \cap Ids(db) # {})
    BY <1>5, <2>4 DEF SaveGorm, Lost, NotSaved, End, Waits, disk
  <2>5. CASE j.at = "ticks"
    BY <1>5, <2>5 DEF SaveGorm, WroteTicks, End
  <2> QED BY <1>5, <2>1, <2>2, <2>3, <2>4, <2>5 DEF SaveGorm
<1>6. UNCHANGED <<backend, base, crashes, seq, nextId, queue, savedGc, gc, phase>>
  BY DEF Save, life
<1> QED BY <1>1, <1>3, <1>4, <1>5, <1>6

LEMMA InitType == Init => TypeOK /\ Finite
<1> SUFFICES ASSUME Init PROVE TypeOK /\ Finite
  OBVIOUS
<1>1. TypeOK
  <2>1. gc \in [at : {"none", "start", "batch", "ticks"}, from : Nat, to : Nat]
    BY DEF Init, NoGc
  <2>2. swapped \in BOOLEAN
    BY Zenon DEF Init
  <2> QED BY <2>1, <2>2 DEF Init, TypeOK
<1>2. Finite
  BY FS_EmptySet DEF Init, Finite
<1> QED BY <1>1, <1>2

\* What a full batch, or Sync, makes of the queued records.
LEMMA WriteDbType ==
  ASSUME TypeOK, Finite, NEW recs \in SUBSET Records, IsFiniteSet(recs), NEW next \in Nat \ {0},
         NEW locked \in BOOLEAN, WriteDb(recs, next, locked)
  PROVE  /\ queue' \in SUBSET Records /\ IsFiniteSet(queue')
         /\ jobs' \in SUBSET Jobs /\ \A j \in jobs' : IsFiniteSet(j.recs)
<1> DEFINE J == [recs |-> recs, next |-> next, locked |-> locked, at |-> "new"]
<1>1. J \in Jobs /\ J.recs = recs
  BY DEF Jobs
<1>2. queue' = {} /\ jobs' \in {jobs, jobs \cup {J}}
  BY DEF WriteDb
<1> HIDE DEF J
<1>3. IsFiniteSet(queue')
  BY <1>2, FS_EmptySet
<1> QED BY <1>1, <1>2, <1>3 DEF TypeOK, Finite

LEMMA SaveType ==
  ASSUME TypeOK, Finite, Save
  PROVE  TypeOK' /\ Finite'
<1>1. PICK j \in jobs : Wrote(j) \/ Lost(j) \/ WroteMachine(j) \/ WroteTimes(j) \/ WroteTicks(j)
  BY SaveCases
<1>2. /\ j \in Jobs /\ j.recs \in SUBSET Records /\ j.next \in Nat \ {0} /\ IsFiniteSet(j.recs)
      /\ Cardinality(j.recs) \in Nat
  BY FS_CardinalityType DEF TypeOK, Finite, Jobs
<1>3. UNCHANGED <<backend, base, crashes, seq, nextId, queue, savedGc, gc>>
  BY SaveCases
<1>4. jobs' = jobs \ {j} \/ \E k \in Jobs : k.recs = j.recs /\ jobs' = (jobs \ {j}) \cup {k}
  BY <1>1 DEF Wrote, Lost, WroteMachine, WroteTimes, WroteTicks, Moved
<1>5. jobs' \in SUBSET Jobs /\ \A k \in jobs' : IsFiniteSet(k.recs)
  BY <1>2, <1>4 DEF TypeOK, Finite
<1>6. db' \in {db, Put(j.recs), db \cup j.recs} /\ gone' \in {gone, gone \cup j.recs}
  BY <1>1 DEF Wrote, Lost, WroteMachine, WroteTimes, WroteTicks
<1>7. db' \in SUBSET Records /\ gone' \in SUBSET Records /\ db' \subseteq db \cup j.recs
  BY <1>2, <1>6 DEF TypeOK, Put
<1>8. IsFiniteSet(db')
  BY <1>2, <1>7, FS_Union, FS_Subset, Zenon DEF Finite
<1>9. /\ dbNext' \in {dbNext, j.next} /\ saved' \in {saved, saved + Cardinality(j.recs)}
      /\ swapped' \in {swapped, swapped \/ j.next < dbNext}
  BY <1>1 DEF Wrote, Lost, WroteMachine, WroteTimes, WroteTicks
<1>10. dbNext' \in Nat \ {0} /\ saved' \in Nat
  BY <1>2, <1>9 DEF TypeOK
<1>11. swapped' \in BOOLEAN
  BY <1>9, Zenon DEF TypeOK
<1>12. TypeOK'
  BY <1>3, <1>5, <1>7, <1>10, <1>11 DEF TypeOK
<1>13. Finite'
  BY <1>3, <1>5, <1>8 DEF Finite
<1> QED BY <1>12, <1>13

\* Collections, and Dispose of the memory.
LEMMA DeleteType ==
  ASSUME TypeOK, Finite, NEW recs \in SUBSET db, Delete(recs)
  PROVE  /\ db' \in SUBSET Records /\ gone' \in SUBSET Records /\ IsFiniteSet(db')
BY FS_Difference, Zenon DEF Delete, TypeOK, Finite

LEMMA GcCases ==
  ASSUME GcBbolt \/ GcBadger \/ GcGorm
  PROVE  /\ UNCHANGED <<backend, base, crashes, seq, nextId, queue, jobs, saved, dbNext, swapped,
                        phase>>
         /\ UNCHANGED <<db, gone>> \/ \E recs \in SUBSET db : Delete(recs)
<1>1. UNCHANGED <<backend, base, crashes, seq, nextId, queue, jobs, saved, dbNext, swapped, phase>>
  BY DEF GcBbolt, GcBadger, GcGorm, GcRest, life
<1>2. CASE GcBbolt
  BY <1>1, <1>2 DEF GcBbolt
<1>3. CASE GcBadger
  BY <1>1, <1>3 DEF GcBadger
<1>4. CASE GcGorm
  BY <1>1, <1>4 DEF GcGorm
<1> QED BY <1>2, <1>3, <1>4

LEMMA GcType ==
  ASSUME TypeOK, Finite, GcBbolt \/ GcBadger \/ GcGorm
  PROVE  TypeOK' /\ Finite'
<1>1. db' \in SUBSET Records /\ gone' \in SUBSET Records /\ IsFiniteSet(db')
  BY GcCases, DeleteType DEF TypeOK, Finite
<1>2. GcUpper \in Nat
  BY HistoryAssumption DEF GcUpper, TypeOK
<1>3. gc' \in [at : {"none", "start", "batch", "ticks"}, from : Nat, to : Nat]
  <2>1. CASE gc' = NoGc
    BY <2>1 DEF NoGc
  <2>2. CASE gc' = [at |-> "batch", from |-> 1, to |-> GcUpper]
    BY <1>2, <2>2
  <2>3. CASE gc' = [gc EXCEPT !.from = @ + GcSize]
    BY <2>3, HistoryAssumption DEF TypeOK
  <2>4. CASE gc' = [gc EXCEPT !.at = "ticks"]
    BY <2>4 DEF TypeOK
  <2> QED BY <2>1, <2>2, <2>3, <2>4 DEF GcBbolt, GcBadger, GcGorm, GcDone
<1>4. savedGc' \in Nat
  BY DEF GcBbolt, GcBadger, GcGorm, GcDone, TypeOK
<1>5. TypeOK'
  BY <1>1, <1>3, <1>4, GcCases DEF TypeOK
<1>6. Finite'
  BY <1>1, GcCases DEF Finite
<1> QED BY <1>5, <1>6

\* Tracers of the other backends queue a record, and write a full batch.
LEMMA TracedCases ==
  ASSUME TransitionEnd
  PROVE  /\ UNCHANGED <<backend, base, crashes, saved, savedGc, phase, db, ticks, dbNext, swapped,
                        gone>>
         /\ seq' = seq + 1 /\ nextId' = nextId + 1 /\ backend # "memory"
         /\ LET q == queue \cup {Record(nextId, seq + 1)}
            IN  \/ WriteDb(q, nextId + 1, TRUE) /\ IF backend = "gorm" THEN CheckGcGorm ELSE CheckGc
                \/ queue' = q /\ UNCHANGED <<jobs, gc>>
<1>1. CASE TransitionEndBbolt
  BY <1>1, Zenon DEF TransitionEndBbolt, Enqueue, life, disk
<1>2. CASE TransitionEndBadger
  BY <1>2, Zenon DEF TransitionEndBadger, Enqueue, life, disk
<1>3. CASE TransitionEndGorm
  BY <1>3, Zenon DEF TransitionEndGorm, Enqueue, life, disk
<1> QED BY <1>1, <1>2, <1>3, Zenon DEF TransitionEnd

LEMMA TracedType ==
  ASSUME TypeOK, Finite, TransitionEnd
  PROVE  TypeOK' /\ Finite'
<1> DEFINE q == queue \cup {Record(nextId, seq + 1)}
<1>1. q \in SUBSET Records
  BY RecordType DEF TypeOK
<1>2. IsFiniteSet(q)
  BY FS_AddElement DEF Finite
<1> HIDE DEF q
<1>3. WriteDb(q, nextId + 1, TRUE) \/ (queue' = q /\ UNCHANGED jobs)
  BY TracedCases, Zenon DEF q
<1>4. nextId + 1 \in Nat \ {0} /\ TRUE \in BOOLEAN
  BY DEF TypeOK
<1>5. /\ queue' \in SUBSET Records /\ IsFiniteSet(queue')
      /\ jobs' \in SUBSET Jobs /\ \A j \in jobs' : IsFiniteSet(j.recs)
  <2>1. CASE WriteDb(q, nextId + 1, TRUE)
    BY <1>1, <1>2, <1>4, <2>1, WriteDbType, Zenon
  <2>2. CASE queue' = q /\ UNCHANGED jobs
    BY <1>1, <1>2, <2>2 DEF TypeOK, Finite
  <2> QED BY <1>3, <2>1, <2>2, Zenon
<1>6. gc' = gc \/ gc' = [at |-> "start", from |-> 0, to |-> 0]
  BY TracedCases, Zenon DEF CheckGc, CheckGcGorm
<1>7. gc' \in [at : {"none", "start", "batch", "ticks"}, from : Nat, to : Nat]
  BY <1>6 DEF TypeOK
<1>8. TypeOK'
  BY <1>5, <1>7, TracedCases DEF TypeOK
<1>9. Finite'
  BY <1>5, TracedCases DEF Finite
<1> QED BY <1>8, <1>9

\* The memory rotates.
LEMMA MemoryCases ==
  ASSUME TransitionEndMemory
  PROVE  /\ UNCHANGED <<backend, base, crashes, queue, jobs, saved, savedGc, gc, phase, ticks, dbNext,
                        swapped>>
         /\ backend = "memory" /\ seq' = seq + 1 /\ nextId' = nextId + 1
         /\ \E old \in SUBSET db : /\ db' = (db \ old) \cup {Record(nextId, seq + 1)}
                                  /\ gone' = gone \cup old
<1>1. Oldest \in SUBSET db
  BY DEF Oldest
<1> QED BY <1>1, Zenon DEF TransitionEndMemory, life

LEMMA MemoryType ==
  ASSUME TypeOK, Finite, TransitionEndMemory
  PROVE  TypeOK' /\ Finite'
<1>1. PICK old \in SUBSET db : /\ db' = (db \ old) \cup {Record(nextId, seq + 1)}
                              /\ gone' = gone \cup old
  BY MemoryCases
<1>2. db' \in SUBSET Records /\ gone' \in SUBSET Records
  BY <1>1, RecordType DEF TypeOK
<1>3. IsFiniteSet(db')
  BY <1>1, FS_Difference, FS_AddElement, Zenon DEF Finite
<1>4. TypeOK'
  BY <1>2, MemoryCases DEF TypeOK
<1>5. Finite'
  BY <1>3, MemoryCases DEF Finite
<1> QED BY <1>4, <1>5

LEMMA SyncCases ==
  ASSUME Sync
  PROVE  /\ UNCHANGED <<backend, base, crashes, seq, nextId, saved, savedGc, gc, phase, db, ticks,
                        dbNext, swapped, gone>>
         /\ WriteDb(queue, nextId, FALSE)
BY Zenon DEF Sync, life, disk

LEMMA DisposeLockCases ==
  ASSUME DisposeLock
  PROVE  /\ UNCHANGED <<backend, base, crashes, seq, nextId, queue, jobs, saved, savedGc, gc, ticks,
                        dbNext, swapped>>
         /\ UNCHANGED <<db, gone>> \/ (backend = "memory" /\ Delete(db))
         /\ phase' # "up" /\ phase' # phase
BY DEF DisposeLock, DisposeRest, life

LEMMA MachineInitCases ==
  ASSUME TypeOK, MachineInit
  PROVE  /\ UNCHANGED <<backend, seq, ticks, swapped>>
         /\ base' = seq /\ queue' = {} /\ jobs' = {} /\ saved' = 0 /\ savedGc' = 0 /\ gc' = NoGc
         /\ nextId' \in {1, dbNext} /\ dbNext' = nextId' /\ db' \in {{}, db} /\ gone' = {}
         /\ crashes' = crashes + 1
         /\ backend \in {"badger", "gorm"} => nextId' = dbNext
<1>1. backend \in {"memory", "bbolt", "badger", "gorm"}
  BY HistoryAssumption DEF TypeOK
<1> QED BY <1>1 DEF MachineInit, GetMachineBbolt, GetMachineBadger, GetMachineGorm

LEMMA TypeStep ==
  ASSUME TypeOK, Finite, [Next]_vars
  PROVE  TypeOK' /\ Finite'
<1>1. CASE Idle
  BY <1>1, IdleKeeps DEF TypeOK, Finite
<1>2. CASE Sync
  <2>1. /\ queue' \in SUBSET Records /\ IsFiniteSet(queue')
        /\ jobs' \in SUBSET Jobs /\ \A j \in jobs' : IsFiniteSet(j.recs)
    BY <1>2, SyncCases, WriteDbType, Zenon DEF TypeOK, Finite
  <2> QED BY <1>2, <2>1, SyncCases DEF TypeOK, Finite
<1>3. CASE DisposeLock
  <2>1. db' \in SUBSET Records /\ gone' \in SUBSET Records /\ IsFiniteSet(db')
    BY <1>3, DisposeLockCases, DeleteType DEF TypeOK, Finite
  <2> QED BY <1>3, <2>1, DisposeLockCases DEF TypeOK, Finite
<1>4. CASE MachineInit
  <2>1. IsFiniteSet(queue') /\ IsFiniteSet(db')
    BY <1>4, MachineInitCases, FS_EmptySet DEF Finite
  <2>2. gc' \in [at : {"none", "start", "batch", "ticks"}, from : Nat, to : Nat]
    BY <1>4, MachineInitCases DEF NoGc
  <2>3. TypeOK'
    BY <1>4, <2>2, MachineInitCases DEF TypeOK
  <2> QED BY <1>4, <2>1, <2>3, MachineInitCases DEF Finite
<1> QED BY <1>1, <1>2, <1>3, <1>4, NextCases, MemoryType, TracedType, SaveType, GcType

-----------------------------------------------------------------------------
(* Where records are *)

LEMMA InitLedger == Init => Ledger
BY DEF Init, Ledger, Owned, Apart

\* Ids and places of a process go up together, so each tells the other.
LEMMA SameRecord ==
  ASSUME TypeOK, NEW r \in Records, NEW s \in Records, Own(r), Own(s), r.id = s.id \/ r.seq = s.seq
  PROVE  r = s
BY DEF TypeOK, Own, Records

\* The next record is new.
LEMMA NewRecord ==
  ASSUME TypeOK, Owned, seq' = seq + 1, nextId' = nextId + 1, UNCHANGED base
  PROVE  \E new \in Records :
           /\ new = Record(nextId, seq + 1) /\ new.seq = seq + 1 /\ Own(new)'
           /\ \A r \in Records : Own(r) => Own(r)' /\ r # new
           /\ \A r \in db \cup gone : r.seq <= seq' /\ r # new
<1>1. PICK new \in Records : new = Record(nextId, seq + 1) /\ new.id = nextId /\ new.seq = seq + 1
  BY RecordType DEF Record
<1>2. Own(new)'
  BY <1>1 DEF Own, TypeOK
<1>3. \A r \in Records : Own(r) => Own(r)' /\ r # new
  BY <1>1 DEF Own, TypeOK, Records
<1>4. \A r \in db \cup gone : r.seq <= seq' /\ r # new
  BY <1>1 DEF Owned, TypeOK, Records
<1> QED BY <1>1, <1>2, <1>3, <1>4

LEMMA MemoryLedger ==
  ASSUME TypeOK, Ledger, TransitionEndMemory
  PROVE  Ledger'
<1>1. UNCHANGED <<base, queue, jobs>> /\ seq' = seq + 1 /\ nextId' = nextId + 1
  BY MemoryCases
<1>2. PICK new \in Records :
        /\ new = Record(nextId, seq + 1) /\ new.seq = seq + 1 /\ Own(new)'
        /\ \A r \in Records : Own(r) => Own(r)' /\ r # new
        /\ \A r \in db \cup gone : r.seq <= seq' /\ r # new
  BY <1>1, NewRecord DEF Ledger
<1>3. PICK old \in SUBSET db : db' = (db \ old) \cup {new} /\ gone' = gone \cup old
  BY <1>2, MemoryCases
<1>4. Owned'
  <2>1. nextId' > seq' - base'
    BY <1>1 DEF TypeOK, Ledger, Owned
  <2>2. /\ \A r \in queue' : Own(r)'
        /\ \A j \in jobs' : \A r \in j.recs : Own(r)'
    BY <1>1, <1>2 DEF TypeOK, Ledger, Owned, Jobs
  <2>3. \A r \in db' \cup gone' : r.seq <= seq'
    BY <1>3, <1>1, <1>2 DEF TypeOK
  <2>4. \A r \in db' : r.seq > base' => Own(r)'
    BY <1>3, <1>1, <1>2 DEF TypeOK, Ledger, Owned
  <2> QED BY <2>1, <2>2, <2>3, <2>4 DEF Owned
<1>5. Apart'
  BY <1>3, <1>1, <1>2 DEF TypeOK, Ledger, Owned, Apart, Jobs, Waits
<1>6. ASSUME NEW n \in Nat, base < n, n <= seq + 1
      PROVE  Held(n)'
  <2>1. CASE n = seq + 1
    BY <1>3, <1>2, <2>1 DEF Held
  <2>2. CASE n # seq + 1
    <3>1. Held(n)
      BY <1>6, <2>2 DEF TypeOK, Ledger
    <3> QED BY <1>3, <1>1, <3>1 DEF Held
  <2> QED BY <2>1, <2>2
<1> QED BY <1>1, <1>4, <1>5, <1>6 DEF Ledger

\* writeDb of some records.
LEMMA WriteDbCases ==
  ASSUME NEW recs \in SUBSET Records, recs # {}, NEW next \in Nat \ {0}, NEW locked \in BOOLEAN,
         WriteDb(recs, next, locked)
  PROVE  /\ queue' = {}
         /\ \E J \in Jobs : J.recs = recs /\ J.next = next /\ J.at = "new" /\ jobs' = jobs \cup {J}
<1> DEFINE J == [recs |-> recs, next |-> next, locked |-> locked, at |-> "new"]
<1>1. J \in Jobs /\ J.recs = recs /\ J.next = next /\ J.at = "new"
  BY DEF Jobs
<1>2. queue' = {} /\ jobs' = jobs \cup {J}
  BY DEF WriteDb
<1> HIDE DEF J
<1> QED BY <1>1, <1>2

LEMMA TracedLedger ==
  ASSUME TypeOK, Ledger, TransitionEnd
  PROVE  Ledger'
<1>1. UNCHANGED <<base, db, gone>> /\ seq' = seq + 1 /\ nextId' = nextId + 1
  BY TracedCases
<1>2. PICK new \in Records :
        /\ new = Record(nextId, seq + 1) /\ new.seq = seq + 1 /\ Own(new)'
        /\ \A r \in Records : Own(r) => Own(r)' /\ r # new
        /\ \A r \in db \cup gone : r.seq <= seq' /\ r # new
  BY <1>1, NewRecord DEF Ledger
<1>3. nextId' > seq' - base'
  BY <1>1 DEF TypeOK, Ledger, Owned
<1>4. /\ \A r \in db' \cup gone' : r.seq <= seq'
      /\ \A r \in db' : r.seq > base' => Own(r)'
  BY <1>1, <1>2 DEF TypeOK, Ledger, Owned
<1>5. /\ \A r \in queue : Own(r)' /\ r # new
      /\ \A j \in jobs : \A r \in j.recs : Own(r)' /\ r # new
  BY <1>2 DEF TypeOK, Ledger, Owned, Jobs
<1>6. ASSUME NEW n \in Nat, base < n, n <= seq + 1, n # seq + 1
      PROVE  Held(n)
  BY <1>6 DEF TypeOK, Ledger
<1>7. CASE queue' = queue \cup {new} /\ UNCHANGED jobs
  <2>1. Owned'
    BY <1>2, <1>3, <1>4, <1>5, <1>7 DEF Owned
  <2>2. Apart'
    BY <1>1, <1>2, <1>5, <1>7 DEF Ledger, Apart, Waits
  <2>3. ASSUME NEW n \in Nat, base < n, n <= seq + 1
        PROVE  Held(n)'
    <3>1. CASE n = seq + 1
      BY <1>2, <1>7, <3>1 DEF Held
    <3>2. CASE n # seq + 1
      BY <1>1, <1>6, <1>7, <2>3, <3>2 DEF Held
    <3> QED BY <3>1, <3>2
  <2> QED BY <1>1, <2>1, <2>2, <2>3 DEF Ledger
<1>8. CASE WriteDb(queue \cup {new}, nextId + 1, TRUE)
  <2>1. /\ queue \cup {new} \in SUBSET Records /\ queue \cup {new} # {} /\ nextId + 1 \in Nat \ {0}
        /\ TRUE \in BOOLEAN
    BY DEF TypeOK
  <2>2. PICK J \in Jobs : J.recs = queue \cup {new} /\ J.at = "new" /\ jobs' = jobs \cup {J}
    BY <1>8, <2>1, WriteDbCases, Zenon
  <2>3. queue' = {}
    BY <1>8 DEF WriteDb
  <2>4. \A j \in jobs' : \A r \in j.recs : Own(r)'
    BY <1>2, <1>5, <2>2
  <2>5. Owned'
    BY <1>3, <1>4, <2>3, <2>4 DEF Owned
  <2>6. \A j, k \in jobs' : \A r \in j.recs : r \in k.recs => j = k
    BY <1>5, <2>2 DEF Ledger, Apart
  <2>7. \A j \in jobs' : Waits(j) => \A r \in j.recs : r \notin db /\ r \notin gone
    BY <1>2, <2>2 DEF Ledger, Apart
  <2>8. Apart'
    BY <1>1, <2>3, <2>6, <2>7 DEF Apart, Waits
  <2>9. ASSUME NEW n \in Nat, base < n, n <= seq + 1
        PROVE  Held(n)'
    <3>1. CASE n = seq + 1
      BY <1>2, <2>2, <3>1 DEF Held, Waits
    <3>2. CASE n # seq + 1
      BY <1>1, <1>6, <2>2, <2>9, <3>2 DEF Held, Waits
    <3> QED BY <3>1, <3>2
  <2> QED BY <1>1, <2>5, <2>8, <2>9 DEF Ledger
<1> QED BY <1>2, <1>7, <1>8, TracedCases, Zenon

LEMMA SyncLedger ==
  ASSUME TypeOK, Ledger, Sync
  PROVE  Ledger'
<1>1. UNCHANGED <<base, seq, nextId, db, gone>> /\ WriteDb(queue, nextId, FALSE)
  BY SyncCases, Zenon
<1>2. \A r : Own(r)' <=> Own(r)
  BY <1>1 DEF Own
<1>3. CASE queue = {}
  <2>1. UNCHANGED <<queue, jobs>>
    BY <1>1, <1>3 DEF WriteDb
  <2> QED BY <1>1, <1>2, <2>1 DEF Ledger, Owned, Apart, Held
<1>4. CASE queue # {}
  <2>1. queue \in SUBSET Records /\ nextId \in Nat \ {0} /\ FALSE \in BOOLEAN
    BY DEF TypeOK
  <2>2. PICK J \in Jobs : J.recs = queue /\ J.at = "new" /\ jobs' = jobs \cup {J}
    BY <1>1, <1>4, <2>1, WriteDbCases, Zenon
  <2>3. queue' = {}
    BY <1>1 DEF WriteDb
  <2>4. Owned'
    BY <1>1, <1>2, <2>2, <2>3 DEF Ledger, Owned
  <2>5. \A j, k \in jobs' : \A r \in j.recs : r \in k.recs => j = k
    BY <2>2 DEF Ledger, Apart
  <2>6. \A j \in jobs' : Waits(j) => \A r \in j.recs : r \notin db /\ r \notin gone
    BY <2>2 DEF Ledger, Apart
  <2>7. Apart'
    BY <1>1, <2>3, <2>5, <2>6 DEF Apart, Waits
  <2>8. ASSUME NEW n \in Nat, base < n, n <= seq
        PROVE  Held(n)'
    BY <1>1, <2>2, <2>8 DEF Ledger, Held, Waits
  <2> QED BY <1>1, <2>4, <2>7, <2>8 DEF Ledger
<1> QED BY <1>3, <1>4

\* Records that are deleted are gone.
LEMMA DeleteLedger ==
  ASSUME TypeOK, Ledger, UNCHANGED <<base, seq, nextId, queue, jobs>>,
         UNCHANGED <<db, gone>> \/ \E recs \in SUBSET db : Delete(recs)
  PROVE  Ledger'
<1>1. db' \subseteq db /\ \A r : r \in db' \/ r \in gone' <=> r \in db \/ r \in gone
  BY DEF Delete
<1>2. \A r : Own(r)' <=> Own(r)
  BY DEF Own
<1>3. Owned'
  BY <1>1, <1>2 DEF Ledger, Owned
<1>4. Apart'
  BY <1>1 DEF Ledger, Apart
<1>5. ASSUME NEW n \in Nat, Held(n) PROVE Held(n)'
  BY <1>1, <1>5 DEF Held
<1> QED BY <1>3, <1>4, <1>5 DEF Ledger

\* The next process has no record yet.
LEMMA MachineInitLedger ==
  ASSUME TypeOK, Ledger, MachineInit
  PROVE  Ledger'
<1>1. /\ base' = seq /\ seq' = seq /\ queue' = {} /\ jobs' = {} /\ gone' = {} /\ db' \subseteq db
      /\ nextId' \in {1, dbNext}
  BY MachineInitCases
<1>2. seq \in Nat /\ nextId' \in Nat \ {0} /\ \A r \in db : r.seq \in Nat /\ r.seq <= seq
  BY <1>1 DEF TypeOK, Ledger, Owned, Records
<1>3. Owned'
  BY <1>1, <1>2 DEF Owned
<1>4. Apart'
  BY <1>1 DEF Apart
<1> QED BY <1>1, <1>2, <1>3, <1>4 DEF Ledger

\* A job goes on, to "after" unless it ends.  It may write or give up its records, and may
\* replace saved ones of the same ids, which are of earlier processes.
LEMMA MoveLedger ==
  ASSUME TypeOK, Ledger, NEW j \in jobs, UNCHANGED <<base, seq, nextId, queue>>,
         NEW after \in SUBSET Jobs, \A k \in after : k.recs = j.recs, \A k, l \in after : k = l,
         jobs' = (jobs \ {j}) \cup after,
         db' \subseteq db \cup j.recs, gone' \subseteq gone \cup j.recs, gone \subseteq gone',
         \A r \in db : r \in db' \/ \E s \in j.recs : s \in db' /\ s.id = r.id,
         \/ UNCHANGED <<db, gone>> /\ (Waits(j) <=> \E k \in after : Waits(k))
         \/ (j.recs \subseteq db' \/ j.recs \subseteq gone') /\ \A k \in after : ~Waits(k)
  PROVE  Ledger'
<1>1. j \in Jobs /\ j.recs \subseteq Records /\ \A r \in j.recs : Own(r) /\ r.seq <= seq
  BY DEF TypeOK, Ledger, Owned, Jobs, Own
<1>2. \A r : Own(r)' <=> Own(r)
  BY DEF Own
<1>3. \A k \in jobs' : \A r \in k.recs : Own(r)
  BY <1>1 DEF Ledger, Owned
<1>4. \A r \in db' \cup gone' : r.seq <= seq
  BY <1>1 DEF Ledger, Owned
<1>5. \A r \in db' : r.seq > base => Own(r)
  BY <1>1 DEF Ledger, Owned
<1>6. Owned'
  BY <1>2, <1>3, <1>4, <1>5 DEF Ledger, Owned
<1>7. \A k \in jobs' : \A r \in k.recs : r \notin queue
  BY DEF Ledger, Apart
<1>8. \A r \in queue : r \notin db' /\ r \notin gone'
  BY DEF Ledger, Apart
<1>9. \A k, l \in jobs' : \A r \in k.recs : r \in l.recs => k = l
  BY DEF Ledger, Apart
<1>10. \A k \in jobs' : Waits(k) => \A r \in k.recs : r \notin db' /\ r \notin gone'
  <2>1. CASE UNCHANGED <<db, gone>> /\ (Waits(j) <=> \E k \in after : Waits(k))
    BY <2>1 DEF Ledger, Apart
  <2>2. CASE \A k \in after : ~Waits(k)
    BY <2>2 DEF Ledger, Apart
  <2> QED BY <2>1, <2>2
<1>11. Apart'
  BY <1>7, <1>8, <1>9, <1>10 DEF Apart, Waits
<1>12. ASSUME NEW n \in Nat, base < n, n <= seq
       PROVE  Held(n)'
  <2>1. PICK r \in Records :
          /\ r.seq = n
          /\ r \in queue \/ r \in db \/ r \in gone \/ \E k \in jobs : Waits(k) /\ r \in k.recs
    BY <1>12 DEF Ledger, Held
  <2>2. CASE r \in queue \/ r \in gone
    BY <2>1, <2>2 DEF Held
  <2>3. CASE r \in db
    <3>1. Own(r)
      BY <1>12, <2>1, <2>3 DEF Ledger, Owned
    <3>2. r \in db'
      BY <1>1, <2>3, <3>1, SameRecord
    <3> QED BY <2>1, <3>2 DEF Held
  <2>4. ASSUME NEW k \in jobs, Waits(k), r \in k.recs
        PROVE  Held(n)'
    <3>1. CASE k # j
      BY <2>1, <2>4, <3>1 DEF Held, Waits
    <3>2. CASE k = j
      BY <2>1, <2>4, <3>2 DEF Held, Waits
    <3> QED BY <3>1, <3>2
  <2> QED BY <2>1, <2>2, <2>3, <2>4
<1> QED BY <1>6, <1>11, <1>12 DEF Ledger

LEMMA SaveLedger ==
  ASSUME TypeOK, Ledger, Save
  PROVE  Ledger'
<1>1. PICK j \in jobs : Wrote(j) \/ Lost(j) \/ WroteMachine(j) \/ WroteTimes(j) \/ WroteTicks(j)
  BY SaveCases
<1>2. UNCHANGED <<base, seq, nextId, queue>>
  BY SaveCases
<1>3. ASSUME NEW k \in Jobs, k.recs = j.recs, jobs' = (jobs \ {j}) \cup {k},
             db' \subseteq db \cup j.recs, gone' \subseteq gone \cup j.recs, gone \subseteq gone',
             db \subseteq db',
             \/ UNCHANGED <<db, gone>> /\ (Waits(j) <=> Waits(k))
             \/ (j.recs \subseteq db' \/ j.recs \subseteq gone') /\ ~Waits(k)
      PROVE  Ledger'
  <2> DEFINE after == {k}
  <2>1. after \in SUBSET Jobs /\ (\A l \in after : l.recs = j.recs) /\ \A l, m \in after : l = m
    BY <1>3
  <2>2. (\E l \in after : Waits(l)) <=> Waits(k)
    OBVIOUS
  <2>3. jobs' = (jobs \ {j}) \cup after
    BY <1>3
  <2> HIDE DEF after
  <2> QED BY <1>2, <1>3, <2>1, <2>2, <2>3, MoveLedger
<1>4. ASSUME jobs' = jobs \ {j},
             db' \subseteq db \cup j.recs, gone' \subseteq gone \cup j.recs, gone \subseteq gone',
             \A r \in db : r \in db' \/ \E s \in j.recs : s \in db' /\ s.id = r.id,
             \/ UNCHANGED <<db, gone>> /\ ~Waits(j)
             \/ j.recs \subseteq db' \/ j.recs \subseteq gone'
      PROVE  Ledger'
  <2>1. {} \in SUBSET Jobs /\ jobs' = (jobs \ {j}) \cup {}
    BY <1>4
  <2> QED BY <1>2, <1>4, <2>1, MoveLedger, Zenon
<1>5. CASE Wrote(j)
  <2>1. jobs' = jobs \ {j} /\ db' = Put(j.recs) /\ gone' = gone
    BY <1>5 DEF Wrote
  <2>2. /\ db' \subseteq db \cup j.recs /\ j.recs \subseteq db'
        /\ \A r \in db : r \in db' \/ \E s \in j.recs : s \in db' /\ s.id = r.id
    BY <2>1 DEF Put, Ids
  <2> QED BY <1>4, <2>1, <2>2
<1>6. CASE Lost(j)
  <2>1. /\ gone' = gone \cup j.recs /\ db' = db
        /\ jobs' = jobs \ {j} \/ \E k \in Jobs : /\ k.recs = j.recs /\ k.at = "leaked"
                                               /\ jobs' = (jobs \ {j}) \cup {k}
    BY <1>6 DEF Lost, Moved
  <2>2. CASE jobs' = jobs \ {j}
    BY <1>4, <2>1, <2>2
  <2>3. ASSUME NEW k \in Jobs, k.recs = j.recs, k.at = "leaked", jobs' = (jobs \ {j}) \cup {k}
        PROVE  Ledger'
    <3>1. ~Waits(k)
      BY <2>3 DEF Waits
    <3> QED BY <1>3, <2>1, <2>3, <3>1
  <2> QED BY <2>1, <2>2, <2>3
<1>7. CASE WroteMachine(j)
  <2>1. PICK k \in Jobs : k.recs = j.recs /\ k.at = "times" /\ jobs' = (jobs \ {j}) \cup {k}
    BY <1>7 DEF WroteMachine, Moved
  <2>2. Waits(j) /\ Waits(k) /\ UNCHANGED <<db, gone>>
    BY <1>7, <2>1 DEF WroteMachine, Waits
  <2> QED BY <1>3, <2>1, <2>2
<1>8. CASE WroteTimes(j)
  <2>1. PICK k \in Jobs : k.recs = j.recs /\ k.at = "ticks" /\ jobs' = (jobs \ {j}) \cup {k}
    BY <1>8 DEF WroteTimes, Moved
  <2>2. ~Waits(k) /\ db' = db \cup j.recs /\ gone' = gone
    BY <1>8, <2>1 DEF WroteTimes, Waits
  <2> QED BY <1>3, <2>1, <2>2
<1>9. CASE WroteTicks(j)
  <2>1. jobs' = jobs \ {j} /\ ~Waits(j) /\ UNCHANGED <<db, gone>>
    BY <1>9 DEF WroteTicks, Waits
  <2> QED BY <1>4, <2>1
<1> QED BY <1>1, <1>5, <1>6, <1>7, <1>8, <1>9

LEMMA LedgerStep ==
  ASSUME TypeOK, Ledger, [Next]_vars
  PROVE  Ledger'
<1>1. CASE Idle
  <2>1. UNCHANGED <<base, seq, nextId, queue, jobs, db, gone>>
    BY <1>1, IdleKeeps
  <2> QED BY <2>1, DeleteLedger
<1>2. CASE GcBbolt \/ GcBadger \/ GcGorm
  BY <1>2, GcCases, DeleteLedger
<1>3. CASE DisposeLock
  <2>1. db \in SUBSET db
    OBVIOUS
  <2> QED BY <1>3, <2>1, DisposeLockCases, DeleteLedger
<1> QED BY <1>1, <1>2, <1>3, NextCases, MemoryLedger, TracedLedger, SyncLedger, SaveLedger,
           MachineInitLedger

\* At most one: any two members are the same.
LEMMA AtMostOne ==
  ASSUME NEW S, \A x, y \in S : x = y
  PROVE  Cardinality(S) <= 1
<1>1. CASE S = {}
  BY <1>1, FS_EmptySet
<1>2. CASE S # {}
  <2>1. PICK x : x \in S
    BY <1>2
  <2>2. S = {x}
    BY <2>1
  <2> QED BY <2>2, FS_Singleton
<1> QED BY <1>1, <1>2

LEMMA LedgerAccounts == ASSUME TypeOK, Ledger PROVE Accounted
<1> SUFFICES ASSUME NEW n \in base + 1 .. seq
             PROVE  /\ Cardinality({r \in queue : r.seq = n}
                          \cup {j \in jobs : /\ j.at \in {"new", "times"}
                                            /\ \E r \in j.recs : r.seq = n}) <= 1
                    /\ \E r \in Pending \cup db \cup gone : r.seq = n
                    /\ ~ \E r \in Pending : r \in db \cup gone
  BY DEF Accounted
<1>1. \A r : r \in Pending <=> r \in queue \/ \E j \in jobs : Waits(j) /\ r \in j.recs
  BY DEF Pending, Waits
<1>2. n \in Nat /\ base < n /\ n <= seq
  BY DEF TypeOK
<1>3. \E r \in Pending \cup db \cup gone : r.seq = n
  BY <1>1, <1>2 DEF Ledger, Held
<1>4. ~ \E r \in Pending : r \in db \cup gone
  BY <1>1 DEF Ledger, Apart
<1>5. ASSUME NEW r, NEW s,
             r \in queue \/ \E j \in jobs : r \in j.recs, s \in queue \/ \E j \in jobs : s \in j.recs,
             r.seq = n, s.seq = n
      PROVE  r = s
  <2>1. r \in Records /\ s \in Records /\ Own(r) /\ Own(s)
    BY <1>5 DEF TypeOK, Jobs, Ledger, Owned
  <2> QED BY <1>5, <2>1, SameRecord
<1> DEFINE Q == {r \in queue : r.seq = n}
           J == {j \in jobs : j.at \in {"new", "times"} /\ \E r \in j.recs : r.seq = n}
<1>6. \A r, s \in Q : r = s
  BY <1>5
<1>7. \A j, k \in J : j = k
  BY <1>5 DEF Ledger, Apart
<1>8. ~ \E r \in Q, j \in J : TRUE
  BY <1>5 DEF Ledger, Apart
<1> HIDE DEF Q, J
<1>9. Cardinality(Q \cup J) <= 1
  BY <1>6, <1>7, <1>8, AtMostOne
<1> QED BY <1>3, <1>4, <1>9 DEF Q, J

\* Records are neither lost nor saved by two jobs, however batches of a queue, calls of
\* Sync, collections and a disposal interleave.
THEOREM AllAccounted == Spec => []Accounted
<1>1. Init => TypeOK /\ Finite /\ Ledger
  BY InitType, InitLedger
<1>2. TypeOK /\ Finite /\ Ledger /\ [Next]_vars => (TypeOK /\ Finite /\ Ledger)'
  BY TypeStep, LedgerStep
<1>3. TypeOK /\ Ledger => Accounted
  BY LedgerAccounts
<1> QED BY <1>1, <1>2, <1>3, PTL DEF Spec

-----------------------------------------------------------------------------
(* Ids of the next process *)

NextIds ==
  /\ dbNext <= nextId
  /\ \A j \in jobs : j.next <= nextId /\ \A r \in j.recs : r.id < j.next
  /\ backend = "gorm" /\ ~swapped => \A j \in jobs : j.at = "times" => j.next <= dbNext
  /\ ResumesAfter

LEMMA InitNextIds == Init => NextIds
BY DEF Init, NextIds, ResumesAfter

LEMMA QueuedIds ==
  ASSUME TypeOK, Ledger
  PROVE  \A r \in queue : r.id < nextId
BY DEF TypeOK, Ledger, Owned, Own, Records

\* A new job, if any, with the records of the queue and the next id.
LEMMA GrowNextIds ==
  ASSUME TypeOK, NextIds, NEW new \in SUBSET Jobs, nextId' >= nextId, nextId' \in Nat,
         jobs' = jobs \cup new, UNCHANGED <<backend, db, dbNext, swapped>>,
         \A J \in new : J.at = "new" /\ J.next <= nextId' /\ \A r \in J.recs : r.id < J.next
  PROVE  NextIds'
<1>1. nextId \in Nat /\ dbNext \in Nat /\ \A j \in jobs : j.next \in Nat
  BY DEF TypeOK, Jobs
<1>2. dbNext' <= nextId'
  BY <1>1 DEF NextIds
<1>3. \A j \in jobs' : j.next <= nextId' /\ \A r \in j.recs : r.id < j.next
  BY <1>1 DEF NextIds
<1>4. backend' = "gorm" /\ ~swapped' => \A j \in jobs' : j.at = "times" => j.next <= dbNext'
  BY DEF NextIds
<1>5. ResumesAfter'
  BY DEF NextIds, ResumesAfter
<1> QED BY <1>2, <1>3, <1>4, <1>5 DEF NextIds

LEMMA TracedNextIds ==
  ASSUME TypeOK, Ledger, NextIds, TransitionEnd
  PROVE  NextIds'
<1>1. PICK new \in Records : new = Record(nextId, seq + 1) /\ new.id = nextId
  BY RecordType DEF Record
<1>2. /\ nextId \in Nat /\ nextId' = nextId + 1 /\ UNCHANGED <<backend, db, dbNext, swapped>>
      /\ nextId' >= nextId /\ nextId' \in Nat
  BY TracedCases DEF TypeOK
<1>3. CASE UNCHANGED jobs
  <2>1. {} \in SUBSET Jobs /\ jobs' = jobs \cup {}
    BY <1>3
  <2> QED BY <1>2, <2>1, GrowNextIds, Zenon
<1>4. CASE WriteDb(queue \cup {new}, nextId + 1, TRUE)
  <2>1. /\ queue \cup {new} \in SUBSET Records /\ queue \cup {new} # {} /\ nextId + 1 \in Nat \ {0}
        /\ TRUE \in BOOLEAN
    BY DEF TypeOK
  <2>2. PICK J \in Jobs : /\ J.recs = queue \cup {new} /\ J.next = nextId + 1 /\ J.at = "new"
                         /\ jobs' = jobs \cup {J}
    BY <1>4, <2>1, WriteDbCases, Zenon
  <2>3. \A r \in J.recs : r.id < J.next
    BY <1>1, <1>2, <2>2, QueuedIds DEF TypeOK, Records
  <2>4. {J} \in SUBSET Jobs /\ J.next <= nextId'
    BY <1>2, <2>2
  <2> QED BY <1>2, <2>2, <2>3, <2>4, GrowNextIds, Zenon
<1> QED BY <1>1, <1>3, <1>4, TracedCases, Zenon

LEMMA SyncNextIds ==
  ASSUME TypeOK, Ledger, NextIds, Sync
  PROVE  NextIds'
<1>0. UNCHANGED <<backend, nextId, db, dbNext, swapped>> /\ WriteDb(queue, nextId, FALSE)
  BY SyncCases, Zenon
<1>1. nextId \in Nat /\ nextId' >= nextId /\ nextId' \in Nat
  BY <1>0 DEF TypeOK
<1>2. CASE queue = {}
  <2>1. {} \in SUBSET Jobs /\ jobs' = jobs \cup {}
    BY <1>0, <1>2 DEF WriteDb
  <2> QED BY <1>0, <1>1, <2>1, GrowNextIds, Zenon
<1>3. CASE queue # {}
  <2>1. queue \in SUBSET Records /\ nextId \in Nat \ {0} /\ FALSE \in BOOLEAN
    BY DEF TypeOK
  <2>2. PICK J \in Jobs : /\ J.recs = queue /\ J.next = nextId /\ J.at = "new"
                         /\ jobs' = jobs \cup {J}
    BY <1>0, <1>3, <2>1, WriteDbCases, Zenon
  <2>3. (\A r \in J.recs : r.id < J.next) /\ {J} \in SUBSET Jobs /\ J.next <= nextId'
    BY <1>0, <1>1, <2>2, QueuedIds
  <2> QED BY <1>0, <1>1, <2>2, <2>3, GrowNextIds, Zenon
<1> QED BY <1>2, <1>3

LEMMA SaveNextIds ==
  ASSUME TypeOK, NextIds, Save
  PROVE  NextIds'
<1>1. PICK j \in jobs : Wrote(j) \/ Lost(j) \/ WroteMachine(j) \/ WroteTimes(j) \/ WroteTicks(j)
  BY SaveCases
<1>2. UNCHANGED <<backend, nextId>>
  BY SaveCases
<1>3. /\ nextId \in Nat /\ dbNext \in Nat /\ swapped \in BOOLEAN
      /\ j.next \in Nat /\ j.next <= nextId /\ \A r \in j.recs : r.id < j.next
      /\ \A r \in db \cup j.recs : r.id \in Nat
  BY DEF TypeOK, NextIds, Jobs, Records
<1>4. /\ jobs' = jobs \ {j} \/ \E k \in Jobs : /\ k.recs = j.recs /\ k.next = j.next
                                              /\ jobs' = (jobs \ {j}) \cup {k}
      /\ dbNext' \in {dbNext, j.next}
  BY <1>1 DEF Wrote, Lost, WroteMachine, WroteTimes, WroteTicks, Moved
<1>5. dbNext' <= nextId'
  BY <1>2, <1>3, <1>4 DEF NextIds
<1>6. \A k \in jobs' : k.next <= nextId' /\ \A r \in k.recs : r.id < k.next
  BY <1>2, <1>3, <1>4 DEF NextIds
<1>7. ASSUME ~swapped'
      PROVE  /\ ~swapped
             /\ dbNext' = dbNext \/ (dbNext' = j.next /\ dbNext <= j.next)
  <2>1. \/ dbNext' = dbNext /\ (swapped => swapped')
        \/ dbNext' = j.next /\ (swapped \/ j.next < dbNext => swapped')
    BY <1>1, Zenon DEF Wrote, Lost, WroteMachine, WroteTimes, WroteTicks
  <2>2. ~swapped /\ (dbNext' = dbNext \/ (dbNext' = j.next /\ ~(j.next < dbNext)))
    BY <1>7, <2>1
  <2> QED BY <1>3, <2>2
<1>8. ASSUME backend' = "gorm", ~swapped', NEW k \in jobs', k.at = "times"
      PROVE  k.next <= dbNext'
  <2>1. CASE k \in jobs
    <3>1. k.next <= dbNext /\ k.next \in Nat
      BY <1>2, <1>7, <1>8, <2>1 DEF NextIds, TypeOK, Jobs
    <3> QED BY <1>3, <1>7, <1>8, <3>1
  <2>2. CASE k \notin jobs
    <3>1. WroteMachine(j)
      BY <1>1, <1>8, <2>2 DEF Wrote, Lost, WroteTimes, WroteTicks, Moved
    <3>2. k.next = j.next /\ dbNext' = j.next
      BY <1>8, <2>2, <3>1 DEF WroteMachine, Moved
    <3> QED BY <1>3, <3>2
  <2> QED BY <2>1, <2>2
<1>9. ASSUME backend' \in {"badger", "gorm"}, ~swapped', NEW r \in db'
      PROVE  r.id < dbNext'
  <2>1. CASE r \in db
    <3>1. r.id < dbNext
      BY <1>2, <1>7, <1>9, <2>1 DEF NextIds, ResumesAfter
    <3> QED BY <1>3, <1>7, <1>9, <2>1, <3>1
  <2>2. CASE r \notin db
    <3>1. r \in j.recs /\ (Wrote(j) \/ WroteTimes(j))
      BY <1>1, <2>2, Zenon DEF Wrote, Lost, WroteMachine, WroteTimes, WroteTicks, Put
    <3>2. CASE Wrote(j)
      BY <1>3, <3>1, <3>2, Zenon DEF Wrote
    <3>3. CASE WroteTimes(j)
      <4>1. dbNext' = dbNext /\ j.next <= dbNext
        BY <1>2, <1>7, <1>9, <3>3, Zenon DEF WroteTimes, NextIds
      <4> QED BY <1>3, <3>1, <4>1
    <3> QED BY <3>1, <3>2, <3>3
  <2> QED BY <2>1, <2>2
<1> QED BY <1>5, <1>6, <1>8, <1>9 DEF NextIds, ResumesAfter

LEMMA NextIdsStep ==
  ASSUME TypeOK, Ledger, NextIds, [Next]_vars
  PROVE  NextIds'
<1>1. CASE Idle
  BY <1>1, IdleKeeps DEF NextIds, ResumesAfter
<1>2. CASE GcBbolt \/ GcBadger \/ GcGorm
  <2>1. UNCHANGED <<backend, nextId, jobs, dbNext, swapped>> /\ db' \subseteq db
    BY <1>2, GcCases DEF Delete
  <2> QED BY <2>1 DEF NextIds, ResumesAfter
<1>3. CASE DisposeLock
  <2>1. UNCHANGED <<backend, nextId, jobs, dbNext, swapped>> /\ db' \subseteq db
    BY <1>3, DisposeLockCases DEF Delete
  <2> QED BY <2>1 DEF NextIds, ResumesAfter
<1>4. CASE TransitionEndMemory
  <2>1. /\ UNCHANGED <<backend, jobs, dbNext, swapped>> /\ nextId' = nextId + 1
        /\ backend = "memory"
    BY <1>4, MemoryCases
  <2>2. dbNext \in Nat /\ nextId \in Nat /\ \A j \in jobs : j.next \in Nat
    BY DEF TypeOK, Jobs
  <2> QED BY <2>1, <2>2 DEF NextIds, ResumesAfter
<1>5. CASE MachineInit
  <2>1. /\ jobs' = {} /\ dbNext' = nextId' /\ db' \subseteq db /\ UNCHANGED <<backend, swapped>>
        /\ backend \in {"badger", "gorm"} => dbNext' = dbNext
    BY <1>5, MachineInitCases
  <2>2. nextId' \in Nat
    BY <1>5, MachineInitCases DEF TypeOK
  <2> QED BY <2>1, <2>2 DEF NextIds, ResumesAfter
<1> QED BY <1>1, <1>2, <1>3, <1>4, <1>5, NextCases, TracedNextIds, SyncNextIds, SaveNextIds

HistInv == TypeOK /\ Finite /\ Ledger /\ NextIds

LEMMA HistInvariant == Spec => []HistInv
<1>1. Init => HistInv
  BY InitType, InitLedger, InitNextIds DEF HistInv
<1>2. HistInv /\ [Next]_vars => HistInv'
  BY TypeStep, LedgerStep, NextIdsStep DEF HistInv
<1> QED BY <1>1, <1>2, PTL DEF Spec

\* As long as no batch is saved after a later one, a process starts with an id that is
\* above all saved ones: gorm writes a batch's NextId before its records, and bbolt and
\* badger at once with them.
THEOREM IdsResume == Spec => []ResumesAfter
<1>1. HistInv => ResumesAfter
  BY DEF HistInv, NextIds
<1> QED BY <1>1, HistInvariant, PTL

-----------------------------------------------------------------------------
(* Rows of gorm *)

LEMMA SaveRows ==
  ASSUME TypeOK, Ledger, RowsWhole, Save
  PROVE  RowsWhole'
<1>1. PICK j \in jobs : Wrote(j) \/ Lost(j) \/ WroteMachine(j) \/ WroteTimes(j) \/ WroteTicks(j)
  BY SaveCases
<1>2. UNCHANGED <<backend, base, phase>>
  BY SaveCases
<1> SUFFICES ASSUME backend = "gorm", phase = "up", NEW r \in db', r.seq > base,
                    \A k \in jobs' : r \notin k.recs
             PROVE  r.id \in ticks'
  BY <1>2 DEF RowsWhole
<1>3. CASE Lost(j)
  <2>1. jobs' = jobs \ {j} /\ Waits(j) /\ UNCHANGED <<db, ticks>>
    BY <1>3 DEF Lost
  <2>2. r \notin j.recs
    BY <2>1 DEF Ledger, Apart
  <2> QED BY <2>1, <2>2 DEF RowsWhole
<1>4. CASE WroteMachine(j) \/ WroteTimes(j)
  <2>1. PICK k \in jobs' : k.recs = j.recs /\ jobs' = (jobs \ {j}) \cup {k}
    BY <1>4 DEF WroteMachine, WroteTimes, Moved
  <2>2. db' \subseteq db \cup j.recs /\ UNCHANGED ticks
    BY <1>4 DEF WroteMachine, WroteTimes
  <2> QED BY <2>1, <2>2 DEF RowsWhole
<1>5. CASE WroteTicks(j)
  <2>1. jobs' = jobs \ {j} /\ UNCHANGED db /\ ticks' = ticks \cup Ids(j.recs)
    BY <1>5 DEF WroteTicks, Closed
  <2> QED BY <2>1 DEF RowsWhole, Ids
<1>6. ~Wrote(j)
  BY DEF Wrote
<1> QED BY <1>1, <1>3, <1>4, <1>5, <1>6

LEMMA RowsStep ==
  ASSUME TypeOK, Ledger, RowsWhole, [Next]_vars
  PROVE  RowsWhole'
<1>1. CASE Idle
  BY <1>1, IdleKeeps DEF RowsWhole
<1>2. CASE TransitionEndMemory \/ GcBbolt \/ GcBadger
  BY <1>2 DEF TransitionEndMemory, GcBbolt, GcBadger, GcRest, life, RowsWhole
<1>3. CASE TransitionEnd \/ Sync
  <2>1. UNCHANGED <<backend, base, phase, db, ticks>>
    BY <1>3, TracedCases, SyncCases, Zenon
  <2>2. jobs \subseteq jobs'
    BY <1>3, TracedCases, SyncCases DEF WriteDb
  <2> QED BY <2>1, <2>2 DEF RowsWhole
<1>4. CASE GcGorm
  <2>1. UNCHANGED <<backend, base, phase, jobs>>
    BY <1>4, GcCases
  <2>2. \/ db' \subseteq db /\ ticks' = ticks
        \/ db' = db /\ ticks' \in {ticks, ticks \cap Ids(db)}
    BY <1>4 DEF GcGorm, Delete
  <2> QED BY <2>1, <2>2 DEF RowsWhole, Ids
<1>5. CASE DisposeLock
  BY <1>5, DisposeLockCases DEF RowsWhole
<1>6. CASE MachineInit
  <2>1. base' = seq /\ db' \subseteq db
    BY <1>6, MachineInitCases
  <2>2. \A r \in db : ~(r.seq > seq)
    BY DEF TypeOK, Ledger, Owned, Records
  <2> QED BY <2>1, <2>2 DEF RowsWhole
<1> QED BY <1>1, <1>2, <1>3, <1>4, <1>5, <1>6, NextCases, SaveRows

\* A record of gorm keeps its ticks, which are written after it and deleted after it: the
\* collection deletes ticks of no record, and those of a job in progress are yet to come.
THEOREM RowsStayWhole == Spec => []RowsWhole
<1>1. Init => RowsWhole
  BY DEF Init, RowsWhole
<1>2. HistInv /\ RowsWhole /\ [Next]_vars => RowsWhole'
  BY RowsStep DEF HistInv
<1> QED BY <1>1, <1>2, HistInvariant, PTL DEF Spec

-----------------------------------------------------------------------------
(* Collections *)

\* Places of this process's records that wait nowhere.
Settled ==
  {n \in base + 1 .. seq : /\ \A r \in queue : r.seq # n
                          /\ \A j \in jobs : Waits(j) => \A r \in j.recs : r.seq # n}

\* bbolt and badger: Saved counts settled records only, so a collection, which waits for
\* more than MaxRecords of them, computes no negative id.  The rows of gorm have ids of
\* their own.
Counted ==
  backend \in {"bbolt", "badger"} => saved <= Cardinality(Settled) /\ \A j \in jobs : j.at = "new"

Collecting ==
  /\ backend = "memory" => gc = NoGc
  /\ backend \in {"bbolt", "badger"} /\ gc # NoGc => nextId >= MaxRecords
  /\ backend = "badger" /\ gc.at = "batch" => gc.to <= nextId - MaxRecords

OneRow == backend = "gorm" => \A r, s \in db : r.id = s.id => r = s

LEMMA SomePlaces ==
  ASSUME NEW a \in Nat, NEW b \in Nat, a <= b, NEW S \in SUBSET (a + 1 .. b)
  PROVE  IsFiniteSet(S) /\ Cardinality(S) \in Nat /\ Cardinality(S) <= b - a
<1>1. /\ IsFiniteSet(a + 1 .. b)
      /\ Cardinality(a + 1 .. b) = IF a + 1 > b THEN 0 ELSE b - (a + 1) + 1
  BY FS_Interval
<1>2. Cardinality(a + 1 .. b) = b - a
  BY <1>1
<1> QED BY <1>1, <1>2, FS_Subset, FS_CardinalityType, Zenon

LEMMA SettledFinite ==
  ASSUME TypeOK
  PROVE  IsFiniteSet(Settled) /\ Cardinality(Settled) \in Nat /\ Cardinality(Settled) <= seq - base
BY SomePlaces DEF TypeOK, Settled

LEMMA SettledFiniteNext ==
  ASSUME TypeOK'
  PROVE  IsFiniteSet(Settled') /\ Cardinality(Settled') \in Nat
<1>1. base' \in Nat /\ seq' \in Nat /\ base' <= seq'
  BY DEF TypeOK
<1>2. Settled' \in SUBSET (base' + 1 .. seq')
  BY DEF Settled
<1> QED BY <1>1, <1>2, SomePlaces, Zenon

\* As many places as records are in a batch.
LEMMA BatchPlaces ==
  ASSUME TypeOK, Finite, Ledger, NEW j \in jobs
  PROVE  LET places == {r.seq : r \in j.recs}
         IN  IsFiniteSet(places) /\ Cardinality(j.recs) <= Cardinality(places)
             /\ Cardinality(j.recs) \in Nat /\ Cardinality(places) \in Nat
<1> DEFINE places == {r.seq : r \in j.recs}
           place == [r \in j.recs |-> r.seq]
<1>1. j.recs \subseteq Records /\ IsFiniteSet(j.recs) /\ \A r \in j.recs : Own(r)
  BY DEF TypeOK, Jobs, Finite, Ledger, Owned
<1>2. \A r, s \in j.recs : r.seq = s.seq => r = s
  BY <1>1, SameRecord, Zenon
<1>3. place \in Injection(j.recs, places)
  BY <1>2 DEF Injection, IsInjective
<1>4. places \subseteq base + 1 .. seq
  BY <1>1 DEF TypeOK, Own, Records
<1> HIDE DEF places, place
<1>5. IsFiniteSet(places)
  BY <1>4, SomePlaces DEF TypeOK
<1> QED BY <1>1, <1>3, <1>5, FS_Injection, FS_CardinalityType DEF places

\* Records change their places in the process's memory, or a new one comes.
LEMMA SettledKept ==
  ASSUME TypeOK, UNCHANGED base, seq' \in {seq, seq + 1},
         \A r \in queue' : r \in queue \/ r.seq = seq + 1,
         \A j \in jobs' : Waits(j) => \A r \in j.recs :
           r \in queue \/ r.seq = seq + 1 \/ \E k \in jobs : Waits(k) /\ r \in k.recs
  PROVE  Settled \subseteq Settled'
<1> SUFFICES ASSUME NEW n \in Settled PROVE n \in Settled'
  OBVIOUS
<1>1. n \in base + 1 .. seq /\ n # seq + 1
  BY DEF Settled, TypeOK
<1>2. n \in base' + 1 .. seq'
  BY <1>1 DEF TypeOK
<1>3. \A r \in queue' : r.seq # n
  BY <1>1 DEF Settled
<1>4. \A j \in jobs' : Waits(j) => \A r \in j.recs : r.seq # n
  BY <1>1 DEF Settled
<1> QED BY <1>2, <1>3, <1>4 DEF Settled, Waits

LEMMA WroteCounted ==
  ASSUME TypeOK, Finite, Ledger, Counted, TypeOK', UNCHANGED <<backend, base, seq, queue>>,
         NEW j \in jobs, Wrote(j)
  PROVE  Counted'
<1> DEFINE places == {r.seq : r \in j.recs}
<1>1. /\ IsFiniteSet(places) /\ Cardinality(j.recs) <= Cardinality(places)
      /\ Cardinality(j.recs) \in Nat /\ Cardinality(places) \in Nat
  BY BatchPlaces
<1>2. IsFiniteSet(Settled) /\ Cardinality(Settled) \in Nat
  BY SettledFinite
<1>3. /\ backend \in {"bbolt", "badger"} /\ jobs' = jobs \ {j}
      /\ saved' = saved + Cardinality(j.recs) /\ saved <= Cardinality(Settled)
      /\ Waits(j) /\ (\A k \in jobs' : k.at = "new")
  BY DEF Wrote, Counted, Waits
<1>4. Settled \cap places = {}
  BY <1>3 DEF Settled
<1>5. \A r \in j.recs : r \in Records /\ Own(r)
  BY DEF TypeOK, Jobs, Ledger, Owned
<1>6. ASSUME NEW r \in j.recs
      PROVE  r.seq \in Settled'
  <2>1. r.seq \in base + 1 .. seq
    BY <1>5 DEF TypeOK, Records, Own
  <2>2. ASSUME NEW s \in Records, Own(s), s.seq = r.seq
        PROVE  s = r
    BY <1>5, <2>2, SameRecord
  <2>3. \A s \in queue : s.seq # r.seq
    BY <2>2 DEF TypeOK, Ledger, Owned, Apart
  <2>4. \A k \in jobs' : \A s \in k.recs : s.seq # r.seq
    BY <1>3, <2>2 DEF TypeOK, Jobs, Ledger, Owned, Apart
  <2> QED BY <2>1, <2>3, <2>4 DEF Settled
<1>7. Settled \subseteq Settled'
  BY <1>3, Zenon DEF Settled, Waits
<1>8. Settled \cup places \subseteq Settled'
  BY <1>6, <1>7
<1> HIDE DEF places
<1>9. IsFiniteSet(Settled \cup places)
      /\ Cardinality(Settled \cup places) = Cardinality(Settled) + Cardinality(places)
  <2>1. Cardinality(Settled \cap places) = 0
    BY <1>4, FS_EmptySet
  <2>2. /\ IsFiniteSet(Settled \cup places)
        /\ Cardinality(Settled \cup places)
             = Cardinality(Settled) + Cardinality(places) - Cardinality(Settled \cap places)
    BY <1>1, <1>2, FS_Union
  <2> QED BY <1>1, <1>2, <2>1, <2>2
<1>10. IsFiniteSet(Settled') /\ Cardinality(Settled') \in Nat
  BY SettledFiniteNext
<1>11. Cardinality(Settled \cup places) <= Cardinality(Settled')
  BY <1>8, <1>10, FS_Subset
<1>12. saved' <= Cardinality(Settled')
  BY <1>1, <1>2, <1>3, <1>9, <1>10, <1>11 DEF TypeOK
<1> QED BY <1>3, <1>12 DEF Counted

LEMMA CountedKept ==
  ASSUME TypeOK, TypeOK', Counted, UNCHANGED <<backend, saved>>, Settled \subseteq Settled',
         backend \in {"bbolt", "badger"} => \A j \in jobs' : j.at = "new"
  PROVE  Counted'
<1>1. Cardinality(Settled) \in Nat /\ Cardinality(Settled') \in Nat
  BY SettledFinite, SettledFiniteNext
<1>2. Cardinality(Settled) <= Cardinality(Settled')
  BY SettledFiniteNext, FS_Subset
<1> QED BY <1>1, <1>2 DEF Counted, TypeOK

LEMMA InitCounted == Init => Counted
<1> SUFFICES ASSUME Init PROVE Counted
  OBVIOUS
<1>1. TypeOK
  BY InitType
<1>2. saved = 0 /\ jobs = {}
  BY DEF Init
<1> QED BY <1>1, <1>2, SettledFinite DEF Counted

LEMMA CountedStep ==
  ASSUME TypeOK, Finite, Ledger, Counted, [Next]_vars
  PROVE  Counted'
<1>0. TypeOK'
  BY TypeStep
<1>1. ASSUME UNCHANGED <<backend, base, seq, queue, jobs, saved>>
      PROVE  Counted'
  BY <1>1 DEF Counted, Settled
<1>2. CASE Idle \/ GcBbolt \/ GcBadger \/ GcGorm \/ DisposeLock
  BY <1>1, <1>2, IdleKeeps, GcCases, DisposeLockCases
<1>3. CASE TransitionEndMemory
  BY <1>3, MemoryCases DEF Counted
<1>4. CASE TransitionEnd
  <2>1. PICK new \in Records : new = Record(nextId, seq + 1) /\ new.seq = seq + 1
    BY RecordType DEF Record
  <2>2. UNCHANGED <<backend, base, saved>> /\ seq' = seq + 1
    BY <1>4, TracedCases
  <2>3. CASE queue' = queue \cup {new} /\ UNCHANGED jobs
    <3>1. Settled \subseteq Settled'
      BY <2>1, <2>2, <2>3, SettledKept
    <3> QED BY <1>0, <2>2, <2>3, <3>1, CountedKept DEF Counted
  <2>4. CASE WriteDb(queue \cup {new}, nextId + 1, TRUE)
    <3>1. /\ queue \cup {new} \in SUBSET Records /\ queue \cup {new} # {}
          /\ nextId + 1 \in Nat \ {0} /\ TRUE \in BOOLEAN
      BY DEF TypeOK
    <3>2. PICK J \in Jobs : J.recs = queue \cup {new} /\ J.at = "new" /\ jobs' = jobs \cup {J}
      BY <2>4, <3>1, WriteDbCases, Zenon
    <3>3. queue' = {}
      BY <2>4 DEF WriteDb
    <3>4. Settled \subseteq Settled'
      BY <2>1, <2>2, <3>2, <3>3, SettledKept
    <3> QED BY <1>0, <2>2, <3>2, <3>4, CountedKept DEF Counted
  <2> QED BY <1>4, <2>1, <2>3, <2>4, TracedCases, Zenon
<1>5. CASE Sync
  <2>1. UNCHANGED <<backend, base, seq, saved>> /\ WriteDb(queue, nextId, FALSE)
    BY <1>5, SyncCases, Zenon
  <2>2. CASE queue = {}
    BY <1>1, <2>1, <2>2 DEF WriteDb
  <2>3. CASE queue # {}
    <3>1. queue \in SUBSET Records /\ nextId \in Nat \ {0} /\ FALSE \in BOOLEAN
      BY DEF TypeOK
    <3>2. PICK J \in Jobs : J.recs = queue /\ J.at = "new" /\ jobs' = jobs \cup {J}
      BY <2>1, <2>3, <3>1, WriteDbCases, Zenon
    <3>3. queue' = {}
      BY <2>1 DEF WriteDb
    <3>4. Settled \subseteq Settled'
      BY <2>1, <3>2, <3>3, SettledKept
    <3> QED BY <1>0, <2>1, <3>2, <3>4, CountedKept DEF Counted
  <2> QED BY <2>2, <2>3
<1>6. CASE Save
  <2>1. PICK j \in jobs : Wrote(j) \/ Lost(j) \/ WroteMachine(j) \/ WroteTimes(j) \/ WroteTicks(j)
    BY <1>6, SaveCases
  <2>2. UNCHANGED <<backend, base, seq, queue>>
    BY <1>6, SaveCases
  <2>3. CASE Wrote(j)
    BY <1>0, <2>2, <2>3, WroteCounted
  <2>4. CASE Lost(j) /\ backend # "gorm"
    <3>1. jobs' = jobs \ {j} /\ UNCHANGED saved
      BY <2>4 DEF Lost
    <3>2. Settled \subseteq Settled'
      BY <2>2, <3>1, SettledKept
    <3> QED BY <1>0, <2>2, <3>1, <3>2, CountedKept DEF Counted
  <2>5. CASE backend = "gorm"
    BY <2>2, <2>5 DEF Counted
  <2>6. Lost(j) \/ Wrote(j) \/ backend = "gorm"
    BY <2>1 DEF WroteMachine, WroteTimes, WroteTicks
  <2> QED BY <2>3, <2>4, <2>5, <2>6
<1>7. CASE MachineInit
  <2>1. saved' = 0 /\ jobs' = {}
    BY <1>7, MachineInitCases
  <2>2. Cardinality(Settled') \in Nat
    BY <1>0, SettledFiniteNext
  <2> QED BY <2>1, <2>2 DEF Counted
<1> QED BY <1>2, <1>3, <1>4, <1>5, <1>6, <1>7, NextCases

LEMMA CollectingStep ==
  ASSUME TypeOK, Ledger, Counted, Collecting, [Next]_vars
  PROVE  Collecting'
<1>1. nextId \in Nat /\ MaxRecords \in Nat \ {0} /\ gc.to \in Nat
  BY HistoryAssumption DEF TypeOK
<1>2. CASE UNCHANGED <<backend, nextId, gc>>
  BY <1>2 DEF Collecting
<1>3. CASE Idle \/ Sync \/ DisposeLock \/ Save
  BY <1>2, <1>3, IdleKeeps, SyncCases, DisposeLockCases, SaveCases, Zenon
<1>4. CASE TransitionEndMemory
  BY <1>4, MemoryCases DEF Collecting
<1>5. CASE TransitionEnd
  <2>1. UNCHANGED backend /\ nextId' = nextId + 1 /\ backend # "memory"
    BY <1>5, TracedCases
  <2>2. CASE gc' = gc \/ backend = "gorm"
    BY <1>1, <2>1, <2>2 DEF Collecting
  <2>3. CASE gc' # gc /\ backend # "gorm"
    <3>1. ~(2 * (saved - savedGc) <= 3 * MaxRecords) /\ gc' = [at |-> "start", from |-> 0, to |-> 0]
      BY <1>5, <2>3, TracedCases, Zenon DEF CheckGc
    <3>2. backend \in {"bbolt", "badger"}
      BY <2>1, <2>3, HistoryAssumption DEF TypeOK
    <3>3. saved <= Cardinality(Settled) /\ Cardinality(Settled) \in Nat /\ Cardinality(Settled) <= seq - base
      BY <3>2, SettledFinite DEF Counted
    <3>4. saved > MaxRecords
      BY <1>1, <3>1 DEF TypeOK
    <3>5. nextId >= MaxRecords
      BY <1>1, <3>3, <3>4 DEF TypeOK, Ledger, Owned
    <3> QED BY <1>1, <2>1, <3>1, <3>5 DEF Collecting
  <2> QED BY <2>2, <2>3
<1>6. CASE GcBbolt \/ GcGorm
  <2>1. UNCHANGED <<backend, nextId>> /\ backend \in {"bbolt", "gorm"}
    BY <1>6, GcCases DEF GcBbolt, GcGorm
  <2>2. backend = "bbolt" => gc # NoGc
    BY <1>6 DEF GcBbolt, GcGorm
  <2> QED BY <2>1, <2>2 DEF Collecting
<1>7. CASE GcBadger
  <2>1. UNCHANGED <<backend, nextId>> /\ backend = "badger" /\ gc # NoGc
    BY <1>7, GcCases DEF GcBadger
  <2>2. nextId >= MaxRecords /\ GcUpper = nextId - MaxRecords
    BY <2>1 DEF Collecting, GcUpper
  <2>3. CASE gc' = NoGc
    BY <2>1, <2>3 DEF Collecting, NoGc
  <2>4. CASE gc' = [at |-> "batch", from |-> 1, to |-> GcUpper]
    BY <1>1, <2>1, <2>2, <2>4 DEF Collecting
  <2>5. CASE gc.at = "batch" /\ gc' = [gc EXCEPT !.from = @ + GcSize]
    <3>1. gc'.to = gc.to
      BY <2>5 DEF TypeOK
    <3> QED BY <2>1, <2>2, <2>5, <3>1 DEF Collecting
  <2> QED BY <1>7, <2>3, <2>4, <2>5 DEF GcBadger, GcDone
<1>8. CASE MachineInit
  <2>1. gc' = NoGc
    BY <1>8, MachineInitCases
  <2> QED BY <2>1 DEF Collecting, NoGc
<1> QED BY <1>3, <1>4, <1>5, <1>6, <1>7, <1>8, NextCases

LEMMA OneRowStep ==
  ASSUME TypeOK, Ledger, OneRow, [Next]_vars
  PROVE  OneRow'
<1>1. CASE UNCHANGED backend /\ db' \subseteq db
  BY <1>1 DEF OneRow
<1>2. CASE Idle \/ TransitionEnd \/ Sync \/ MachineInit
  <2>1. UNCHANGED backend /\ db' \subseteq db
    BY <1>2, IdleKeeps, TracedCases, SyncCases, MachineInitCases, Zenon
  <2> QED BY <1>1, <2>1
<1>3. CASE GcBbolt \/ GcBadger \/ GcGorm \/ DisposeLock
  <2>1. UNCHANGED backend /\ db' \subseteq db
    BY <1>3, GcCases, DisposeLockCases DEF Delete
  <2> QED BY <1>1, <2>1
<1>4. CASE TransitionEndMemory
  BY <1>4, MemoryCases DEF OneRow
<1>5. CASE Save
  <2>1. PICK j \in jobs : Wrote(j) \/ Lost(j) \/ WroteMachine(j) \/ WroteTimes(j) \/ WroteTicks(j)
    BY <1>5, SaveCases
  <2>2. UNCHANGED backend
    BY <1>5, SaveCases
  <2>3. CASE Wrote(j)
    BY <2>2, <2>3 DEF Wrote, OneRow
  <2>4. CASE Lost(j) \/ WroteMachine(j) \/ WroteTicks(j)
    BY <1>1, <2>2, <2>4 DEF Lost, WroteMachine, WroteTicks
  <2>5. CASE WroteTimes(j)
    <3>1. db' = db \cup j.recs /\ Ids(j.recs) \cap Ids(db) = {} /\ backend = "gorm"
      BY <2>5 DEF WroteTimes
    <3>2. \A r, s \in j.recs : r.id = s.id => r = s
      BY SameRecord DEF TypeOK, Jobs, Ledger, Owned
    <3>3. \A r \in j.recs, s \in db : r.id # s.id
      BY <3>1 DEF Ids
    <3> QED BY <2>2, <3>1, <3>2, <3>3 DEF OneRow
  <2> QED BY <2>1, <2>3, <2>4, <2>5
<1> QED BY <1>2, <1>3, <1>4, <1>5, NextCases

\* A row of gorm with MaxRecords newer ones has an id that is this much lower than the next.
LEMMA OldRows ==
  ASSUME TypeOK, Finite, NextIds, OneRow, backend = "gorm", ~swapped, NEW r \in db, r \notin Newest
  PROVE  r.id <= nextId - MaxRecords
<1> DEFINE newer == {s \in db : s.id > r.id}
           id == [s \in newer |-> s.id]
           room == r.id + 1 .. nextId - 1
<1>1. MaxRecords \in Nat /\ nextId \in Nat /\ \A s \in db : s.id \in Nat
  BY HistoryAssumption DEF TypeOK, Records
<1>2. \A s \in db : s.id < nextId
  BY <1>1 DEF NextIds, ResumesAfter, TypeOK
<1>3. id \in Injection(newer, room)
  <2>1. id \in [newer -> room]
    BY <1>1, <1>2
  <2>2. \A s, t \in newer : id[s] = id[t] => s = t
    BY DEF OneRow
  <2> QED BY <2>1, <2>2 DEF Injection, IsInjective
<1>4. room \in SUBSET (r.id + 1 .. nextId - 1) /\ r.id \in Nat /\ nextId - 1 \in Nat /\ r.id <= nextId - 1
  BY <1>1, <1>2 DEF TypeOK
<1>5. IsFiniteSet(room) /\ Cardinality(room) \in Nat /\ Cardinality(room) <= nextId - 1 - r.id
  <2> HIDE DEF room
  <2> QED BY <1>4, SomePlaces
<1>6. ~(Cardinality(newer) < MaxRecords)
  BY DEF Newest
<1> HIDE DEF newer, room, id
<1>7. IsFiniteSet(newer) /\ Cardinality(newer) <= Cardinality(room)
  BY <1>3, <1>5, FS_Injection
<1>8. Cardinality(newer) \in Nat
  BY <1>7, FS_CardinalityType
<1> QED BY <1>1, <1>4, <1>5, <1>6, <1>7, <1>8

LEMMA LesserOfTwo ==
  ASSUME NEW a \in Int, NEW b \in Int
  PROVE  Min({a, b}) \in Int /\ Min({a, b}) <= b
<1>1. \E x \in {a, b} : \A y \in {a, b} : x <= y
  <2>1. CASE a <= b
    BY <2>1
  <2>2. CASE ~(a <= b)
    BY <2>2
  <2> QED BY <2>1, <2>2
<1>2. Min({a, b}) \in {a, b} /\ \A y \in {a, b} : Min({a, b}) <= y
  BY <1>1 DEF Min
<1> QED BY <1>2

GcInv == HistInv /\ Counted /\ Collecting /\ OneRow

LEMMA GcStep ==
  ASSUME GcInv, [Next]_vars, gc # NoGc, jobs' = jobs, crashes' = crashes, phase' = phase, ~swapped,
         NEW r \in db \ db'
  PROVE  r.id <= nextId - MaxRecords
<1>1. TypeOK /\ Finite /\ Ledger /\ NextIds /\ Collecting /\ OneRow
  BY DEF GcInv, HistInv
<1>2. nextId \in Nat /\ MaxRecords \in Nat /\ r.id \in Nat
  BY <1>1, HistoryAssumption DEF TypeOK, Records
<1>3. CASE Idle \/ TransitionEnd \/ Sync \/ DisposeLock
  BY <1>3, IdleKeeps, TracedCases, SyncCases, DisposeLockCases, Zenon
<1>4. CASE TransitionEndMemory
  BY <1>1, <1>4, MemoryCases DEF Collecting
<1>5. CASE Save
  <2>1. PICK j \in jobs : Wrote(j) \/ Lost(j) \/ WroteMachine(j) \/ WroteTimes(j) \/ WroteTicks(j)
    BY <1>1, <1>5, SaveCases
  <2>2. ~Wrote(j)
    BY DEF Wrote
  <2>3. db \subseteq db'
    BY <2>1, <2>2, Zenon DEF Lost, WroteMachine, WroteTimes, WroteTicks
  <2> QED BY <2>3
<1>6. CASE GcBbolt
  <2>1. backend = "bbolt" /\ r.id <= GcUpper
    BY <1>6 DEF GcBbolt, Delete
  <2> QED BY <1>1, <2>1 DEF Collecting, GcUpper
<1>7. CASE GcBadger
  <2>1. /\ backend = "badger" /\ gc.at = "batch"
        /\ r.id \in gc.from .. Min({gc.from + GcSize - 1, gc.to})
    BY <1>7, Zenon DEF GcBadger, Delete
  <2>2. gc.to \in Nat /\ gc.from \in Nat /\ GcSize \in Nat
    BY <1>1, HistoryAssumption DEF TypeOK
  <2>3. gc.from + GcSize - 1 \in Int /\ gc.to \in Int
    BY <2>2
  <2>4. /\ Min({gc.from + GcSize - 1, gc.to}) \in Int
        /\ Min({gc.from + GcSize - 1, gc.to}) <= gc.to
    BY <2>3, LesserOfTwo
  <2>5. r.id <= gc.to
    BY <2>1, <2>2, <2>4
  <2>6. gc.to <= nextId - MaxRecords
    BY <1>1, <2>1 DEF Collecting
  <2> QED BY <1>2, <2>2, <2>5, <2>6
<1>8. CASE GcGorm
  <2>1. backend = "gorm" /\ r \in db /\ r \notin Newest
    BY <1>8 DEF GcGorm, Delete
  <2> QED BY <1>1, <2>1, OldRows
<1>9. CASE MachineInit
  BY <1>1, <1>9, MachineInitCases DEF TypeOK
<1> QED BY <1>3, <1>4, <1>5, <1>6, <1>7, <1>8, <1>9, NextCases

\* No collection reaches the newest records, by an unsigned difference of ids that wrapped
\* (bbolt, badger), by an upper id read before more were saved (badger), or by a count of
\* rows (gorm).
THEOREM LatestKept == Spec => GcKeepsLatest
<1>1. Init => Counted /\ Collecting /\ OneRow
  BY InitCounted DEF Init, Collecting, OneRow, NoGc
<1>2. HistInv /\ Counted /\ Collecting /\ OneRow /\ [Next]_vars => (Counted /\ Collecting /\ OneRow)'
  BY CountedStep, CollectingStep, OneRowStep DEF HistInv
<1>3. GcInv /\ [Next]_vars =>
        [gc # NoGc /\ jobs' = jobs /\ crashes' = crashes /\ phase' = phase /\ ~swapped
           => \A r \in db \ db' : r.id <= nextId - MaxRecords]_vars
  BY GcStep
<1> QED BY <1>1, <1>2, <1>3, HistInvariant, PTL DEF Spec, GcKeepsLatest, GcInv

-----------------------------------------------------------------------------
(* Queries *)

\* In the first process ids are places, and no record is both kept and gone.
First ==
  base = 0 => /\ nextId = seq + 1
              /\ \A r \in db \cup gone : Own(r)
              /\ \A r \in db : r \notin gone

LEMMA SaveFirst ==
  ASSUME TypeOK, Ledger, Counted, First, base = 0, Save
  PROVE  (\A r \in db' \cup gone' : Own(r)) /\ \A r \in db' : r \notin gone'
<1>1. PICK j \in jobs : Wrote(j) \/ Lost(j) \/ WroteMachine(j) \/ WroteTimes(j) \/ WroteTicks(j)
  BY SaveCases
<1>2. /\ \A r \in j.recs : Own(r)
      /\ Waits(j) => \A r \in j.recs : r \notin db /\ r \notin gone
  BY Zenon DEF Ledger, Owned, Apart
<1>3. backend \in {"bbolt", "badger", "gorm"}
  BY DEF Save, SaveBbolt, SaveBadger, SaveGorm
<1>4. CASE Wrote(j)
  <2>1. Waits(j)
    BY <1>4 DEF Wrote, Counted, Waits
  <2>2. db' \subseteq db \cup j.recs /\ gone' = gone
    BY <1>4 DEF Wrote, Put
  <2> QED BY <1>2, <2>1, <2>2 DEF First
<1>5. CASE Lost(j)
  <2>1. Waits(j)
    BY <1>3, <1>5 DEF Lost, Counted, Waits
  <2> QED BY <1>2, <1>5, <2>1 DEF First, Lost
<1>6. CASE WroteMachine(j) \/ WroteTicks(j)
  BY <1>6 DEF First, WroteMachine, WroteTicks
<1>7. CASE WroteTimes(j)
  <2>1. Waits(j) /\ db' = db \cup j.recs /\ gone' = gone
    BY <1>7 DEF WroteTimes, Waits
  <2> QED BY <1>2, <2>1 DEF First
<1> QED BY <1>1, <1>4, <1>5, <1>6, <1>7

LEMMA FirstStep ==
  ASSUME TypeOK, Ledger, NextIds, Counted, First, [Next]_vars
  PROVE  First'
<1> SUFFICES ASSUME base' = 0
             PROVE  /\ nextId' = seq' + 1
                    /\ (\A r \in db' \cup gone' : Own(r)')
                    /\ \A r \in db' : r \notin gone'
  BY DEF First
<1>1. /\ base \in Nat /\ seq \in Nat /\ base <= seq /\ nextId \in Nat /\ dbNext \in Nat \ {0}
      /\ dbNext <= nextId /\ db \subseteq Records /\ gone \subseteq Records
  BY DEF TypeOK, NextIds
<1>2. CASE MachineInit
  <2>1. /\ seq' = 0 /\ seq = 0 /\ gone' = {} /\ db' \subseteq db /\ nextId' \in {1, dbNext}
    BY <1>2, MachineInitCases
  <2>2. base = 0 /\ nextId = 1
    BY <1>1, <2>1 DEF First
  <2>3. db = {}
    BY <1>1, <2>1, <2>2 DEF First, Own, Records
  <2> QED BY <1>1, <2>1, <2>2, <2>3
<1>3. ASSUME base' = base, UNCHANGED <<seq, nextId>>,
             db' \subseteq db, gone' \subseteq gone \cup (db \ db')
      PROVE  /\ nextId' = seq' + 1
             /\ (\A r \in db' \cup gone' : Own(r)')
             /\ \A r \in db' : r \notin gone'
  BY <1>3 DEF First, Own
<1>4. CASE Idle
  BY <1>3, <1>4, IdleKeeps
<1>5. CASE GcBbolt \/ GcBadger \/ GcGorm
  <2>1. UNCHANGED <<base, seq, nextId>>
    BY <1>5, GcCases
  <2>2. db' \subseteq db /\ gone' \subseteq gone \cup (db \ db')
    BY <1>5, GcCases DEF Delete
  <2> QED BY <1>3, <2>1, <2>2
<1>6. CASE DisposeLock
  BY <1>3, <1>6, DisposeLockCases DEF Delete
<1>7. CASE Sync
  BY <1>3, <1>7, SyncCases
<1>8. CASE Save
  <2>1. UNCHANGED <<base, seq, nextId>> /\ base = 0
    BY <1>8, SaveCases
  <2>2. (\A r \in db' \cup gone' : Own(r)) /\ \A r \in db' : r \notin gone'
    BY <1>8, <2>1, SaveFirst
  <2> QED BY <2>1, <2>2 DEF First, Own
<1>9. CASE TransitionEnd
  <2>1. base' = base /\ base = 0 /\ seq' = seq + 1 /\ nextId' = nextId + 1 /\ UNCHANGED <<db, gone>>
    BY <1>9, TracedCases
  <2> QED BY <1>1, <2>1 DEF First, Own, Records
<1>10. CASE TransitionEndMemory
  <2>1. base' = base /\ base = 0 /\ seq' = seq + 1 /\ nextId' = nextId + 1
    BY <1>10, MemoryCases
  <2>2. PICK old \in SUBSET db : /\ db' = (db \ old) \cup {Record(nextId, seq + 1)}
                                /\ gone' = gone \cup old
    BY <1>10, MemoryCases
  <2>3. PICK new \in Records :
          /\ new = Record(nextId, seq + 1) /\ Own(new)'
          /\ \A r \in Records : Own(r) => Own(r)' /\ r # new
    BY <2>1, NewRecord DEF Ledger
  <2>4. nextId' = seq' + 1
    BY <1>1, <2>1 DEF First
  <2> QED BY <1>1, <2>1, <2>2, <2>3, <2>4 DEF First
<1> QED BY <1>2, <1>4, <1>5, <1>6, <1>7, <1>8, <1>9, <1>10, NextCases

\* What a query meets when nothing is pending and no record is missing.
Quiet ==
  /\ base = 0 /\ queue = {} /\ jobs = {}
  /\ \A i \in Ids(db) : i + 1 \in Ids(db) \/ i + 1 = nextId

LEMMA QuietFacts ==
  ASSUME TypeOK, Ledger, First, Quiet
  PROVE  /\ nextId = seq + 1
         /\ Ids(db) = 1 .. seq \ {r.seq : r \in gone}
         /\ \A r \in db : r.id = r.seq
         /\ \A i \in Ids(db) : Get(i) = i
<1>1. seq \in Nat /\ nextId = seq + 1 /\ base = 0 /\ db \subseteq Records /\ gone \subseteq Records
  BY DEF TypeOK, First, Quiet
<1>2. \A r \in db \cup gone : r.id = r.seq /\ r.seq \in 1 .. seq /\ r \in Records
  BY <1>1 DEF First, Own, Records
<1>3. ASSUME NEW n \in 1 .. seq PROVE \E r \in db \cup gone : r.seq = n
  <2>1. Held(n)
    BY <1>1 DEF Ledger
  <2> QED BY <2>1 DEF Held, Quiet
<1>4. ASSUME NEW r \in db, NEW s \in gone PROVE r.seq # s.seq
  <2>1. r # s
    BY <1>1 DEF First
  <2> QED BY <1>2, <2>1 DEF Records
<1>5. Ids(db) = 1 .. seq \ {r.seq : r \in gone}
  BY <1>2, <1>3, <1>4 DEF Ids
<1>6. ASSUME NEW i \in Ids(db) PROVE Get(i) = i
  <2>1. \E r \in db : r.id = i
    BY DEF Ids
  <2> QED BY <1>2, <2>1 DEF Get
<1> QED BY <1>1, <1>2, <1>5, <1>6

\* Induction on 0..n.
LEMMA UpTo ==
  ASSUME NEW n \in Nat, NEW Good, 0 \in Good,
         \A k \in 1 .. n : k - 1 \in Good => k \in Good
  PROVE  0 .. n \subseteq Good
<1> DEFINE Bad == {k \in Nat : k <= n /\ k \notin Good}
<1>1. CASE Bad = {}
  BY <1>1
<1>2. CASE Bad # {}
  <2> DEFINE Less == {ss \in Nat \X Nat : ss[1] < ss[2]}
  <2>a. IsWellFoundedOn(Less, Nat)
    BY NatLessThanWellFounded, Zenon DEF OpToRel
  <2>1. PICK k \in Bad : \A m \in Bad : <<m, k>> \notin Less
    <3> HIDE DEF Less
    <3>1. Bad \subseteq Nat
      OBVIOUS
    <3> HIDE DEF Bad
    <3> QED BY <1>2, <2>a, <3>1, WFMin, Zenon
  <2>2. k \in 1 .. n /\ k - 1 \in Nat /\ k - 1 <= n /\ k \notin Good
    OBVIOUS
  <2>3. <<k - 1, k>> \in Less
    BY <2>2
  <2>4. k - 1 \in Good
    BY <2>1, <2>2, <2>3
  <2> QED BY <2>2, <2>4
<1> QED BY <1>1, <1>2

\* Numbers up to n without a missing one are an interval.
LEMMA Interval ==
  ASSUME NEW n \in Nat, NEW K \in SUBSET (1 .. n), K # {},
         \A i \in K : i + 1 \in K \/ i + 1 = n + 1
  PROVE  \E m \in 1 .. n : K = m .. n
<1>1. PICK m \in K : \A k \in K : m <= k
  <2> SUFFICES ASSUME \A m \in K : \E k \in K : ~(m <= k)
               PROVE  FALSE
    OBVIOUS
  <2> DEFINE Good == {k \in 0 .. n : \A i \in K : i > k}
  <2>1. 0 \in Good
    OBVIOUS
  <2>2. ASSUME NEW k \in 1 .. n, k - 1 \in Good PROVE k \in Good
    <3>1. \A i \in K : i > k - 1 /\ i \in Nat
      BY <2>2
    <3>2. k \notin K
      BY <3>1
    <3> QED BY <3>1, <3>2
  <2>3. n \in Good
    <3> HIDE DEF Good
    <3>1. 0 .. n \subseteq Good
      BY <2>1, <2>2, UpTo, Zenon
    <3> QED BY <3>1
  <2>4. PICK i \in K : i \in 1 .. n
    BY Zenon
  <2>5. i > n
    BY <2>3
  <2> QED BY <2>4, <2>5
<1>2. m \in 1 .. n /\ n - m \in Nat
  OBVIOUS
<1> DEFINE Good == {j \in 0 .. (n - m) : m + j \in K}
<1>3. 0 \in Good
  BY <1>2
<1>4. ASSUME NEW j \in 1 .. (n - m), j - 1 \in Good PROVE j \in Good
  <2>1. m + (j - 1) \in K /\ (m + (j - 1)) + 1 = m + j /\ m + j <= n
    BY <1>2, <1>4
  <2> QED BY <1>2, <2>1
<1>5. 0 .. (n - m) \subseteq Good
  <2> HIDE DEF Good
  <2> QED BY <1>2, <1>3, <1>4, UpTo, Zenon
<1>6. ASSUME NEW i \in m .. n PROVE i \in K
  <2>1. i - m \in 0 .. (n - m) /\ m + (i - m) = i
    BY <1>2
  <2> QED BY <1>5, <2>1
<1>7. K \subseteq m .. n
  BY <1>1, <1>2
<1> QED BY <1>2, <1>6, <1>7, Zenon

\* A loop of n steps.
Loop(F, n, V, start, op) ==
  /\ F \in [0 .. n -> V] /\ F[0] = start
  /\ \A k \in 1 .. n : F[k] = op[<<F[k - 1], k>>]

LEMMA SomeLoop ==
  ASSUME NEW n \in Nat, NEW V, NEW start \in V, NEW op \in [V \X (1 .. n) -> V]
  PROVE  \E F : Loop(F, n, V, start, op)
<1> DEFINE Runs(F, k) == /\ F \in [0 .. k -> V] /\ F[0] = start
                         /\ \A i \in 1 .. k : F[i] = op[<<F[i - 1], i>>]
           Good == {k \in 0 .. n : \E F : Runs(F, k)}
<1>1. 0 \in Good
  <2>1. Runs([i \in 0 .. 0 |-> start], 0)
    OBVIOUS
  <2> HIDE DEF Runs
  <2> QED BY <2>1
<1>2. ASSUME NEW k \in 1 .. n, k - 1 \in Good PROVE k \in Good
  <2>1. PICK F : Runs(F, k - 1)
    BY <1>2
  <2> DEFINE x == op[<<F[k - 1], k>>]
             G == [i \in 0 .. k |-> IF i = k THEN x ELSE F[i]]
  <2>2. F[k - 1] \in V
    BY <2>1
  <2>3. x \in V
    BY <2>2
  <2>4. \A i \in 0 .. k : i = k \/ i \in 0 .. (k - 1)
    OBVIOUS
  <2>5. G \in [0 .. k -> V]
    BY <2>1, <2>3, <2>4
  <2>6. G[0] = start
    BY <2>1
  <2>7. ASSUME NEW i \in 1 .. k PROVE G[i] = op[<<G[i - 1], i>>]
    <3>1. i - 1 \in 0 .. k /\ i - 1 # k /\ G[i - 1] = F[i - 1]
      OBVIOUS
    <3>2. CASE i = k
      BY <3>1, <3>2
    <3>3. CASE i # k
      <4>1. i \in 1 .. (k - 1) /\ G[i] = F[i]
        BY <3>3
      <4> QED BY <2>1, <3>1, <4>1
    <3> QED BY <3>2, <3>3
  <2>8. Runs(G, k)
    BY <2>5, <2>6, <2>7, Zenon
  <2>9. k \in 0 .. n
    OBVIOUS
  <2> HIDE DEF Runs, G
  <2> QED BY <2>8, <2>9
<1>3. n \in Good
  <2> HIDE DEF Good
  <2>1. 0 .. n \subseteq Good
    BY <1>1, <1>2, UpTo, Zenon
  <2> QED BY <2>1
<1> QED BY <1>3 DEF Loop

\* The states of the loop.
Scans == [id : Int, older : Nat, first : Nat, ret : Seq(Nat)]

LEMMA AdvanceType ==
  ASSUME TypeOK, NEW range, NEW limit \in Nat, NEW st \in Scans
  PROVE  Advance(st, range, limit) \in Scans
<1>1. st.id \in Int /\ st.older \in Nat /\ st.first \in Nat /\ st.ret \in Seq(Nat)
  BY DEF Scans
<1>2. CASE Over(st, limit)
  BY <1>2 DEF Advance
<1>3. CASE ~Over(st, limit)
  <2>1. st.id \in Nat /\ st.id - 1 \in Nat
    BY <1>1, <1>3 DEF Over
  <2>2. Append(st.ret, 0) \in Seq(Nat) /\ Append(st.ret, st.older) \in Seq(Nat)
    BY <1>1
  <2>3. CASE st.older = 0
    <3> DEFINE older == IF st.id - 1 \in Ids(db) THEN st.id - 1 ELSE 0
               ret == IF Get(st.id) \in range THEN Append(st.ret, 0) ELSE st.ret
    <3>1. older \in Nat /\ ret \in Seq(Nat)
      BY <1>1, <2>1, <2>2
    <3>2. Pass(st, range) = [id |-> st.id - 2, older |-> older, first |-> st.id, ret |-> ret]
      BY <2>3 DEF Pass
    <3> HIDE DEF older, ret
    <3>3. st.id - 2 \in Int
      BY <1>1
    <3>4. [id |-> st.id - 2, older |-> older, first |-> st.id, ret |-> ret] \in Scans
      BY <1>1, <2>1, <3>1, <3>3 DEF Scans
    <3>5. Advance(st, range, limit) = Pass(st, range)
      BY <1>3, Zenon DEF Advance
    <3> QED BY <3>2, <3>4, <3>5, Zenon
  <2>4. CASE st.older # 0
    <3> DEFINE ret == IF Get(st.older) \in range THEN Append(st.ret, st.older) ELSE st.ret
    <3>1. ret \in Seq(Nat)
      BY <1>1, <2>2
    <3>2. Pass(st, range) = [id |-> st.id - 1, older |-> st.id, first |-> st.first, ret |-> ret]
      BY <2>4, Zenon DEF Pass, Scans
    <3> HIDE DEF ret
    <3>3. st.id - 1 \in Int
      BY <1>1
    <3>4. [id |-> st.id - 1, older |-> st.id, first |-> st.first, ret |-> ret] \in Scans
      BY <1>1, <2>1, <3>1, <3>3 DEF Scans
    <3>5. Advance(st, range, limit) = Pass(st, range)
      BY <1>3, Zenon DEF Advance
    <3> QED BY <3>2, <3>4, <3>5, Zenon
  <2> QED BY <2>3, <2>4
<1> QED BY <1>2, <1>3

ScanStart == [id |-> nextId - 1, older |-> 0, first |-> 0, ret |-> <<>>]

\* The loop's state after each of the passes.
Passing(A, range, limit) ==
  /\ A \in [0 .. nextId -> Scans] /\ A[0] = ScanStart /\ Passes(range, limit) = A[nextId]
  /\ \A k \in 1 .. nextId : A[k] = Advance(A[k - 1], range, limit)

LEMMA PassesSteps ==
  ASSUME TypeOK, NEW range, NEW limit \in Nat
  PROVE  \E A : Passing(A, range, limit)
<1> DEFINE n == nextId
           Op(st) == Advance(st, range, limit)
           op == [p \in Scans \X (1 .. n) |-> Op(p[1])]
           Rec(g) == [i \in 0 .. n |-> IF i = 0 THEN ScanStart ELSE Op(g[i - 1])]
           after == CHOOSE g : g = Rec(g)
<1>1. Passes(range, limit) = after[n]
  BY DEF Passes, ScanStart
<1>2. n \in Nat /\ n # 0
  BY DEF TypeOK
<1>3. ScanStart \in Scans
  BY <1>2 DEF ScanStart, Scans
<1>4. \A st \in Scans : Op(st) \in Scans
  BY AdvanceType
<1> HIDE DEF n, Op
<1>5. op \in [Scans \X (1 .. n) -> Scans] /\ \A st \in Scans, i \in 1 .. n : op[<<st, i>>] = Op(st)
  BY <1>4
<1> HIDE DEF op
<1>6. PICK A : Loop(A, n, Scans, ScanStart, op)
  BY <1>2, <1>3, <1>5, SomeLoop, Zenon
<1>7. /\ A \in [0 .. n -> Scans] /\ A[0] = ScanStart
      /\ \A k \in 1 .. n : k - 1 \in 0 .. n /\ A[k] = op[<<A[k - 1], k>>]
  BY <1>2, <1>6 DEF Loop
<1>8. \A k \in 1 .. n : A[k] = Op(A[k - 1])
  BY <1>5, <1>7, Zenon
<1>9. A = Rec(A)
  BY <1>2, <1>7, <1>8
<1>10. after = Rec(after)
  <2> HIDE DEF Rec
  <2> QED BY <1>9
<1> HIDE DEF after
<1>11. /\ DOMAIN after = 0 .. n /\ after[0] = ScanStart /\ after = [i \in 0 .. n |-> after[i]]
       /\ \A k \in 1 .. n : after[k] = Op(after[k - 1])
  BY <1>2, <1>10
<1> DEFINE Good == {k \in 0 .. n : after[k] \in Scans}
<1>12. 0 \in Good
  BY <1>2, <1>3, <1>11
<1>13. ASSUME NEW k \in 1 .. n, k - 1 \in Good PROVE k \in Good
  BY <1>4, <1>11, <1>13
<1>14. 0 .. n \subseteq Good
  <2> HIDE DEF Good
  <2> QED BY <1>2, <1>12, <1>13, UpTo, Zenon
<1>15. after \in [0 .. n -> Scans]
  BY <1>11, <1>14
<1>16. Passing(after, range, limit)
  BY <1>1, <1>11, <1>15 DEF n, Op, Passing
<1> QED BY <1>16

\* The results of a scan are the ids of a list, where 0 is the newest one.
Shows(ret, f, n) ==
  Len(ret) = Len(f) /\ \A i \in 1 .. Len(ret) : f[i] = IF ret[i] = 0 THEN n ELSE ret[i]

LEMMA ShowsMore ==
  ASSUME NEW n \in Nat, NEW ret \in Seq(Nat), NEW f \in Seq(Nat), Shows(ret, f, n), NEW x \in Nat
  PROVE  Shows(Append(ret, x), Append(f, IF x = 0 THEN n ELSE x), n)
<1> DEFINE y == IF x = 0 THEN n ELSE x
<1>1. y \in Nat
  OBVIOUS
<1> HIDE DEF y
<1>2. /\ Len(Append(ret, x)) = Len(ret) + 1 /\ Len(Append(f, y)) = Len(f) + 1
      /\ \A i \in 1 .. Len(ret) : Append(ret, x)[i] = ret[i]
      /\ \A i \in 1 .. Len(f) : Append(f, y)[i] = f[i]
      /\ Append(ret, x)[Len(ret) + 1] = x /\ Append(f, y)[Len(f) + 1] = y /\ Len(ret) \in Nat
  BY <1>1
<1>3. Shows(Append(ret, x), Append(f, y), n)
  <2> SUFFICES ASSUME NEW i \in 1 .. (Len(ret) + 1)
               PROVE  Append(f, y)[i] = IF Append(ret, x)[i] = 0 THEN n ELSE Append(ret, x)[i]
    BY <1>2 DEF Shows
  <2>1. CASE i = Len(ret) + 1
    BY <1>2, <2>1 DEF Shows, y
  <2>2. CASE i \in 1 .. Len(ret)
    BY <1>2, <2>2 DEF Shows
  <2>3. i = Len(ret) + 1 \/ i \in 1 .. Len(ret)
    BY <1>2
  <2> QED BY <2>1, <2>2, <2>3, Zenon
<1> QED BY <1>3 DEF y

\* After p passes, of which none was the last one, over ids of m .. n, f being the ids that
\* were looked at.
Scanned(st, p, f, m, n, limit) ==
  /\ st.first = n /\ st.id = n - 1 - p /\ st.older = (IF n - p >= m THEN n - p ELSE 0)
  /\ p = 1 \/ n - p >= m
  /\ Shows(st.ret, f, n)
  /\ limit > 0 => Len(st.ret) <= limit

\* The first one, of the newest id.
LEMMA FirstPass ==
  ASSUME TypeOK, NEW n \in Nat, nextId = n + 1, NEW m \in 1 .. n, Ids(db) = m .. n,
         \A i \in m .. n : Get(i) = i, NEW range, NEW limit \in Nat
  PROVE  Scanned(Advance(ScanStart, range, limit), 1,
                 IF n \in range THEN Append(<<>>, n) ELSE <<>>, m, n, limit)
<1> DEFINE st == ScanStart
           st2 == Advance(st, range, limit)
           f == IF n \in range THEN Append(<<>>, n) ELSE <<>>
<1>1. st.id = n /\ st.older = 0 /\ st.first = 0 /\ st.ret = <<>> /\ Len(<<>>) = 0
  BY DEF ScanStart
<1>2. n \in m .. n /\ n > 0 /\ Get(n) = n
  OBVIOUS
<1>3. ~Over(st, limit)
  BY <1>1, <1>2 DEF Over
<1>4. st2 = [id |-> n - 2, older |-> IF n - 1 \in Ids(db) THEN n - 1 ELSE 0, first |-> n,
             ret |-> IF Get(n) \in range THEN Append(<<>>, 0) ELSE <<>>]
  BY <1>1, <1>3 DEF Advance, Pass
<1> HIDE DEF st, st2
<1>5. st2.id = n - 1 - 1 /\ st2.first = n /\ st2.older = IF n - 1 >= m THEN n - 1 ELSE 0
  BY <1>4
<1>6. Shows(st2.ret, f, n) /\ Len(st2.ret) <= 1
  <2>1. Shows(<<>>, <<>>, n)
    BY DEF Shows
  <2>2. Shows(Append(<<>>, 0), Append(<<>>, n), n)
    <3>1. <<>> \in Seq(Nat) /\ 0 \in Nat
      OBVIOUS
    <3>2. Shows(Append(<<>>, 0), Append(<<>>, IF 0 = 0 THEN n ELSE 0), n)
      BY <2>1, <3>1, ShowsMore, Zenon
    <3> QED BY <3>2
  <2>3. st2.ret = IF n \in range THEN Append(<<>>, 0) ELSE <<>>
    BY <1>2, <1>4
  <2>4. Len(Append(<<>>, 0)) = 1 /\ Len(<<>>) = 0
    OBVIOUS
  <2> QED BY <2>1, <2>2, <2>3, <2>4
<1>7. limit > 0 => Len(st2.ret) <= limit
  <2>1. Len(st2.ret) \in {0, 1}
    BY <1>4
  <2> QED BY <1>6, <2>1
<1> HIDE DEF f
<1>8. Scanned(st2, 1, f, m, n, limit)
  BY <1>5, <1>6, <1>7 DEF Scanned
<1> QED BY <1>8 DEF st, st2, f

\* And another one, of the id after the last p ones.
LEMMA NextPass ==
  ASSUME TypeOK, NEW n \in Nat, NEW m \in 1 .. n, Ids(db) = m .. n,
         \A i \in m .. n : Get(i) = i, NEW range, NEW limit \in Nat,
         NEW st \in Scans, NEW p \in 1 .. n, NEW f \in Seq(Nat), Scanned(st, p, f, m, n, limit),
         ~Over(st, limit)
  PROVE  /\ n - p > m
         /\ Scanned(Advance(st, range, limit), p + 1,
                    IF n - p \in range THEN Append(f, n - p) ELSE f, m, n, limit)
<1> DEFINE st2 == Advance(st, range, limit)
           g == IF n - p \in range THEN Append(f, n - p) ELSE f
<1>1. st.id \in Int /\ st.older \in Nat /\ st.first = n /\ st.ret \in Seq(Nat) /\ Len(st.ret) \in Nat
  BY DEF Scans, Scanned
<1>2. st.id \in m .. n /\ st.id = n - 1 - p
  BY <1>1 DEF Over, Scanned
<1>3. n - p > m /\ n - p \in m .. n /\ st.older = n - p /\ st.older # 0 /\ n - p \in Nat
  BY <1>2 DEF Scanned
<1>4. st2 = [id |-> st.id - 1, older |-> st.id, first |-> st.first,
             ret |-> IF n - p \in range THEN Append(st.ret, n - p) ELSE st.ret]
  BY <1>3, Zenon DEF Advance, Pass, Scans
<1> HIDE DEF st2
<1>5. /\ st2.id = n - 1 - (p + 1) /\ st2.first = n
      /\ n - (p + 1) >= m /\ st2.older = n - (p + 1)
  BY <1>1, <1>2, <1>3, <1>4
<1>6. Shows(st2.ret, g, n)
  <2>1. Shows(st.ret, f, n)
    BY DEF Scanned
  <2>2. Shows(Append(st.ret, n - p), Append(f, n - p), n)
    <3>1. Shows(Append(st.ret, n - p), Append(f, IF n - p = 0 THEN n ELSE n - p), n)
      BY <1>1, <1>3, <2>1, ShowsMore
    <3>2. n - p # 0
      BY <1>3
    <3> QED BY <3>1, <3>2
  <2>3. st2.ret = IF n - p \in range THEN Append(st.ret, n - p) ELSE st.ret
    BY <1>4
  <2> QED BY <2>1, <2>2, <2>3
<1>7. limit > 0 => Len(st2.ret) <= limit
  <2>1. limit > 0 => Len(st.ret) < limit
    BY <1>1 DEF Over
  <2>2. Len(st2.ret) \in {Len(st.ret), Len(st.ret) + 1}
    BY <1>1, <1>3, <1>4
  <2> QED BY <1>1, <2>1, <2>2
<1> HIDE DEF g
<1>8. Scanned(st2, p + 1, g, m, n, limit)
  BY <1>5, <1>6, <1>7 DEF Scanned
<1> QED BY <1>3, <1>8 DEF st2, g

\* A list of the numbers of S, from the greatest to the least.
Lists(ret, S) ==
  ret \in Seq(Nat) /\ Range(ret) = S /\ \A i, j \in DOMAIN ret : i < j => ret[i] > ret[j]

LEMMA ListsMore ==
  ASSUME NEW ret, NEW S, Lists(ret, S), NEW x \in Nat, \A y \in S : y > x
  PROVE  Lists(Append(ret, x), S \cup {x})
<1> DEFINE new == Append(ret, x)
           n == Len(ret)
<1>1. /\ ret \in Seq(Nat) /\ n \in Nat /\ DOMAIN ret = 1 .. n /\ Range(ret) = S
      /\ \A i, j \in 1 .. n : i < j => ret[i] > ret[j]
      /\ \A i \in 1 .. n : ret[i] \in S
  BY DEF Lists, Range
<1>2. /\ new \in Seq(Nat) /\ DOMAIN new = 1 .. (n + 1) /\ new[n + 1] = x
      /\ \A i \in 1 .. n : new[i] = ret[i]
  BY <1>1
<1> HIDE DEF new, n
<1>3. \A i \in 1 .. (n + 1) : i \in 1 .. n \/ i = n + 1
  BY <1>1
<1>4. Range(new) = S \cup {x}
  <2>1. Range(new) \subseteq S \cup {x}
    BY <1>1, <1>2, <1>3 DEF Range
  <2>2. \A i \in 1 .. n : i \in 1 .. (n + 1)
    BY <1>1
  <2>3. S \subseteq Range(new)
    BY <1>1, <1>2, <2>2 DEF Range
  <2>4. n + 1 \in 1 .. (n + 1)
    BY <1>1
  <2> QED BY <1>2, <2>1, <2>3, <2>4 DEF Range
<1>5. ASSUME NEW i \in DOMAIN new, NEW j \in DOMAIN new, i < j PROVE new[i] > new[j]
  <2>1. i \in 1 .. n
    BY <1>1, <1>2, <1>5
  <2>2. new[i] = ret[i] /\ ret[i] \in S
    BY <1>1, <1>2, <2>1
  <2>3. CASE j \in 1 .. n
    BY <1>1, <1>2, <1>5, <2>1, <2>2, <2>3
  <2>4. CASE j = n + 1
    BY <1>2, <2>2, <2>4
  <2> QED BY <1>2, <1>3, <2>3, <2>4
<1>6. Lists(new, S \cup {x})
  BY <1>2, <1>4, <1>5 DEF Lists
<1> QED BY <1>6 DEF new

\* The matches above b, and the list with the next one, if b is a match.
Above(M, b) == {x \in M : x > b}
Plus(ret, M, b) == IF b \in M THEN Append(ret, b) ELSE ret

\* The matches above b, none being left, or as many as the limit.
LEMMA ListsAnswer ==
  ASSUME NEW ret, NEW M \in SUBSET Nat, NEW b \in Nat, Lists(ret, Above(M, b)), NEW limit \in Nat,
         limit > 0 => Len(ret) <= limit,
         (\A x \in M : x > b) \/ (limit > 0 /\ Len(ret) = limit)
  PROVE  Answers(ret, M, limit)
<1>1. /\ ret \in Seq(Nat) /\ Range(ret) = {x \in M : x > b}
      /\ \A i, j \in DOMAIN ret : i < j => ret[i] > ret[j]
      /\ \A i \in DOMAIN ret : ret[i] \in Range(ret) /\ ret[i] \in Nat
  BY DEF Lists, Range, Above
<1>2. ASSUME NEW x \in M \ Range(ret)
      PROVE  limit > 0 /\ Len(ret) = limit /\ \A i \in DOMAIN ret : ret[i] > x
  <2>1. x \in Nat /\ ~(x > b)
    BY <1>1
  <2>2. \A i \in DOMAIN ret : ret[i] > b /\ ret[i] \in Nat
    BY <1>1
  <2> QED BY <2>1, <2>2
<1>3. Range(ret) \subseteq M
  BY <1>1
<1> QED BY <1>1, <1>2, <1>3, Zenon DEF Answers

LEMMA NoneListed == Lists(<<>>, {})
BY DEF Lists, Range

\* The next lower number is looked at.
LEMMA ListsNext ==
  ASSUME NEW ret, NEW M \in SUBSET Nat, NEW b \in Nat, Lists(ret, Above(M, b)), b > 0
  PROVE  Lists(Plus(ret, M, b), Above(M, b - 1))
<1>1. \A x \in M : x > b - 1 <=> x > b \/ x = b
  OBVIOUS
<1>2. CASE b \in M
  <2>1. Lists(Append(ret, b), Above(M, b) \cup {b})
    BY ListsMore DEF Above
  <2>2. Above(M, b - 1) = Above(M, b) \cup {b}
    BY <1>1, <1>2, Zenon DEF Above
  <2> QED BY <1>2, <2>1, <2>2, Zenon DEF Plus
<1>3. CASE b \notin M
  <2>1. Above(M, b - 1) = Above(M, b)
    BY <1>1, <1>3, Zenon DEF Above
  <2> QED BY <1>3, <2>1, Zenon DEF Plus
<1> QED BY <1>2, <1>3

\* The list of Rows after each record, of ids up to n.
Looking(A, n, range, limit) ==
  /\ A \in [0 .. n -> Seq(Nat)] /\ A[0] = <<>> /\ Rows(range, limit) = A[n]
  /\ \A k \in 1 .. n : A[k] = Look(A[k - 1], n + 1 - k, range, limit)

LEMMA RowsSteps ==
  ASSUME NEW n \in Nat, Max({0} \cup Ids(db)) = n, \A i \in Ids(db) : Get(i) \in Nat, NEW range,
         NEW limit \in Nat
  PROVE  \E A : Looking(A, n, range, limit)
<1> DEFINE V == Seq(Nat)
           Op(ret, i) == Look(ret, n + 1 - i, range, limit)
           op == [p \in V \X (1 .. n) |-> Op(p[1], p[2])]
           Rec(g) == [i \in 0 .. n |-> IF i = 0 THEN <<>> ELSE Op(g[i - 1], i)]
           after == CHOOSE g : g = Rec(g)
<1>1. Rows(range, limit) = after[n]
  BY Zenon DEF Rows
<1>2. <<>> \in V
  OBVIOUS
<1>3. ASSUME NEW ret \in V, NEW i \in 1 .. n PROVE Op(ret, i) \in V
  <2>1. CASE n + 1 - i \in Ids(db)
    <3>1. Append(ret, Get(n + 1 - i)) \in V
      BY <2>1
    <3> QED BY <3>1 DEF Look
  <2>2. CASE n + 1 - i \notin Ids(db)
    BY <2>2 DEF Look
  <2> QED BY <2>1, <2>2
<1> HIDE DEF V, Op
<1>4. /\ op \in [V \X (1 .. n) -> V]
      /\ \A ret \in V, i \in 1 .. n : op[<<ret, i>>] = Op(ret, i)
  BY <1>3
<1> HIDE DEF op
<1>5. PICK A : Loop(A, n, V, <<>>, op)
  BY <1>2, <1>4, SomeLoop, Zenon
<1>6. /\ A \in [0 .. n -> V] /\ A[0] = <<>>
      /\ \A k \in 1 .. n : k - 1 \in 0 .. n /\ A[k] = op[<<A[k - 1], k>>]
  BY <1>5 DEF Loop
<1>7. \A k \in 1 .. n : A[k] = Op(A[k - 1], k)
  BY <1>4, <1>6, Zenon
<1>8. A = Rec(A)
  BY <1>6, <1>7
<1>9. after = Rec(after)
  <2> HIDE DEF Rec
  <2> QED BY <1>8
<1> HIDE DEF after
<1>10. /\ after[0] = <<>> /\ after = [i \in 0 .. n |-> after[i]]
       /\ \A k \in 1 .. n : after[k] = Op(after[k - 1], k)
  BY <1>9
<1> DEFINE Good == {k \in 0 .. n : after[k] \in V}
<1>11. 0 \in Good
  BY <1>2, <1>10
<1>12. ASSUME NEW k \in 1 .. n, k - 1 \in Good PROVE k \in Good
  <2>1. after[k - 1] \in V /\ k \in 0 .. n
    BY <1>12
  <2>2. Op(after[k - 1], k) \in V
    BY <1>3, <2>1
  <2> QED BY <1>10, <2>1, <2>2
<1>13. 0 .. n \subseteq Good
  <2> HIDE DEF Good
  <2> QED BY <1>11, <1>12, UpTo, Zenon
<1>14. after \in [0 .. n -> V]
  BY <1>10, <1>13
<1>15. Looking(after, n, range, limit)
  BY <1>1, <1>10, <1>14, Zenon DEF V, Op, Looking
<1> QED BY <1>15

\* memory and gorm, over ids up to n.
LEMMA RowsLatest ==
  ASSUME NEW n \in Nat, NEW K \in SUBSET (1 .. n), Ids(db) = K, K = {} \/ n \in K,
         \A i \in K : Get(i) = i, NEW range, NEW limit \in Nat
  PROVE  Answers(Rows(range, limit), K \cap range, limit)
<1> DEFINE M == K \cap range
           top == Max({0} \cup Ids(db))
<1>1. \A i \in K : i \in Nat /\ n >= i /\ i > 0
  OBVIOUS
<1>2. CASE K = {}
  <2>1. {0} \cup Ids(db) = {0}
    BY <1>2
  <2>2. Max({0} \cup Ids(db)) = 0
    BY <2>1 DEF Max
  <2>3. PICK A : Looking(A, 0, range, limit)
    BY <1>2, <2>2, RowsSteps
  <2>4. Rows(range, limit) = <<>>
    BY <2>3 DEF Looking
  <2>5. M = {}
    BY <1>2
  <2>6. Lists(<<>>, Above(M, 0))
    <3>1. Above(M, 0) = {}
      BY <2>5 DEF Above
    <3> QED BY <3>1, NoneListed, Zenon
  <2>7. Len(<<>>) = 0 /\ M \in SUBSET Nat
    BY <2>5
  <2>8. Answers(<<>>, M, limit)
    BY <2>5, <2>6, <2>7, ListsAnswer
  <2> QED BY <2>4, <2>8
<1>3. CASE K # {}
  <2>1. n \in K
    BY <1>3, Zenon
  <2>2. top = n
    <3>1. n \in {0} \cup Ids(db)
      BY <2>1
    <3>2. \A i \in {0} \cup Ids(db) : i \in Nat /\ n >= i
      BY <1>1
    <3>3. top \in {0} \cup Ids(db) /\ top >= n
      BY <3>1, <3>2, Zenon DEF Max
    <3> HIDE DEF top
    <3>4. top \in Nat /\ n >= top
      BY <3>2, <3>3, Zenon
    <3> QED BY <3>3, <3>4
  <2>3. PICK A : Looking(A, n, range, limit)
    <3>1. \A i \in Ids(db) : Get(i) \in Nat
      BY <1>1, Zenon
    <3> QED BY <2>2, <3>1, RowsSteps
  <2>4. /\ A \in [0 .. n -> Seq(Nat)] /\ A[0] = <<>> /\ Rows(range, limit) = A[n]
        /\ \A k \in 1 .. n : A[k] = Look(A[k - 1], n + 1 - k, range, limit)
    BY <2>3 DEF Looking
  <2>5. M \in SUBSET Nat /\ \A x \in M : x \in Nat /\ x > 0 /\ n >= x
    BY <1>1, Zenon
  <2> DEFINE Seen(ret, k, b) == /\ n - k <= b /\ Lists(ret, Above(M, b))
                                /\ b = n - k \/ (limit > 0 /\ Len(ret) = limit)
                                /\ limit > 0 => Len(ret) <= limit
             Good == {k \in 0 .. n : \E b \in 0 .. n : Seen(A[k], k, b)}
  <2>6. 0 \in Good
    <3>1. Above(M, n) = {}
      BY <2>5 DEF Above
    <3>2. Lists(<<>>, Above(M, n))
      BY <3>1, NoneListed, Zenon
    <3>3. Len(<<>>) = 0
      OBVIOUS
    <3>4. Seen(<<>>, 0, n)
      BY <3>2, <3>3
    <3>5. n \in 0 .. n /\ 0 \in 0 .. n
      OBVIOUS
    <3> HIDE DEF Seen
    <3> QED BY <2>4, <3>4, <3>5
  <2>7. ASSUME NEW k \in 1 .. n, k - 1 \in Good PROVE k \in Good
    <3> DEFINE ret == A[k - 1]
               id == n + 1 - k
    <3>1. PICK b \in 0 .. n : Seen(ret, k - 1, b)
      BY <2>7, Zenon
    <3>2. /\ id \in Nat /\ id > 0 /\ id - 1 = n - k /\ id = n - (k - 1) /\ id <= b /\ b \in Nat
          /\ k \in 0 .. n /\ n - k \in 0 .. n
      BY <3>1
    <3>3. ret \in Seq(Nat) /\ Len(ret) \in Nat /\ A[k] = Look(ret, id, range, limit)
      BY <2>4
    <3>4. id \in M <=> id \in Ids(db) /\ Get(id) \in range
      <4>1. id \in K => Get(id) = id
        OBVIOUS
      <4> QED BY <4>1
    <3> HIDE DEF ret, id, M
    <3>5. CASE limit > 0 /\ Len(ret) = limit
      <4>1. A[k] = ret
        BY <3>3, <3>5 DEF Look
      <4>2. Seen(A[k], k, b)
        BY <3>1, <3>2, <3>5, <4>1
      <4> HIDE DEF Seen
      <4> QED BY <3>2, <4>2
    <3>6. CASE ~(limit > 0 /\ Len(ret) = limit)
      <4>1. b = id /\ Lists(ret, Above(M, id)) /\ (limit > 0 => Len(ret) < limit)
        <5>1. b = id
          BY <3>1, <3>2, <3>6
        <5>2. limit > 0 => Len(ret) < limit
          BY <3>1, <3>3, <3>6
        <5>3. Lists(ret, Above(M, b))
          BY <3>1, Zenon
        <5> QED BY <5>1, <5>2, <5>3, Zenon
      <4>2. Lists(Plus(ret, M, id), Above(M, id - 1))
        <5>1. M \in SUBSET Nat /\ id \in Nat /\ id > 0 /\ Lists(ret, Above(M, id))
          BY <2>5, <3>2, <4>1, Zenon
        <5> QED BY <5>1, ListsNext, Zenon
      <4>3. A[k] = Plus(ret, M, id)
        <5>1. id \in M => Get(id) = id /\ id \in Ids(db)
          BY DEF M
        <5> QED BY <3>3, <3>4, <4>1, <5>1 DEF Look, Plus
      <4>4. Lists(A[k], Above(M, n - k))
        BY <3>2, <4>2, <4>3
      <4>5. limit > 0 => Len(A[k]) <= limit
        <5>1. Len(A[k]) \in {Len(ret), Len(ret) + 1}
          <6>1. Len(Append(ret, id)) = Len(ret) + 1
            BY <3>2, <3>3
          <6> QED BY <4>3, <6>1, Zenon DEF Plus
        <5> QED BY <3>3, <4>1, <5>1
      <4>6. Seen(A[k], k, n - k)
        BY <3>2, <4>4, <4>5
      <4> HIDE DEF Seen
      <4> QED BY <3>2, <4>6
    <3> QED BY <3>5, <3>6
  <2>8. PICK b \in 0 .. n : Seen(A[n], n, b)
    <3> HIDE DEF Good
    <3>1. 0 .. n \subseteq Good
      BY <2>6, <2>7, UpTo, Zenon
    <3>2. n \in Good
      BY <3>1
    <3> QED BY <3>2, Zenon DEF Good
  <2>9. /\ Lists(A[n], Above(M, b)) /\ b \in Nat
        /\ limit > 0 => Len(A[n]) <= limit
        /\ (\A x \in M : x > b) \/ (limit > 0 /\ Len(A[n]) = limit)
    BY <2>5, <2>8
  <2> HIDE DEF M, Seen, Good
  <2>10. Answers(A[n], M, limit)
    BY <2>5, <2>9, ListsAnswer, Zenon
  <2> QED BY <2>4, <2>10 DEF M
<1> QED BY <1>2, <1>3

\* bbolt and badger, over ids of m .. n: all but the oldest, if there are two.
LEMMA ScanLatest ==
  ASSUME TypeOK, NEW n \in Nat, nextId = n + 1, NEW m \in 1 .. n, Ids(db) = m .. n,
         \A i \in m .. n : Get(i) = i, NEW range, NEW limit \in Nat,
         NEW all, all = IF m < n THEN (m + 1) .. n ELSE m .. n
  PROVE  Answers(Scan(range, limit), all \cap range, limit)
<1> DEFINE M == all \cap range
<1>1. \A i \in m .. n : i \in all <=> (i > m \/ m = n)
  OBVIOUS
<1>2. all \subseteq m .. n
  OBVIOUS
<1>3. M \subseteq m .. n /\ \A i \in m .. n : (i > m \/ m = n) => (i \in M <=> i \in range)
  BY <1>1, <1>2
<1>4. \A i \in M : i \in Nat /\ m <= i /\ i <= n /\ (i > m \/ m = n)
  BY <1>1, <1>2
<1>5. M \in SUBSET Nat
  BY <1>4
<1> HIDE DEF M
<1>6. PICK A : Passing(A, range, limit)
  BY PassesSteps, Zenon
<1>7. /\ A \in [0 .. nextId -> Scans] /\ A[0] = ScanStart /\ Passes(range, limit) = A[nextId]
      /\ \A k \in 1 .. nextId : A[k] = Advance(A[k - 1], range, limit)
  BY <1>6 DEF Passing
<1> DEFINE Done(st, k, p, f) == /\ p <= k /\ Scanned(st, p, f, m, n, limit)
                                /\ Lists(f, Above(M, n - p))
                                /\ p = k \/ Over(st, limit)
           Good == {k \in 0 .. nextId : k = 0 \/ \E p \in 1 .. n : \E f : Done(A[k], k, p, f)}
<1>8. 0 \in Good /\ nextId \in Nat
  OBVIOUS
<1>9. ASSUME NEW k \in 1 .. nextId, k - 1 \in Good PROVE k \in Good
  <2>1. A[k] = Advance(A[k - 1], range, limit) /\ A[k - 1] \in Scans /\ k \in 0 .. nextId
    BY <1>7
  <2>2. CASE k = 1
    <3>1. 1 \in 1 .. n /\ n \in m .. n /\ n > 0 /\ (n > m \/ m = n)
      OBVIOUS
    <3>2. Plus(<<>>, M, n) = IF n \in range THEN Append(<<>>, n) ELSE <<>>
      BY <1>3, <3>1, Zenon DEF Plus
    <3>3. Lists(Plus(<<>>, M, n), Above(M, n - 1))
      <4>1. Above(M, n) = {}
        BY <1>4 DEF Above
      <4>2. Lists(<<>>, Above(M, n))
        BY <4>1, NoneListed, Zenon
      <4> QED BY <1>5, <3>1, <4>2, ListsNext, Zenon
    <3>4. Scanned(A[k], 1, Plus(<<>>, M, n), m, n, limit)
      <4>1. Scanned(Advance(ScanStart, range, limit), 1,
                    IF n \in range THEN Append(<<>>, n) ELSE <<>>, m, n, limit)
        BY FirstPass, Zenon
      <4>2. A[k - 1] = ScanStart
        BY <1>7, <2>2
      <4> QED BY <2>1, <3>2, <4>1, <4>2, Zenon
    <3>5. Done(A[k], k, 1, Plus(<<>>, M, n))
      BY <2>2, <3>3, <3>4
    <3> HIDE DEF Done
    <3> QED BY <2>1, <3>1, <3>5
  <2>3. CASE k # 1
    <3>1. PICK p \in 1 .. n : \E f : Done(A[k - 1], k - 1, p, f)
      <4> HIDE DEF Done
      <4> QED BY <1>9, <2>3
    <3>2. PICK f : Done(A[k - 1], k - 1, p, f)
      BY <3>1, Zenon
    <3>3. p <= k - 1 /\ Scanned(A[k - 1], p, f, m, n, limit) /\ Lists(f, Above(M, n - p))
      BY <3>2, Zenon
    <3>4. f \in Seq(Nat)
      BY <3>3 DEF Lists
    <3>5. CASE Over(A[k - 1], limit)
      <4>1. A[k] = A[k - 1]
        BY <2>1, <3>5 DEF Advance
      <4>2. p <= k
        BY <3>3
      <4>3. Done(A[k], k, p, f)
        BY <3>3, <3>5, <4>1, <4>2, Zenon
      <4> HIDE DEF Done
      <4> QED BY <2>1, <4>3
    <3>6. CASE ~Over(A[k - 1], limit)
      <4> DEFINE b == n - p
      <4>1. /\ b > m
            /\ Scanned(A[k], p + 1, IF b \in range THEN Append(f, b) ELSE f, m, n, limit)
        <5>1. /\ n - p > m
              /\ Scanned(Advance(A[k - 1], range, limit), p + 1,
                         IF n - p \in range THEN Append(f, n - p) ELSE f, m, n, limit)
          BY <2>1, <3>3, <3>4, <3>6, NextPass, Zenon
        <5> QED BY <2>1, <5>1, Zenon
      <4>2. p + 1 \in 1 .. n /\ b \in m .. n /\ b \in Nat /\ b > 0 /\ b - 1 = n - (p + 1)
        BY <4>1
      <4>3. p = k - 1
        BY <3>2, <3>6, Zenon
      <4>4. p + 1 = k
        BY <4>3
      <4>5. Lists(f, Above(M, b))
        BY <3>3, Zenon
      <4> HIDE DEF b
      <4>6. Plus(f, M, b) = IF b \in range THEN Append(f, b) ELSE f
        BY <1>3, <4>1, <4>2, Zenon DEF Plus
      <4>7. Lists(Plus(f, M, b), Above(M, b - 1))
        BY <1>5, <4>2, <4>5, ListsNext, Zenon
      <4>8. Scanned(A[k], p + 1, Plus(f, M, b), m, n, limit)
        BY <4>1, <4>6, Zenon
      <4>9. Lists(Plus(f, M, b), Above(M, n - (p + 1)))
        BY <4>2, <4>7, Zenon
      <4>10. p + 1 <= k
        BY <4>4
      <4>11. Done(A[k], k, p + 1, Plus(f, M, b))
        BY <4>4, <4>8, <4>9, <4>10, Zenon
      <4> HIDE DEF Done
      <4> QED BY <2>1, <4>2, <4>11
    <3> QED BY <3>5, <3>6
  <2> QED BY <2>2, <2>3
<1>10. PICK p \in 1 .. n : \E f : Done(A[nextId], nextId, p, f)
  <2> HIDE DEF Good
  <2>1. 0 .. nextId \subseteq Good
    BY <1>8, <1>9, UpTo, Zenon
  <2>2. nextId \in Good /\ nextId # 0
    BY <2>1
  <2> HIDE DEF Done
  <2> QED BY <2>2 DEF Good
<1>11. PICK f : Done(A[nextId], nextId, p, f)
  BY <1>10, Zenon
<1> DEFINE st == A[nextId]
<1>12. Scanned(st, p, f, m, n, limit) /\ Lists(f, Above(M, n - p)) /\ (p = nextId \/ Over(st, limit))
  BY <1>11, Zenon
<1>13. Over(st, limit) /\ st \in Scans
  BY <1>7, <1>12
<1>14. Passes(range, limit) = st
  BY <1>7
<1> HIDE DEF st, Done, Good
<1>15. /\ st.id \in Int /\ st.ret \in Seq(Nat) /\ Len(st.ret) \in Nat /\ st.first = n
       /\ Shows(st.ret, f, n) /\ st.id = n - 1 - p /\ (limit > 0 => Len(st.ret) <= limit)
       /\ p = 1 \/ n - p >= m
  BY <1>12, <1>13 DEF Scans, Scanned
<1>16. /\ f \in Seq(Nat) /\ Len(f) = Len(st.ret) /\ DOMAIN f = 1 .. Len(st.ret)
       /\ \A i \in DOMAIN f : f[i] \in M
  <2>1. f \in Seq(Nat) /\ Range(f) = Above(M, n - p)
    BY <1>12, Zenon DEF Lists
  <2>2. Len(f) = Len(st.ret)
    BY <1>15, Zenon DEF Shows
  <2>3. \A i \in DOMAIN f : f[i] \in M
    BY <2>1, Zenon DEF Range, Above
  <2> QED BY <2>1, <2>2, <2>3
<1>17. Scan(range, limit) = f
  <2>1. ASSUME NEW i \in 1 .. Len(st.ret)
        PROVE  Get(IF st.ret[i] = 0 THEN st.first ELSE st.ret[i]) = f[i]
    <3>1. f[i] = IF st.ret[i] = 0 THEN st.first ELSE st.ret[i]
      BY <1>15 DEF Shows
    <3>2. f[i] \in m .. n
      BY <1>3, <1>16, Zenon
    <3> QED BY <3>1, <3>2
  <2>2. DOMAIN st.ret = 1 .. Len(st.ret) /\ f = [i \in DOMAIN f |-> f[i]]
    BY <1>15, <1>16
  <2>3. Scan(range, limit)
          = [i \in DOMAIN st.ret |-> Get(IF st.ret[i] = 0 THEN st.first ELSE st.ret[i])]
    BY <1>14 DEF Scan
  <2> QED BY <1>16, <2>1, <2>2, <2>3
<1> DEFINE b == IF n >= p THEN n - p ELSE 0
<1>18. b \in Nat /\ b = n - p
  OBVIOUS
<1> HIDE DEF b
<1>19. Lists(f, Above(M, b)) /\ (limit > 0 => Len(f) <= limit)
  BY <1>12, <1>15, <1>16, <1>18
<1>20. (\A x \in M : x > b) \/ (limit > 0 /\ Len(f) = limit)
  <2>1. CASE limit > 0 /\ Len(st.ret) >= limit
    BY <1>15, <1>16, <2>1
  <2>2. CASE ~(limit > 0 /\ Len(st.ret) >= limit)
    <3>1. n - 1 - p < m
      BY <1>13, <1>15, <2>2 DEF Over
    <3>2. b <= m
      BY <1>18, <3>1
    <3>3. m = n => b < m
      BY <1>18
    <3> QED BY <1>4, <1>18, <3>2, <3>3
  <2> QED BY <2>1, <2>2
<1>21. Answers(f, M, limit)
  BY <1>5, <1>18, <1>19, <1>20, ListsAnswer, Zenon
<1> QED BY <1>17, <1>21 DEF M

\* bbolt and badger, without a record.
LEMMA ScanNone ==
  ASSUME TypeOK, Ids(db) = {}, NEW range, NEW limit \in Nat
  PROVE  Scan(range, limit) = <<>>
<1>1. PICK A : Passing(A, range, limit)
  BY PassesSteps, Zenon
<1>2. /\ A[0] = ScanStart /\ Passes(range, limit) = A[nextId] /\ nextId \in Nat
      /\ \A k \in 1 .. nextId : A[k] = Advance(A[k - 1], range, limit)
  BY <1>1 DEF Passing, TypeOK
<1>3. Advance(ScanStart, range, limit) = ScanStart
  BY DEF Advance, Over
<1> DEFINE Good == {k \in 0 .. nextId : A[k] = ScanStart}
<1>4. 0 \in Good
  BY <1>2
<1>5. ASSUME NEW k \in 1 .. nextId, k - 1 \in Good PROVE k \in Good
  BY <1>2, <1>3, <1>5
<1>6. Passes(range, limit) = ScanStart
  <2> HIDE DEF Good
  <2>1. 0 .. nextId \subseteq Good
    BY <1>2, <1>4, <1>5, UpTo, Zenon
  <2>2. nextId \in Good
    BY <1>2, <2>1
  <2> QED BY <1>2, <2>2 DEF Good
<1> QED BY <1>6 DEF Scan, ScanStart

\* What bbolt and badger leave out.
LEMMA AllButOldest ==
  ASSUME NEW n \in Nat, NEW m \in 1 .. n
  PROVE  (IF Cardinality(m .. n) > 1 THEN (m .. n) \ {Min(m .. n)} ELSE m .. n)
           = IF m < n THEN (m + 1) .. n ELSE m .. n
<1>1. Cardinality(m .. n) = n - m + 1
  BY FS_Interval
<1>2. m \in m .. n /\ \A i \in m .. n : m <= i
  OBVIOUS
<1>3. Min(m .. n) \in m .. n /\ \A i \in m .. n : Min(m .. n) <= i
  BY <1>2 DEF Min
<1>4. Min(m .. n) = m
  BY <1>2, <1>3
<1>5. (m .. n) \ {m} = (m + 1) .. n
  OBVIOUS
<1>6. CASE m < n
  <2>1. Cardinality(m .. n) > 1
    BY <1>1, <1>6
  <2> QED BY <1>4, <1>5, <1>6, <2>1, Zenon
<1>7. CASE ~(m < n)
  <2>1. ~(Cardinality(m .. n) > 1)
    BY <1>1, <1>7
  <2> QED BY <1>7, <2>1, Zenon
<1> QED BY <1>6, <1>7

LEMMA Latest ==
  ASSUME TypeOK, Ledger, First
  PROVE  QueryLatest
<1> DEFINE kept == 1 .. seq \ {r.seq : r \in gone}
           all == IF backend \in {"bbolt", "badger"} /\ Cardinality(kept) > 1
                  THEN kept \ {Min(kept)} ELSE kept
<1> SUFFICES ASSUME Quiet, NEW lo \in 0 .. MaxSeq[backend], NEW hi \in 0 .. MaxSeq[backend],
                    NEW limit \in 0 .. MaxSeq[backend]
             PROVE  Answers(FindLatest(lo .. hi, limit), all \cap lo .. hi, limit)
  BY Zenon DEF QueryLatest, Quiet
<1>1. /\ nextId = seq + 1 /\ Ids(db) = kept /\ seq \in Nat /\ limit \in Nat
      /\ \A r \in db : r.id = r.seq
      /\ \A i \in kept : Get(i) = i
  BY QuietFacts DEF TypeOK
<1>2. kept \in SUBSET (1 .. seq) /\ \A i \in kept : i + 1 \in kept \/ i + 1 = seq + 1
  BY <1>1, Zenon DEF Quiet
<1> HIDE DEF kept
<1>3. kept = {} \/ \E m \in 1 .. seq : kept = m .. seq
  BY <1>1, <1>2, Interval
<1>4. CASE backend \in {"memory", "gorm"}
  <2>1. all = kept
    BY <1>4
  <2>2. kept = {} \/ seq \in kept
    BY <1>1, <1>3
  <2>3. Answers(Rows(lo .. hi, limit), kept \cap lo .. hi, limit)
    BY <1>1, <1>2, <2>2, RowsLatest
  <2> QED BY <1>4, <2>1, <2>3, Zenon DEF FindLatest, FindLatestMemory, FindLatestGorm
<1>5. CASE backend \in {"bbolt", "badger"}
  <2>1. FindLatest(lo .. hi, limit) = Scan(lo .. hi, limit)
    BY <1>5 DEF FindLatest, FindLatestBbolt, FindLatestBadger
  <2>2. CASE kept = {}
    <3>1. Scan(lo .. hi, limit) = <<>>
      BY <1>1, <2>2, ScanNone
    <3>2. all = {}
      BY <2>2
    <3>3. Answers(<<>>, {}, limit)
      BY DEF Answers, Range
    <3>4. all \cap lo .. hi = {}
      BY <3>2
    <3> QED BY <2>1, <3>1, <3>3, <3>4, Zenon
  <2>3. CASE kept # {}
    <3>1. PICK m \in 1 .. seq : kept = m .. seq
      BY <1>3, <2>3
    <3>2. all = IF m < seq THEN (m + 1) .. seq ELSE m .. seq
      <4>1. (IF Cardinality(m .. seq) > 1 THEN (m .. seq) \ {Min(m .. seq)} ELSE m .. seq)
              = IF m < seq THEN (m + 1) .. seq ELSE m .. seq
        BY <1>1, AllButOldest, Zenon
      <4> QED BY <1>5, <3>1, <4>1, Zenon
    <3> HIDE DEF all
    <3>3. Answers(Scan(lo .. hi, limit), all \cap lo .. hi, limit)
      BY <1>1, <3>1, <3>2, ScanLatest
    <3> QED BY <2>1, <3>3
  <2> QED BY <2>2, <2>3
<1>6. backend \in {"memory", "bbolt", "badger", "gorm"}
  BY HistoryAssumption DEF TypeOK
<1> QED BY <1>4, <1>5, <1>6

\* A query on a settled history (FindLatest, in all four backends) gives the records that were
\* made and not collected, for every range and every limit: the loop of bbolt and badger, which
\* reads a record ahead, stops at the first missing id and keeps pointers to what it read, skips
\* the oldest record and loses, repeats or reorders no other; memory and gorm lose none at all.
THEOREM LatestFound == Spec => []QueryLatest
<1>1. Init => Counted /\ First
  BY InitCounted DEF Init, First
<1>2. HistInv /\ Counted /\ First /\ [Next]_vars => (Counted /\ First)'
  BY CountedStep, FirstStep DEF HistInv
<1>3. HistInv /\ First => QueryLatest
  BY Latest DEF HistInv
<1> QED BY <1>1, <1>2, <1>3, HistInvariant, PTL DEF Spec
=============================================================================
