------------------------------ MODULE History ------------------------------
(***************************************************************************)
(* Histories of a machine (pkg/history): a tracer turns transitions into   *)
(* records, kept in memory, or queued and written in batches to bbolt,     *)
(* badger or sqlite (gorm) by goroutines of their own, which also delete   *)
(* old records.  The process may crash and be started again on the same    *)
(* database.                                                               *)
(*                                                                         *)
(* A record is its id and its place among all records ever made, which     *)
(* stands for machine and human times.                                     *)
(***************************************************************************)
EXTENDS Integers, FiniteSets, FiniteSetsExt

CONSTANTS Backends,      \* of "memory", "bbolt", "badger", "gorm"
          Cfg,           \* BaseConfig, by backend: called, calledExclude, changed, changedExclude
          StateNames,
          MaxRecords, QueueBatch,
          GcSize,        \* gcSize of badger
          SavePool,      \* of gorm
          MaxSeq,        \* bound: records, by backend
          MaxCrashes     \* bound: crashes

ASSUME HistoryAssumption ==
  /\ Backends \subseteq {"memory", "bbolt", "badger", "gorm"}
  /\ MaxRecords \in Nat \ {0} /\ QueueBatch \in Nat \ {0} /\ GcSize \in Nat \ {0}
  /\ SavePool \in Nat \ {0} /\ MaxSeq \in [Backends -> Nat] /\ MaxCrashes \in Nat

VARIABLES
  backend,
  seq,        \* records made
  base,       \* records made before this process started
  crashes,
  nextId,     \* Memory.nextId
  queue,      \* Memory.queue, its length is SavePending
  jobs,       \* goroutines of writeDb: records, NextId, holds syncMx, progress
  saved,      \* Saved, and SavedGc
  savedGc,
  gc,         \* the goroutine of checkGc (which has gcMx): progress, from id, to id
  tracer,     \* a transition's call of TransitionEnd, which has tracersMx: in, nested (in
              \* Dispose), and states called and changed
  mx,         \* holder of Memory.mx
  phase,      \* of Dispose: up, disposing, closing (has mx), closed (the database), detached
  ctx,        \* Memory.Ctx: live, done
  db,         \* saved records ("times"); of "memory", all records
  ticks,      \* gorm: ids with saved ticks
  dbNext,     \* NextId of the saved machine record
  swapped,    \* history: a batch was saved after a later one
  gone        \* history: records collected, rotated or not saved

disk == <<db, ticks, dbNext>>
life == <<backend, base, crashes>>
vars == <<life, seq, nextId, queue, jobs, saved, savedGc, gc, tracer, mx, phase, ctx,
          disk, swapped, gone>>

Record(id, n) == [id |-> id, seq |-> n]
Ids(recs) == {r.id : r \in recs}
Out == [at |-> "out", called |-> {}, changed |-> {}]
NoGc == [at |-> "none", from |-> 0, to |-> 0]

Init ==
  /\ backend \in Backends
  /\ seq = 0 /\ base = 0 /\ crashes = 0 /\ nextId = 1
  /\ queue = {} /\ jobs = {} /\ saved = 0 /\ savedGc = 0 /\ gc = NoGc
  /\ tracer = Out /\ mx = "free" /\ phase = "up" /\ ctx = "live"
  /\ db = {} /\ ticks = {} /\ dbNext = 1
  /\ swapped = FALSE /\ gone = {}

-----------------------------------------------------------------------------
(* Which transitions are tracked *)

Match(cfg) ==
  (cfg.changedExclude \/ cfg.changed = {}) /\ (cfg.calledExclude \/ cfg.called = {})

\* The loops over cfg.Called and cfg.Changed: a listed state decides, or, in bbolt, badger
\* and half of gorm, a missing one.
ByListed(match, list, exclude, states) ==
  IF list \cap states # {} THEN ~exclude ELSE match
ByMissing(match, list, exclude, states) ==
  IF exclude
  THEN match /\ list \cap states = {}
  ELSE match \/ list \ states # {}

MatchMemory(cfg, called, changed) ==
  ByListed(ByListed(Match(cfg), cfg.called, cfg.calledExclude, called),
           cfg.changed, cfg.changedExclude, changed)

MatchBbolt(cfg, called, changed) ==
  ByMissing(ByMissing(Match(cfg), cfg.called, cfg.calledExclude, called),
            cfg.changed, cfg.changedExclude, changed)

MatchBadger(cfg, called, changed) ==
  ByMissing(ByMissing(Match(cfg), cfg.called, cfg.calledExclude, called),
            cfg.changed, cfg.changedExclude, changed)

MatchGorm(cfg, called, changed) ==
  ByListed(ByMissing(Match(cfg), cfg.called, cfg.calledExclude, called),
           cfg.changed, cfg.changedExclude, changed)

Tracked ==
  LET cfg == Cfg[backend]
  IN  CASE backend = "memory" -> MatchMemory(cfg, tracer.called, tracer.changed)
        [] backend = "bbolt"  -> MatchBbolt(cfg, tracer.called, tracer.changed)
        [] backend = "badger" -> MatchBadger(cfg, tracer.called, tracer.changed)
        [] backend = "gorm"   -> MatchGorm(cfg, tracer.called, tracer.changed)

-----------------------------------------------------------------------------
(* The tracer *)

\* Transition.emitEvents locks tracersMx and calls the tracer.
TracerIn ==
  /\ tracer = Out /\ phase # "detached" /\ seq < MaxSeq[backend]
  /\ tracer' \in [at : {"in"}, called : SUBSET StateNames, changed : SUBSET StateNames]
  /\ UNCHANGED <<life, seq, nextId, queue, jobs, saved, savedGc, gc, mx, phase, ctx, disk,
                 swapped, gone>>

\* Mutant: the queue is not cleared.
WriteDbTwice(recs, next, locked) ==
  /\ queue' = recs
  /\ jobs' = IF recs = {} THEN jobs
             ELSE jobs \cup {[recs |-> recs, next |-> next, locked |-> locked, at |-> "new"]}

\* writeDb forks a goroutine for all that is queued.
WriteDb(recs, next, locked) ==
  /\ queue' = {}
  /\ jobs' = IF recs = {} THEN jobs
             ELSE jobs \cup {[recs |-> recs, next |-> next, locked |-> locked, at |-> "new"]}

\* checkGc of bbolt and badger waits for 1.5 * MaxRecords to be saved, and gcMx.
CheckGc ==
  gc' = IF 2 * (saved - savedGc) <= 3 * MaxRecords \/ gc # NoGc THEN gc
        ELSE [at |-> "start", from |-> 0, to |-> 0]

CheckGcGorm == gc' = IF gc # NoGc THEN gc ELSE [at |-> "start", from |-> 0, to |-> 0]

Oldest == {r \in db : r.id = Min(Ids(db))}

\* TransitionEnd of the in-process memory stores and rotates.
TransitionEndMemory ==
  /\ backend = "memory" /\ tracer.at = "in" /\ tracer' = Out /\ mx = "free"
  /\ seq' = seq + 1 /\ nextId' = nextId + 1
  /\ LET old == IF Cardinality(db) >= MaxRecords THEN Oldest ELSE {}
     IN  db' = (db \ old) \cup {Record(nextId, seq + 1)} /\ gone' = gone \cup old
  /\ UNCHANGED <<life, queue, jobs, saved, savedGc, gc, mx, phase, ctx, ticks, dbNext, swapped>>

\* Mutant: the id of a record that fills a batch is given again.
EnqueueSameId(checkGc) ==
  /\ tracer.at = "in" /\ tracer' = Out /\ ctx = "live" /\ mx = "free"
  /\ seq' = seq + 1
  /\ LET q == queue \cup {Record(nextId, seq + 1)}
     IN  IF Cardinality(q) >= QueueBatch
         THEN WriteDb(q, nextId + 1, TRUE) /\ checkGc /\ UNCHANGED nextId
         ELSE queue' = q /\ nextId' = nextId + 1 /\ UNCHANGED <<jobs, gc>>
  /\ UNCHANGED <<life, saved, savedGc, mx, phase, ctx, disk, swapped, gone>>

\* The other ones queue, and write once QueueBatch records are queued.
Enqueue(checkGc) ==
  /\ tracer.at = "in" /\ tracer' = Out /\ ctx = "live" /\ mx = "free"
  /\ seq' = seq + 1 /\ nextId' = nextId + 1
  /\ LET q == queue \cup {Record(nextId, seq + 1)}
     IN  IF Cardinality(q) >= QueueBatch
         THEN WriteDb(q, nextId + 1, TRUE) /\ checkGc
         ELSE queue' = q /\ UNCHANGED <<jobs, gc>>
  /\ UNCHANGED <<life, saved, savedGc, mx, phase, ctx, disk, swapped, gone>>

TransitionEndBbolt == backend = "bbolt" /\ Enqueue(CheckGc)
TransitionEndBadger == backend = "badger" /\ Enqueue(CheckGc)
TransitionEndGorm == backend = "gorm" /\ Enqueue(CheckGcGorm)
TransitionEnd == TransitionEndBbolt \/ TransitionEndBadger \/ TransitionEndGorm

\* It is filtered out.
TransitionSkipped ==
  /\ tracer.at = "in" /\ tracer' = Out /\ ctx = "live"
  /\ backend = "gorm" => mx = "free"
  /\ UNCHANGED <<life, seq, nextId, queue, jobs, saved, savedGc, gc, mx, phase, ctx, disk,
                 swapped, gone>>

\* With an expired context, bbolt and badger call Dispose from the tracer, gorm forks it,
\* and memory does not look.
TransitionEndExpired ==
  /\ ctx = "done" /\ tracer.at = "in" /\ backend # "memory"
  /\ tracer' = IF phase = "up" /\ backend # "gorm" THEN [Out EXCEPT !.at = "nested"] ELSE Out
  /\ phase' = IF phase = "up" THEN "disposing" ELSE phase
  /\ UNCHANGED <<life, seq, nextId, queue, jobs, saved, savedGc, gc, mx, ctx, disk, swapped, gone>>

Traced == IF Tracked THEN TransitionEndMemory \/ TransitionEnd ELSE TransitionSkipped

Cancel ==
  /\ ctx = "live" /\ phase = "up" /\ backend # "memory"
  /\ ctx' = "done"
  /\ UNCHANGED <<life, seq, nextId, queue, jobs, saved, savedGc, gc, tracer, mx, phase, disk,
                 swapped, gone>>

-----------------------------------------------------------------------------
(* Goroutines of writeDb *)

Put(recs) == {r \in db : r.id \notin Ids(recs)} \cup recs
Closed == phase \in {"closed", "detached"}
End(j) == jobs' = jobs \ {j}
Step(j, at) == jobs' = (jobs \ {j}) \cup {[j EXCEPT !.at = at]}
NotSaved(j) == gone' = gone \cup j.recs /\ UNCHANGED <<disk, saved, swapped>>

\* bbolt and badger write the machine and its records at once.
SaveBbolt(j) ==
  /\ backend = "bbolt" /\ End(j)
  /\ IF Closed THEN NotSaved(j)
     ELSE /\ db' = Put(j.recs) /\ dbNext' = j.next
          /\ saved' = saved + Cardinality(j.recs) /\ swapped' = (swapped \/ j.next < dbNext)
          /\ UNCHANGED <<ticks, gone>>

\* Mutant: a batch that is not saved keeps syncMx.
SaveBadgerLeak(j) ==
  /\ backend = "badger"
  /\ IF Closed THEN Step(j, "leaked") /\ NotSaved(j)
     ELSE /\ db' = Put(j.recs) /\ dbNext' = j.next /\ End(j)
          /\ saved' = saved + Cardinality(j.recs) /\ swapped' = (swapped \/ j.next < dbNext)
          /\ UNCHANGED <<ticks, gone>>

SaveBadger(j) ==
  /\ backend = "badger" /\ End(j)
  /\ IF Closed THEN NotSaved(j)
     ELSE /\ db' = Put(j.recs) /\ dbNext' = j.next
          /\ saved' = saved + Cardinality(j.recs) /\ swapped' = (swapped \/ j.next < dbNext)
          /\ UNCHANGED <<ticks, gone>>

\* Mutant: the machine is saved last.
SaveGormLast(j) ==
  /\ backend = "gorm" /\ UNCHANGED saved
  /\ \/ /\ j.at = "new" /\ phase # "up"
        /\ IF j.locked THEN Step(j, "leaked") ELSE End(j)
        /\ NotSaved(j)
     \/ /\ j.at = "new" /\ phase = "up" /\ Ids(j.recs) \cap Ids(db) = {}
        /\ db' = db \cup j.recs /\ Step(j, "ticks")
        /\ UNCHANGED <<dbNext, ticks, gone, swapped>>
     \/ /\ j.at = "ticks" /\ ~Closed
        /\ ticks' = ticks \cup Ids(j.recs) /\ End(j)
        /\ dbNext' = j.next /\ swapped' = (swapped \/ j.next < dbNext)
        /\ UNCHANGED <<db, gone>>

\* gorm writes the machine, then times, then ticks, from a pool.  Disposed, it leaves
\* syncMx locked; a closed database or an id that is taken end the job.
SaveGorm(j) ==
  /\ backend = "gorm" /\ UNCHANGED saved
  /\ \/ /\ j.at = "new" /\ phase # "up"
        /\ IF j.locked THEN Step(j, "leaked") ELSE End(j)
        /\ NotSaved(j)
     \/ /\ j.at = "new" /\ phase = "up"
        /\ Cardinality({k \in jobs : k.at \in {"times", "ticks"}}) < SavePool
        /\ dbNext' = j.next /\ swapped' = (swapped \/ j.next < dbNext) /\ Step(j, "times")
        /\ UNCHANGED <<db, ticks, gone>>
     \/ /\ j.at = "times" /\ ~Closed /\ Ids(j.recs) \cap Ids(db) = {}
        /\ db' = db \cup j.recs /\ Step(j, "ticks")
        /\ UNCHANGED <<dbNext, ticks, swapped, gone>>
     \/ /\ j.at = "times" /\ (Closed \/ Ids(j.recs) \cap Ids(db) # {})
        /\ End(j) /\ NotSaved(j)
     \/ /\ j.at = "ticks"
        /\ ticks' = IF Closed THEN ticks ELSE ticks \cup Ids(j.recs)
        /\ End(j)
        /\ UNCHANGED <<db, dbNext, swapped, gone>>

Save ==
  /\ \E j \in jobs : SaveBbolt(j) \/ SaveBadger(j) \/ SaveGorm(j)
  /\ UNCHANGED <<life, seq, nextId, queue, savedGc, gc, tracer, mx, phase, ctx>>

-----------------------------------------------------------------------------
(* The goroutine of checkGc *)

\* Mutant: one record too many.
GcUpperOneMore == IF nextId >= MaxRecords THEN nextId - MaxRecords + 1 ELSE MaxSeq[backend]

\* The last id to delete: nextId - MaxRecords as an unsigned number, which is past every
\* id when it wraps.
GcUpper == IF nextId >= MaxRecords THEN nextId - MaxRecords ELSE MaxSeq[backend]

Delete(recs) == db' = db \ recs /\ gone' = gone \cup recs
GcRest == UNCHANGED <<life, seq, nextId, queue, jobs, saved, tracer, mx, phase, ctx, dbNext, swapped>>
GcDone == gc' = NoGc /\ savedGc' = saved

\* bbolt deletes in one transaction.
GcBbolt ==
  /\ backend = "bbolt" /\ gc # NoGc
  /\ Delete({r \in db : r.id <= GcUpper}) /\ GcDone
  /\ UNCHANGED ticks /\ GcRest

\* badger deletes batches of gcSize, up to an id read at the start.
GcBadger ==
  /\ backend = "badger" /\ gc # NoGc
  /\ \/ /\ gc.at = "start"
        /\ gc' = [at |-> "batch", from |-> 1, to |-> GcUpper]
        /\ UNCHANGED <<db, gone, savedGc>>
     \/ /\ gc.at = "batch" /\ gc.from <= gc.to
        /\ Delete({r \in db : r.id \in gc.from .. Min({gc.from + GcSize - 1, gc.to})})
        /\ gc' = [gc EXCEPT !.from = @ + GcSize]
        /\ UNCHANGED savedGc
     \/ /\ gc.at = "batch" /\ gc.from > gc.to
        /\ GcDone /\ UNCHANGED <<db, gone>>
  /\ UNCHANGED ticks /\ GcRest

Newest == {r \in db : Cardinality({s \in db : s.id > r.id}) < MaxRecords}

\* Mutant: ticks are deleted by number.
GcGormNewest ==
  /\ backend = "gorm" /\ gc # NoGc
  /\ \/ /\ gc.at = "start"
        /\ IF Closed \/ ctx = "done" THEN UNCHANGED <<db, gone>> ELSE Delete(db \ Newest)
        /\ gc' = [gc EXCEPT !.at = "ticks"]
        /\ UNCHANGED <<ticks, savedGc>>
     \/ /\ gc.at = "ticks"
        /\ ticks' = IF Closed \/ ctx = "done" THEN ticks ELSE ticks \cap Ids(Newest)
        /\ GcDone /\ UNCHANGED <<db, gone>>
  /\ GcRest

\* gorm deletes times, then ticks of no time, each in a statement that fails when the
\* database is closed or the context expired.
GcGorm ==
  /\ backend = "gorm" /\ gc # NoGc
  /\ \/ /\ gc.at = "start"
        /\ IF Closed \/ ctx = "done" THEN UNCHANGED <<db, gone>> ELSE Delete(db \ Newest)
        /\ gc' = [gc EXCEPT !.at = "ticks"]
        /\ UNCHANGED <<ticks, savedGc>>
     \/ /\ gc.at = "ticks"
        /\ ticks' = IF Closed \/ ctx = "done" THEN ticks ELSE ticks \cap Ids(db)
        /\ GcDone /\ UNCHANGED <<db, gone>>
  /\ GcRest

-----------------------------------------------------------------------------
(* Sync, Dispose, and the next process *)

\* Sync takes mx, waits for the forked writes that hold syncMx, and forks another one.
SyncLock ==
  /\ backend # "memory" /\ mx = "free"
  /\ mx' = "sync"
  /\ UNCHANGED <<life, seq, nextId, queue, jobs, saved, savedGc, gc, tracer, phase, ctx, disk,
                 swapped, gone>>
Sync ==
  /\ mx = "sync" /\ \A j \in jobs : ~j.locked
  /\ mx' = "free"
  /\ WriteDb(queue, nextId, FALSE)
  /\ UNCHANGED <<life, seq, nextId, saved, savedGc, gc, tracer, phase, ctx, disk, swapped, gone>>

DisposeRest == UNCHANGED <<life, seq, nextId, queue, jobs, saved, savedGc, gc, tracer, ctx, ticks,
                           dbNext, swapped>>
DisposeStart ==
  /\ phase = "up"
  /\ phase' = "disposing"
  /\ UNCHANGED <<mx, db, gone>> /\ DisposeRest
DisposeLock ==
  /\ phase = "disposing" /\ mx = "free"
  /\ phase' = "closing" /\ mx' = "dispose"
  /\ IF backend = "memory" THEN Delete(db) ELSE UNCHANGED <<db, gone>>
  /\ DisposeRest
DisposeClose ==
  /\ phase = "closing" /\ backend \in {"bbolt", "badger"} /\ gc = NoGc
  /\ phase' = "closed"
  /\ UNCHANGED <<mx, db, gone>> /\ DisposeRest

\* DetachTracer needs tracersMx; gorm closes the database after it.
DisposeDetach ==
  /\ phase = IF backend \in {"bbolt", "badger"} THEN "closed" ELSE "closing"
  /\ tracer = Out
  /\ phase' = "detached" /\ mx' = "free"
  /\ UNCHANGED <<db, gone>> /\ DisposeRest

\* NextId of the saved machine.  In bbolt, GetMachine decodes into nil, so there is never
\* a saved one.
GetMachineBbolt == 1
GetMachineBadger == dbNext
GetMachineGorm == dbNext

\* The process ends, whatever it is doing, and MachineInit of the next one gets the id.
MachineInit ==
  /\ crashes < MaxCrashes
  /\ crashes' = crashes + 1 /\ base' = seq
  /\ nextId' = CASE backend = "memory" -> 1
                 [] backend = "bbolt"  -> GetMachineBbolt
                 [] backend = "badger" -> GetMachineBadger
                 [] backend = "gorm"   -> GetMachineGorm
  /\ dbNext' = nextId'
  /\ queue' = {} /\ jobs' = {} /\ saved' = 0 /\ savedGc' = 0 /\ gc' = NoGc
  /\ tracer' = Out /\ mx' = "free" /\ phase' = "up" /\ ctx' = "live"
  /\ db' = IF backend = "memory" THEN {} ELSE db
  /\ gone' = {}
  /\ UNCHANGED <<backend, seq, ticks, swapped>>

-----------------------------------------------------------------------------
Goroutines == Save \/ GcBbolt \/ GcBadger \/ GcGorm
Next ==
  \/ TracerIn \/ Traced \/ TransitionEndExpired \/ Cancel
  \/ Goroutines
  \/ SyncLock \/ Sync
  \/ DisposeStart \/ DisposeLock \/ DisposeClose \/ DisposeDetach
  \/ MachineInit

Spec == Init /\ [][Next]_vars

\* Goroutines and calls in progress go on, when their locks allow.
Fairness ==
  /\ WF_vars(Save) /\ WF_vars(GcBbolt) /\ WF_vars(GcBadger) /\ WF_vars(GcGorm)
  /\ WF_vars(Traced) /\ WF_vars(TransitionEndExpired) /\ WF_vars(Sync)
  /\ SF_vars(DisposeLock) /\ WF_vars(DisposeClose) /\ WF_vars(DisposeDetach)
FairSpec == Spec /\ Fairness

-----------------------------------------------------------------------------
(* Properties *)

Pending == queue \cup UNION {j.recs : j \in {k \in jobs : k.at \in {"new", "times"}}}

\* Every record of this process is queued, in a job that has yet to write it, in the
\* database, or was collected or failed to be saved: batches lose and repeat none.
Accounted ==
  \A n \in base + 1 .. seq :
    /\ Cardinality({r \in queue : r.seq = n}
                   \cup {j \in jobs : j.at \in {"new", "times"} /\ \E r \in j.recs : r.seq = n}) <= 1
    /\ \E r \in Pending \cup db \cup gone : r.seq = n
    /\ ~ \E r \in Pending : r \in db \cup gone

\* The garbage collection of a running history, which computes ids from an unsigned
\* difference, deletes none of the MaxRecords - 1 newest records, unless ids were reused.
\* (When bbolt starts over with id 1, writing a batch replaces records of old processes.)
GcKeepsLatest ==
  [][gc # NoGc /\ jobs' = jobs /\ crashes' = crashes /\ phase' = phase /\ ~swapped
       => \A r \in db \ db' : r.id <= nextId - MaxRecords]_vars

\* The next process gets an id above all saved ones, so that no record is overwritten
\* (badger) or refused (gorm), unless a batch was saved after a later one.
ResumesAfter ==
  backend \in {"badger", "gorm"} /\ ~swapped => \A r \in db : r.id < dbNext

\* In gorm, where queries on states join ticks, a record that is saved keeps its ticks for
\* as long as it exists, also when it is collected while others are saved.
RowsWhole ==
  backend = "gorm" /\ phase = "up"
  => \A r \in db : r.seq > base /\ (\A j \in jobs : r \notin j.recs) => r.id \in ticks

\* A call of Sync returns; in gorm, unless the history is disposed meanwhile.
SyncReturns == mx = "sync" ~> (mx # "sync" \/ (backend = "gorm" /\ phase # "up"))
=============================================================================
