---------------------------- MODULE QueueProofs ----------------------------
(* Invariants of Queue, for any number of goroutines, calls and mutations. *)
EXTENDS Queue, FiniteSetTheorems, TLAPS

-----------------------------------------------------------------------------
(* Types *)

\* New mutations are well typed.
LEMMA NewMutType ==
  ASSUME TypeOK, NEW op \in {"add", "remove", "set", "check", "eval", "auto"},
         NEW st \in StateNames, NEW args \in BOOLEAN, NEW tick \in Nat
  PROVE  NewMut(op, st, args, tick) \in Mut
BY DEF TypeOK, NewMut, Mut

LEMMA MutTick == \A m \in Mut : m.tick \in Nat /\ m.id \in Nat
BY DEF Mut

\* Every critical section of queueMx keeps the queue well typed.  A mutation
\* with a tick is only taken while ticks are pending, by TickLedger.
LEMMA QType ==
  ASSUME TypeOK, TickLedger
  PROVE  /\ \A m \in Mut : QAppend(m) \/ QPrepend(m) =>
              queue' \in Seq(Mut) /\ queueTick' \in Nat \ {0} /\ queueTicksPending' \in Nat
         /\ (queue # <<>> /\ QShift) \/ QClear =>
              queue' \in Seq(Mut) /\ queueTick' \in Nat \ {0} /\ queueTicksPending' \in Nat
<1>1. ASSUME NEW m \in Mut, QAppend(m) \/ QPrepend(m)
      PROVE  queue' \in Seq(Mut) /\ queueTick' \in Nat \ {0} /\ queueTicksPending' \in Nat
  <2>1. Append(queue, m) \in Seq(Mut) /\ <<m>> \in Seq(Mut) /\ <<m>> \o queue \in Seq(Mut)
    BY SMTT(30) DEF TypeOK
  <2>2. CASE QAppend(m)
    BY <2>1, <2>2 DEF TypeOK, QAppend
  <2>3. CASE QPrepend(m)
    BY <2>1, <2>3 DEF TypeOK, QPrepend
  <2> QED BY <1>1, <2>2, <2>3
<1>2. ASSUME queue # <<>>, QShift
      PROVE  queue' \in Seq(Mut) /\ queueTick' \in Nat \ {0} /\ queueTicksPending' \in Nat
  <2>1. queue \in Seq(Mut) /\ 1 \in DOMAIN queue /\ Head(queue) = queue[1] /\ queue[1] \in Mut
    BY <1>2 DEF TypeOK
  <2>2. Tail(queue) \in Seq(Mut)
    BY <1>2, <2>1
  <2>3. Head(queue).tick > 0 => queueTicksPending >= 1
    BY <2>1, MutTick DEF TickLedger, TypeOK
  <2> QED BY <1>2, <2>2, <2>3 DEF QShift, TypeOK
<1>3. ASSUME QClear
      PROVE  queue' \in Seq(Mut) /\ queueTick' \in Nat \ {0} /\ queueTicksPending' \in Nat
  BY <1>3 DEF TypeOK, QClear
<1> QED BY <1>1, <1>2, <1>3

-----------------------------------------------------------------------------
(* The ledger of queue ticks *)

LEMMA LedgerAppend ==
  ASSUME TypeOK, TickLedger, NEW m \in Mut, m.tick = NextTick, QAppend(m)
  PROVE  TickLedger'
<1>1. queue \in Seq(Mut) /\ queueTick \in Nat /\ queueTicksPending \in Nat
  BY DEF TypeOK
<1>2. /\ DOMAIN queue' = 1 .. Len(queue) + 1
      /\ \A i \in 1 .. Len(queue) : queue'[i] = queue[i]
      /\ queue'[Len(queue) + 1] = m
      /\ Len(queue) \in Nat /\ DOMAIN queue = 1 .. Len(queue)
  <2>1. queue' = Append(queue, m)
    BY DEF QAppend
  <2> QED BY <1>1, <2>1
<1>3. \A i \in DOMAIN queue : queue[i].tick \in Nat
  BY <1>1, MutTick
<1>4. queueTicksPending' = queueTicksPending + 1 /\ queueTick' = queueTick
      /\ m.tick = queueTicksPending + 1 + queueTick
  BY DEF QAppend, NextTick
<1>5. ASSUME NEW n \in queueTick' + 1 .. queueTick' + queueTicksPending'
      PROVE  \E i \in DOMAIN queue' : queue'[i].tick = n
  <2>1. CASE n = m.tick
    BY <1>2, <2>1
  <2>2. CASE n # m.tick
    <3>1. n \in queueTick + 1 .. queueTick + queueTicksPending
      BY <1>1, <1>4, <2>2
    <3> QED BY <3>1, <1>2 DEF TickLedger
  <2> QED BY <2>1, <2>2
<1>6. ASSUME NEW i \in DOMAIN queue', queue'[i].tick # 0
      PROVE  queue'[i].tick \in queueTick' + 1 .. queueTick' + queueTicksPending'
  BY <1>1, <1>2, <1>3, <1>4, <1>6 DEF TickLedger
<1>7. ASSUME NEW i \in DOMAIN queue', NEW j \in DOMAIN queue',
             i < j, queue'[i].tick # 0, queue'[j].tick # 0
      PROVE  queue'[i].tick < queue'[j].tick
  <2>1. i \in DOMAIN queue /\ queue'[i] = queue[i]
    BY <1>1, <1>2, <1>7
  <2>2. CASE j \in DOMAIN queue
    BY <1>2, <1>7, <2>1, <2>2 DEF TickLedger
  <2>3. CASE j \notin DOMAIN queue
    <3>1. queue'[j].tick = queueTick + queueTicksPending + 1
      BY <1>1, <1>2, <1>3, <1>4, <2>3
    <3>2. queue[i].tick \in queueTick + 1 .. queueTick + queueTicksPending
      BY <1>7, <2>1 DEF TickLedger
    <3> QED BY <1>1, <2>1, <3>1, <3>2
  <2> QED BY <2>2, <2>3
<1> QED BY <1>5, <1>6, <1>7 DEF TickLedger

LEMMA LedgerPrepend ==
  ASSUME TypeOK, TickLedger, NEW m \in Mut, m.tick = 0, QPrepend(m)
  PROVE  TickLedger'
<1>1. queue \in Seq(Mut) /\ queueTick \in Nat /\ queueTicksPending \in Nat
  BY DEF TypeOK
<1>2. /\ DOMAIN queue' = 1 .. Len(queue) + 1
      /\ queue'[1] = m
      /\ \A i \in 2 .. Len(queue) + 1 : queue'[i] = queue[i - 1] /\ i - 1 \in DOMAIN queue
      /\ \A i \in DOMAIN queue : queue'[i + 1] = queue[i] /\ i + 1 \in DOMAIN queue'
      /\ Len(queue) \in Nat /\ DOMAIN queue = 1 .. Len(queue)
  <2>1. queue' = <<m>> \o queue
    BY DEF QPrepend
  <2>2. /\ Len(queue) \in Nat /\ DOMAIN queue = 1 .. Len(queue)
        /\ Len(<<m>>) = 1 /\ <<m>> \in Seq(Mut) /\ <<m>>[1] = m
    BY <1>1
  <2>3. /\ DOMAIN queue' = 1 .. Len(queue) + 1
        /\ queue'[1] = m
        /\ \A i \in 2 .. Len(queue) + 1 : queue'[i] = queue[i - 1]
    BY <1>1, <2>1, <2>2
  <2> QED BY <2>2, <2>3
<1>3. queueTicksPending' = queueTicksPending /\ queueTick' = queueTick
  BY DEF QPrepend
<1>4. \A i \in DOMAIN queue' : queue'[i].tick # 0 =>
        i \in 2 .. Len(queue) + 1 /\ queue'[i] = queue[i - 1]
  BY <1>2
<1>5. ASSUME NEW n \in queueTick' + 1 .. queueTick' + queueTicksPending'
      PROVE  \E i \in DOMAIN queue' : queue'[i].tick = n
  <2>1. PICK k \in DOMAIN queue : queue[k].tick = n
    BY <1>3 DEF TickLedger
  <2> QED BY <2>1, <1>2
<1>6. ASSUME NEW i \in DOMAIN queue', queue'[i].tick # 0
      PROVE  queue'[i].tick \in queueTick' + 1 .. queueTick' + queueTicksPending'
  BY <1>2, <1>3, <1>4, <1>6 DEF TickLedger
<1>7. ASSUME NEW i \in DOMAIN queue', NEW j \in DOMAIN queue',
             i < j, queue'[i].tick # 0, queue'[j].tick # 0
      PROVE  queue'[i].tick < queue'[j].tick
  <2>1. i - 1 \in DOMAIN queue /\ j - 1 \in DOMAIN queue /\ i - 1 < j - 1
    BY <1>2, <1>4, <1>7
  <2> QED BY <2>1, <1>4, <1>7 DEF TickLedger
<1> QED BY <1>5, <1>6, <1>7 DEF TickLedger

LEMMA LedgerShift ==
  ASSUME TypeOK, TickLedger, queue # <<>>, QShift
  PROVE  TickLedger'
<1>1. queue \in Seq(Mut) /\ queueTick \in Nat /\ queueTicksPending \in Nat
  BY DEF TypeOK
<1>2. /\ Len(queue) \in Nat \ {0} /\ DOMAIN queue = 1 .. Len(queue)
      /\ Head(queue) = queue[1] /\ 1 \in DOMAIN queue
      /\ DOMAIN queue' = 1 .. Len(queue) - 1
      /\ \A i \in DOMAIN queue' : queue'[i] = queue[i + 1] /\ i + 1 \in DOMAIN queue
      /\ \A i \in DOMAIN queue : i # 1 => i - 1 \in DOMAIN queue' /\ queue'[i - 1] = queue[i]
  <2>1. queue' = Tail(queue)
    BY DEF QShift
  <2>2. /\ Len(queue) \in Nat \ {0} /\ DOMAIN queue = 1 .. Len(queue)
        /\ Head(queue) = queue[1] /\ 1 \in DOMAIN queue
    BY <1>1
  <2>3. /\ DOMAIN queue' = 1 .. Len(queue) - 1
        /\ \A i \in DOMAIN queue' : queue'[i] = queue[i + 1]
    BY <1>1, <2>1, <2>2
  <2> QED BY <2>2, <2>3
<1>3. \A i \in DOMAIN queue : queue[i].tick \in Nat
  BY <1>1, MutTick
<1>4. \A i, j \in DOMAIN queue' :
        i < j /\ queue'[i].tick # 0 /\ queue'[j].tick # 0 => queue'[i].tick < queue'[j].tick
  <2> SUFFICES ASSUME NEW i \in DOMAIN queue', NEW j \in DOMAIN queue',
                      i < j, queue'[i].tick # 0, queue'[j].tick # 0
               PROVE  queue'[i].tick < queue'[j].tick
    OBVIOUS
  <2>1. i + 1 \in DOMAIN queue /\ j + 1 \in DOMAIN queue /\ i + 1 < j + 1
    BY <1>2
  <2> QED BY <2>1, <1>2 DEF TickLedger
<1>5. CASE queue[1].tick = 0
  <2>1. queueTicksPending' = queueTicksPending /\ queueTick' = queueTick
    BY <1>2, <1>5 DEF QShift
  <2>2. ASSUME NEW n \in queueTick' + 1 .. queueTick' + queueTicksPending'
        PROVE  \E i \in DOMAIN queue' : queue'[i].tick = n
    <3>1. PICK k \in DOMAIN queue : queue[k].tick = n
      BY <2>1 DEF TickLedger
    <3>2. k # 1
      BY <3>1, <1>1, <1>5, <2>1
    <3> QED BY <3>1, <3>2, <1>2
  <2>3. \A i \in DOMAIN queue' : queue'[i].tick # 0 =>
          queue'[i].tick \in queueTick' + 1 .. queueTick' + queueTicksPending'
    BY <2>1, <1>2 DEF TickLedger
  <2> QED BY <2>2, <2>3, <1>4 DEF TickLedger
<1>6. CASE queue[1].tick # 0
  <2>1. queue[1].tick \in queueTick + 1 .. queueTick + queueTicksPending
    BY <1>6, <1>2 DEF TickLedger
  <2>2. queueTicksPending' = queueTicksPending - 1 /\ queueTick' = queueTick + 1
    BY <1>2, <1>3, <1>6 DEF QShift
  <2>3. \A i \in DOMAIN queue : i # 1 /\ queue[i].tick # 0 => queue[1].tick < queue[i].tick
    BY <1>2, <1>6 DEF TickLedger
  <2>4. queue[1].tick = queueTick + 1
    <3>1. PICK k \in DOMAIN queue : queue[k].tick = queueTick + 1
      BY <2>1, <1>1 DEF TickLedger
    <3> QED BY <3>1, <2>1, <2>3, <1>1, <1>3
  <2>5. \A i \in DOMAIN queue' : queue'[i].tick # 0 =>
          queue'[i].tick \in queueTick' + 1 .. queueTick' + queueTicksPending'
    <3> SUFFICES ASSUME NEW i \in DOMAIN queue', queue'[i].tick # 0
                 PROVE  queue'[i].tick \in queueTick' + 1 .. queueTick' + queueTicksPending'
      OBVIOUS
    <3>1. i + 1 \in DOMAIN queue /\ i + 1 # 1 /\ queue'[i] = queue[i + 1]
      BY <1>2
    <3>2. queue[i + 1].tick \in queueTick + 1 .. queueTick + queueTicksPending
      BY <3>1 DEF TickLedger
    <3> QED BY <3>1, <3>2, <2>2, <2>3, <2>4, <1>1
  <2>6. ASSUME NEW n \in queueTick' + 1 .. queueTick' + queueTicksPending'
        PROVE  \E i \in DOMAIN queue' : queue'[i].tick = n
    <3>1. n \in queueTick + 1 .. queueTick + queueTicksPending /\ n # queueTick + 1
      BY <2>2, <1>1
    <3>2. PICK k \in DOMAIN queue : queue[k].tick = n
      BY <3>1 DEF TickLedger
    <3>3. k # 1
      BY <3>1, <3>2, <2>4
    <3> QED BY <3>2, <3>3, <1>2
  <2> QED BY <2>5, <2>6, <1>4 DEF TickLedger
<1> QED BY <1>5, <1>6

LEMMA LedgerClear ==
  ASSUME TypeOK, QClear
  PROVE  TickLedger'
<1>1. DOMAIN queue' = {} /\ queueTick' \in Nat /\ queueTicksPending' = 0
  BY DEF QClear, TypeOK
<1>2. \A n : n \notin queueTick' + 1 .. queueTick' + queueTicksPending'
  BY <1>1
<1> QED BY <1>1, <1>2, Zenon DEF TickLedger

-----------------------------------------------------------------------------
(* Type correctness of each step *)

\* The types of the locals of one goroutine, apart from the queue.
LEMMA LocalTypes ==
  /\ NoCall \in CallType /\ NoMut \in Mut /\ NoAnswer \in Answer
  /\ \A a \in Answer, r \in Results : [a EXCEPT !.res = r] \in Answer
<1>1. NoCall \in CallType
  BY DEF NoCall, CallType, StateNames
<1>2. NoMut \in Mut
  BY DEF NoMut, Mut, StateNames
<1>3. NoAnswer \in Answer
  BY DEF NoAnswer, Answer, Results
<1>4. \A a \in Answer, r \in Results : [a EXCEPT !.res = r] \in Answer
  BY DEF Answer
<1> QED BY <1>1, <1>2, <1>3, <1>4

LEMMA ReturnType ==
  ASSUME TypeOK, NEW t \in Threads, NEW r \in Results, Return(t, r)
  PROVE  /\ pc' \in [Threads -> PCs] /\ got' \in [Threads -> Answer]
         /\ call' \in [Threads -> CallType] /\ ret0' \in [Threads -> Results]
BY LocalTypes, Zenon DEF Return, Goto, TypeOK, PCs, Results

LEMMA MutateType ==
  ASSUME TypeOK, NEW t \in Threads, NEW c \in Calls, Mutate(t, c)
  PROVE  TypeOK'
BY QueueAssumption, LocalTypes DEF Mutate, Goto, TypeOK, PCs, qvars, flags, dvars, hvars

LEMMA CallType1 ==
  ASSUME TypeOK, NEW t \in Threads, RemoveEarly(t) \/ Dedup(t) \/ Process(t) \/ Cas(t) \/ CheckDisposing(t)
  PROVE  TypeOK'
<1>1. /\ pc' \in [Threads -> PCs] /\ got' \in [Threads -> Answer]
      /\ call' \in [Threads -> CallType] /\ ret0' \in [Threads -> Results]
  <2>1. CASE \E r \in {"executed", "canceled", "queued"} : Return(t, r)
    BY <2>1, ReturnType DEF Results
  <2>2. CASE UNCHANGED <<got, call, ret0>> /\ \E p \in PCs : Goto(t, p)
    BY <2>2 DEF Goto, TypeOK
  <2> QED BY <2>1, <2>2 DEF RemoveEarly, Dedup, Process, Cas, CheckDisposing, PCs, Processing
<1>2. UNCHANGED <<qvars, active, backoff, dvars, hvars, cur, mxLost, tx, queueRunning>>
      /\ queueProcessing' \in BOOLEAN
  BY Zenon DEF RemoveEarly, Dedup, Process, Cas, CheckDisposing, TypeOK, flags
<1> QED BY <1>1, <1>2 DEF TypeOK, qvars, dvars, hvars

LEMMA EnqueueType ==
  ASSUME TypeOK, TickLedger, NEW t \in Threads, Enqueue(t) \/ PrependMut(t)
  PROVE  TypeOK'
<1>1. NextTick \in Nat /\ call[t] \in CallType /\ created + 1 \in Nat
  BY QueueAssumption DEF TypeOK, NextTick
<1>2. \A n \in {0, NextTick} : NewMut(call[t].op, call[t].st, call[t].args, n) \in Mut
  <2>1. /\ call[t].op \in {"add", "remove", "set", "check", "eval", "auto"}
        /\ call[t].st \in StateNames /\ call[t].args \in BOOLEAN
    BY <1>1 DEF CallType
  <2> QED BY <1>1, <2>1, NewMutType
<1>3. queue' \in Seq(Mut) /\ queueTick' \in Nat \ {0} /\ queueTicksPending' \in Nat
  BY <1>2, QType DEF Enqueue, PrependMut
<1>4. got' \in [Threads -> Answer] /\ pc' \in [Threads -> PCs]
  <2>1. \A n \in {0, NextTick} : [id |-> created + 1, tick |-> n, res |-> "none"] \in Answer
    BY <1>1 DEF Answer, Results
  <2>2. \E n \in {0, NextTick} :
          got' = [got EXCEPT ![t] = [id |-> created + 1, tick |-> n, res |-> "none"]]
    BY DEF Enqueue, PrependMut
  <2>3. pc' = [pc EXCEPT ![t] = "process"]
    BY DEF Enqueue, PrependMut, Goto
  <2> QED BY <2>1, <2>2, <2>3 DEF TypeOK, PCs
<1>5. created' \in 0 .. MaxMuts /\ fate' \in [1 .. MaxMuts -> Fates]
  <2>1. Create
    BY DEF Enqueue, PrependMut
  <2>2. created' \in 0 .. MaxMuts
    BY <2>1, QueueAssumption DEF Create, TypeOK
  <2>3. fate' \in [1 .. MaxMuts -> Fates]
    BY <2>1, Zenon DEF Create, TypeOK, Fates
  <2> QED BY <2>2, <2>3
<1> QED BY <1>3, <1>4, <1>5 DEF Enqueue, PrependMut, TypeOK, flags, dvars

LEMMA LoopType ==
  ASSUME TypeOK, NEW t \in Threads,
         Begin(t) \/ Loop(t) \/ Subs(t) \/ Release(t) \/ Released(t)
  PROVE  TypeOK'
<1>1. pc' \in [Threads -> PCs]
  BY DEF Begin, Loop, Subs, Release, Released, Goto, TypeOK, PCs, Processing
<1>2. UNCHANGED <<qvars, mxLost, active, backoff, dvars, hvars, call, cur, ret0, got>>
  BY DEF Begin, Loop, Subs, Release, Released, flags
<1>3. queueRunning' \in BOOLEAN /\ queueProcessing' \in BOOLEAN /\ tx' \in BOOLEAN
  BY Zenon DEF Begin, Loop, Subs, Release, Released, flags, TypeOK
<1> QED BY <1>1, <1>2, <1>3 DEF TypeOK, qvars, dvars, hvars

LEMMA ShiftType ==
  ASSUME TypeOK, TickLedger, NEW t \in Threads, Shift(t)
  PROVE  TypeOK'
<1>1. CASE queue = <<>>
  <2>1. Return(t, "canceled") /\ UNCHANGED <<qvars, tx, cur>> /\ mxLost' = TRUE
    BY <1>1 DEF Shift
  <2>2. /\ pc' \in [Threads -> PCs] /\ got' \in [Threads -> Answer]
        /\ call' \in [Threads -> CallType] /\ ret0' \in [Threads -> Results]
    BY <2>1, ReturnType DEF Results
  <2> QED BY <2>1, <2>2 DEF Shift, TypeOK, qvars, dvars, hvars
<1>2. CASE queue # <<>>
  <2>1. queue' \in Seq(Mut) /\ queueTick' \in Nat \ {0} /\ queueTicksPending' \in Nat
    BY <1>2, QType DEF Shift
  <2>2. Head(queue) \in Mut
    BY <1>2 DEF TypeOK
  <2>3. pc' \in [Threads -> PCs] /\ cur' \in [Threads -> Mut]
    BY <1>2, <2>2 DEF Shift, TypeOK, Goto, PCs, Processing
  <2>4. tx' \in BOOLEAN
    BY <1>2, Zenon DEF Shift
  <2> QED BY <1>2, <2>1, <2>3, <2>4 DEF Shift, TypeOK, dvars, hvars
<1> QED BY <1>1, <1>2

LEMMA ExecType ==
  ASSUME TypeOK, TickLedger, NEW t \in Threads, Exec(t)
  PROVE  TypeOK'
<1> USE DEF Record, Drop, Goto
<1>1. ASSUME NEW r \in {"executed", "canceled"}, ExecEval(t) \/ ExecCheck(t, r) \/ Cancel(t)
      PROVE  TypeOK'
  <2>1. pc' \in [Threads -> PCs] /\ cur' \in [Threads -> Mut]
    BY <1>1, LocalTypes DEF ExecEval, ExecCheck, Cancel, TypeOK, PCs, Processing
  <2>2. fate' \in [1 .. MaxMuts -> Fates] /\ ret0' \in [Threads -> Results]
    BY <1>1 DEF ExecEval, ExecCheck, Cancel, TypeOK, Fates, Results
  <2>3. UNCHANGED <<qvars, flags, active, backoff, dvars, created, call, got>>
    BY <1>1 DEF ExecEval, ExecCheck, Cancel
  <2> QED BY <2>1, <2>2, <2>3 DEF TypeOK, qvars, flags, dvars
<1>2. CASE Accept(t) \/ AcceptAuto(t)
  <2>1. pc' \in [Threads -> PCs] /\ cur' \in [Threads -> Mut]
    <3>1. pc' = [pc EXCEPT ![t] = "subs"] /\ cur' = [cur EXCEPT ![t] = NoMut]
      BY <1>2, Zenon DEF Accept, AcceptAuto
    <3> QED BY <3>1, LocalTypes DEF TypeOK, PCs, Processing
  <2>2. /\ fate' \in [1 .. MaxMuts -> Fates] /\ ret0' \in [Threads -> Results]
        /\ created' \in 0 .. MaxMuts
    <3>1. CASE Accept(t)
      BY <3>1, Zenon DEF Accept, TypeOK, Fates, Results
    <3>2. CASE AcceptAuto(t)
      <4>1. /\ fate' = [fate EXCEPT ![cur[t].id] = "executed", ![created + 1] = "queued"]
            /\ created' = created + 1 /\ created < MaxMuts
            /\ ret0' = [ret0 EXCEPT ![t] = IF @ = "none" THEN "executed" ELSE @]
        BY <3>2, Zenon DEF AcceptAuto
      <4>2. ret0' \in [Threads -> Results]
        BY <4>1 DEF TypeOK, Results
      <4>3. fate' \in [1 .. MaxMuts -> Fates] /\ created' \in 0 .. MaxMuts
        BY <4>1, QueueAssumption DEF TypeOK, Fates
      <4> QED BY <4>2, <4>3
    <3> QED BY <1>2, <3>1, <3>2
  <2>3. active' \in SUBSET StateNames
    <3>1. cur[t] \in Mut /\ cur[t].st \in StateNames
      BY DEF TypeOK, Mut
    <3>2. active' = ActiveAfter(cur[t])
      BY <1>2, Zenon DEF Accept, AcceptAuto
    <3>3. active \in SUBSET StateNames
      BY DEF TypeOK
    <3> QED BY <3>1, <3>2, <3>3 DEF ActiveAfter
  <2>4. queue' \in Seq(Mut) /\ queueTick' \in Nat \ {0} /\ queueTicksPending' \in Nat
    <3>1. NewMut("auto", "", FALSE, 0) \in Mut
      BY NewMutType, Zenon DEF StateNames
    <3> QED BY <1>2, <3>1, QType, Zenon DEF Accept, AcceptAuto, TypeOK, qvars
  <2>5. UNCHANGED <<flags, backoff, dvars, call, got>>
    BY <1>2, Zenon DEF Accept, AcceptAuto
  <2> QED BY <2>1, <2>2, <2>3, <2>4, <2>5 DEF TypeOK, flags, dvars
<1>3. CASE Panic(t)
  <2>1. pc' \in [Threads -> PCs] /\ cur' \in [Threads -> Mut]
    BY <1>3, LocalTypes DEF Panic, TypeOK, PCs, Processing
  <2>2. /\ fate' \in [1 .. MaxMuts -> Fates] /\ ret0' \in [Threads -> Results]
        /\ created' \in 0 .. MaxMuts
    <3>1. ret0' \in [Threads -> Results]
      BY <1>3 DEF Panic, TypeOK, Results
    <3>2. CASE cur[t].st = Exception
      BY <1>3, <3>1, <3>2 DEF Panic, TypeOK, Fates
    <3>3. CASE cur[t].st # Exception
      <4>1. /\ fate' = [fate EXCEPT ![cur[t].id] = "canceled", ![created + 1] = "queued"]
            /\ created' = created + 1 /\ created < MaxMuts
        BY <1>3, <3>3, Zenon DEF Panic
      <4> QED BY <3>1, <4>1, QueueAssumption DEF TypeOK, Fates
    <3> QED BY <3>2, <3>3
  <2>3. queue' \in Seq(Mut) /\ queueTick' \in Nat \ {0} /\ queueTicksPending' \in Nat
    <3>1. NewMut("add", Exception, TRUE, 0) \in Mut
      BY NewMutType, Zenon DEF StateNames
    <3> QED BY <1>3, <3>1, QType, Zenon DEF Panic, TypeOK, qvars
  <2>4. UNCHANGED <<flags, active, backoff, dvars, call, got>>
    BY <1>3 DEF Panic
  <2> QED BY <2>1, <2>2, <2>3, <2>4 DEF TypeOK, flags, dvars
<1>4. CASE Deadline(t)
  <2>1. pc' \in [Threads -> PCs] /\ cur' \in [Threads -> Mut]
    BY <1>4, LocalTypes DEF Deadline, TypeOK, PCs, Processing
  <2>2. fate' \in [1 .. MaxMuts -> Fates] /\ ret0' \in [Threads -> Results]
    BY <1>4 DEF Deadline, TypeOK, Fates, Results
  <2>3. queue' \in Seq(Mut) /\ queueTick' \in Nat \ {0} /\ queueTicksPending' \in Nat
    BY <1>4, QType DEF Deadline
  <2>4. UNCHANGED <<flags, active, backoff, dvars, created, call, got>>
    BY <1>4 DEF Deadline
  <2> QED BY <2>1, <2>2, <2>3, <2>4 DEF TypeOK, flags, dvars
<1>5. CASE DeadlineErr(t)
  <2>1. pc' \in [Threads -> PCs]
    BY <1>5 DEF DeadlineErr, TypeOK, PCs, Processing
  <2>2. fate' \in [1 .. MaxMuts -> Fates] /\ created' \in 0 .. MaxMuts
    <3>1. \/ UNCHANGED <<created, fate>>
          \/ /\ fate' = [fate EXCEPT ![created + 1] = "queued"]
             /\ created' = created + 1 /\ created < MaxMuts
      BY <1>5, Zenon DEF DeadlineErr, Create, hvars
    <3> QED BY <3>1, QueueAssumption DEF TypeOK, Fates
  <2>3. queue' \in Seq(Mut) /\ queueTick' \in Nat \ {0} /\ queueTicksPending' \in Nat
    <3>1. NewMut("add", Exception, TRUE, NextTick) \in Mut
      <4>1. NextTick \in Nat
        BY DEF NextTick, TypeOK
      <4>2. Exception \in StateNames
        BY DEF StateNames
      <4> QED BY <4>1, <4>2, NewMutType, Zenon
    <3> QED BY <1>5, <3>1, QType, Zenon DEF DeadlineErr, TypeOK, qvars
  <2>4. /\ backoff' = TRUE
        /\ UNCHANGED <<flags, active, dvars, call, cur, ret0, got>>
    BY <1>5 DEF DeadlineErr
  <2> QED BY <2>1, <2>2, <2>3, <2>4 DEF TypeOK, flags, dvars
<1> QED BY <1>1, <1>2, <1>3, <1>4, <1>5 DEF Exec

LEMMA WaitType ==
  ASSUME TypeOK, NEW t \in Threads,
         Ends(t) \/ Woken(t) \/ BindEnds(t) \/ WhenQueue(t) \/ WhenQueueEnds(t)
  PROVE  TypeOK'
<1>1. pc' \in [Threads -> PCs]
  BY DEF Ends, Woken, BindEnds, WhenQueue, WhenQueueEnds, Goto, TypeOK, PCs
<1>2. /\ got' \in [Threads -> Answer]
      /\ call' \in [Threads -> CallType] /\ ret0' \in [Threads -> Results]
  <2>1. CASE Ends(t)
    <3>1. PICK r \in Results : got' = [got EXCEPT ![t].res = r]
      BY <2>1, Zenon DEF Ends, TypeOK, Results
    <3>2. call' = [call EXCEPT ![t] = NoCall] /\ ret0' = [ret0 EXCEPT ![t] = "none"]
      BY <2>1 DEF Ends
    <3> QED BY <3>1, <3>2, LocalTypes, Zenon DEF TypeOK, Results
  <2>2. CASE Woken(t)
    BY <2>2, LocalTypes DEF Woken, TypeOK
  <2>3. CASE BindEnds(t) \/ WhenQueue(t) \/ WhenQueueEnds(t)
    BY <2>3 DEF BindEnds, WhenQueue, WhenQueueEnds, TypeOK
  <2> QED BY <2>1, <2>2, <2>3
<1> QED BY <1>1, <1>2
        DEF Ends, Woken, BindEnds, WhenQueue, WhenQueueEnds, TypeOK, qvars, flags, dvars, hvars

LEMMA DisposeType ==
  ASSUME TypeOK, DisposeStart \/ Disposal \/ BackoffEnd
  PROVE  TypeOK'
<1>1. pc' \in [Threads -> PCs]
  BY DEF DisposeStart, Disposal, DisposeCas, DisposeDrain, DisposeFinish, BackoffEnd, TypeOK, PCs
<1> USE DEF TypeOK, qvars, flags, dvars, hvars
<1>2. CASE DisposeStart
  BY <1>1, <1>2, Zenon DEF DisposeStart
<1>3. CASE DisposeCas
  BY <1>1, <1>3 DEF DisposeCas
<1>4. CASE DisposeDrain
  BY <1>1, <1>4 DEF DisposeDrain
<1>5. CASE DisposeFinish
  <2>1. /\ queueProcessing' = FALSE /\ whenDisposed' = TRUE /\ dpc' = "done"
        /\ UNCHANGED <<qvars, queueRunning, mxLost, tx, active, backoff, disposing,
                       disposed, hvars, call, cur, ret0, got>>
    BY <1>5 DEF DisposeFinish
  <2> QED BY <1>1, <2>1, Zenon
<1>6. CASE BackoffEnd
  BY <1>1, <1>6, Zenon DEF BackoffEnd
<1> QED BY <1>2, <1>3, <1>4, <1>5, <1>6 DEF Disposal

LEMMA TypeStep ==
  ASSUME TypeOK, TickLedger, [Next]_vars
  PROVE  TypeOK'
<1>1. CASE UNCHANGED vars
  BY <1>1 DEF vars, qvars, flags, dvars, hvars, TypeOK
<1>2. CASE Next
  BY <1>2, MutateType, CallType1, EnqueueType, LoopType, ShiftType, ExecType, WaitType, DisposeType
     DEF Next, Step
<1> QED BY <1>1, <1>2

-----------------------------------------------------------------------------
(* Every step is one critical section of queueMx, or leaves the queue alone *)

LEMMA QStep ==
  ASSUME TypeOK, [Next]_vars
  PROVE  \/ UNCHANGED qvars
         \/ \E m \in Mut : m.tick = NextTick /\ QAppend(m)
         \/ \E m \in Mut : m.tick = 0 /\ QPrepend(m)
         \/ queue # <<>> /\ QShift
         \/ QClear
<1> DEFINE Effect == \/ UNCHANGED qvars
                     \/ \E m \in Mut : m.tick = NextTick /\ QAppend(m)
                     \/ \E m \in Mut : m.tick = 0 /\ QPrepend(m)
                     \/ queue # <<>> /\ QShift
                     \/ QClear
<1>0. NextTick \in Nat
  BY DEF TypeOK, NextTick
<1>1. ASSUME NEW op \in {"add", "remove", "set", "check", "eval", "auto"},
             NEW st \in StateNames, NEW args \in BOOLEAN
      PROVE  /\ QAppend(NewMut(op, st, args, NextTick)) => Effect
             /\ QPrepend(NewMut(op, st, args, 0)) => Effect
  <2>1. /\ NewMut(op, st, args, NextTick) \in Mut /\ NewMut(op, st, args, 0) \in Mut
        /\ NewMut(op, st, args, NextTick).tick = NextTick
        /\ NewMut(op, st, args, 0).tick = 0
    BY <1>0, NewMutType DEF NewMut
  <2> QED BY <2>1
<1>2. Exception \in StateNames /\ "" \in StateNames
  BY DEF StateNames
<1>3. ASSUME NEW t \in Threads, Enqueue(t) \/ PrependMut(t)
      PROVE  Effect
  <2>1. /\ call[t].op \in {"add", "remove", "set", "check", "eval", "auto"}
        /\ call[t].st \in StateNames /\ call[t].args \in BOOLEAN
    BY DEF TypeOK, CallType
  <2> HIDE DEF Effect
  <2> QED BY <1>1, <1>3, <2>1 DEF Enqueue, PrependMut
<1>4. ASSUME NEW t \in Threads, Exec(t)
      PROVE  Effect
  <2>1. CASE AcceptAuto(t)
    BY <1>1, <1>2, <2>1, Zenon DEF AcceptAuto
  <2>2. CASE Panic(t)
    <3>1. QPrepend(NewMut("add", Exception, TRUE, 0)) \/ UNCHANGED qvars
      BY <2>2, Zenon DEF Panic
    <3> QED BY <1>1, <1>2, <3>1, Zenon
  <2>3. CASE Deadline(t)
    BY <2>3 DEF Deadline
  <2>4. CASE DeadlineErr(t)
    <3>1. QAppend(NewMut("add", Exception, TRUE, NextTick)) \/ UNCHANGED qvars
      BY <2>4, Zenon DEF DeadlineErr
    <3> QED BY <1>1, <1>2, <3>1, Zenon
  <2> QED BY <1>4, <2>1, <2>2, <2>3, <2>4, Zenon DEF Exec, ExecEval, ExecCheck, Accept, Cancel
<1>5. ASSUME NEW t \in Threads, Shift(t)
      PROVE  Effect
  BY <1>5 DEF Shift
<1>6. CASE \E t \in Threads :
             \/ \E c \in Calls : Mutate(t, c)
             \/ WhenQueue(t) \/ WhenQueueEnds(t) \/ Step(t)
  BY <1>3, <1>4, <1>5, <1>6
     DEF Step, Mutate, WhenQueue, WhenQueueEnds, RemoveEarly, Dedup, Process, Cas, Begin, Loop,
         CheckDisposing, Subs, Release, Released, Ends, Woken, BindEnds
<1>7. CASE DisposeStart \/ Disposal \/ BackoffEnd \/ UNCHANGED vars
  BY <1>7 DEF DisposeStart, Disposal, DisposeCas, DisposeDrain, DisposeFinish, BackoffEnd, vars
<1> QED BY <1>6, <1>7 DEF Next

LEMMA LedgerStep ==
  ASSUME TypeOK, TickLedger, [Next]_vars
  PROVE  TickLedger'
<1>1. CASE UNCHANGED qvars
  BY <1>1 DEF qvars, TickLedger
<1> QED BY <1>1, QStep, LedgerAppend, LedgerPrepend, LedgerShift, LedgerClear

LEMMA InitTypeLedger == Init => TypeOK /\ TickLedger
<1> SUFFICES ASSUME Init PROVE TypeOK /\ TickLedger
  OBVIOUS
<1>1. TypeOK
  <2>1. /\ queue = <<>> /\ <<>> \in Seq(Mut) /\ queueTick = 1 /\ queueTicksPending = 0
        /\ created = 0 /\ active = {} /\ 0 \in 0 .. MaxMuts
    BY QueueAssumption DEF Init
  <2>2. /\ pc \in [Threads -> PCs] /\ call \in [Threads -> CallType] /\ cur \in [Threads -> Mut]
        /\ ret0 \in [Threads -> Results] /\ got \in [Threads -> Answer]
        /\ fate \in [1 .. MaxMuts -> Fates]
    BY LocalTypes DEF Init, PCs, Results, Fates
  <2>3. /\ queueProcessing \in BOOLEAN /\ queueRunning \in BOOLEAN
        /\ mxLost \in BOOLEAN /\ tx \in BOOLEAN /\ backoff \in BOOLEAN
        /\ disposing \in BOOLEAN /\ disposed \in BOOLEAN /\ whenDisposed \in BOOLEAN
        /\ dpc \in {"off", "cas", "drain", "locks", "done"}
    BY Zenon DEF Init
  <2>4. active \in SUBSET StateNames /\ queueTick \in Nat \ {0} /\ queueTicksPending \in Nat
    BY <2>1
  <2> QED BY <2>1, <2>2, <2>3, <2>4 DEF TypeOK
<1>2. TickLedger
  <2>1. DOMAIN queue = {} /\ queueTick = 1 /\ queueTicksPending = 0
    BY DEF Init
  <2>2. \A n : n \notin queueTick + 1 .. queueTick + queueTicksPending
    BY <2>1
  <2> QED BY <2>1, <2>2 DEF TickLedger
<1> QED BY <1>1, <1>2

LEMMA TypeAndLedger == Spec => [](TypeOK /\ TickLedger)
<1>1. TypeOK /\ TickLedger /\ [Next]_vars => (TypeOK /\ TickLedger)'
  BY TypeStep, LedgerStep
<1> QED BY <1>1, InitTypeLedger, PTL DEF Spec

\* The state of the queue is always well typed: in particular the unsigned
\* queueTicksPending never goes below zero.
THEOREM TypeCorrect == Spec => []TypeOK
BY TypeAndLedger, PTL

\* The ticks that queueMutation hands out are the ones processQueue will count.
THEOREM LedgerCorrect == Spec => []TickLedger
BY TypeAndLedger, PTL

-----------------------------------------------------------------------------
(* One processor at a time, until Dispose *)

NotDisposing == dpc = "off" => ~disposing

LockInv == ProcessorLock /\ PoppedTick /\ MutexKept /\ NotDisposing

\* Steps which neither take nor release queueProcessing, start no transition,
\* and do not shorten the queue.
Quiet ==
  /\ dpc' = dpc /\ disposing' = disposing /\ mxLost' = mxLost
  /\ queueProcessing' = queueProcessing /\ queueTick' = queueTick
  /\ queue # <<>> => queue' # <<>>
  /\ \A u \in Threads :
       /\ pc'[u] \in Processing <=> pc[u] \in Processing
       /\ pc'[u] \in {"check", "shift"} => pc[u] \in {"check", "shift"}
       /\ pc'[u] = "exec" => pc[u] = "exec" /\ cur'[u] = cur[u]

LEMMA QuietKeeps == LockInv /\ Quiet => LockInv'
BY DEF LockInv, Quiet, ProcessorLock, PoppedTick, MutexKept, NotDisposing

LEMMA GrowingQueue ==
  ASSUME TypeOK, NEW m \in Mut, QAppend(m) \/ QPrepend(m)
  PROVE  queue' # <<>> /\ queueTick' = queueTick
<1>1. queue \in Seq(Mut)
  BY DEF TypeOK
<1>2. Append(queue, m) # <<>> /\ <<m>> \o queue # <<>>
  <2>1. Len(Append(queue, m)) = Len(queue) + 1 /\ Len(queue) \in Nat
    BY <1>1
  <2>2. Len(<<m>> \o queue) = 1 + Len(queue)
    BY <1>1
  <2>3. Len(<<>>) = 0
    OBVIOUS
  <2> QED BY <2>1, <2>2, <2>3
<1> QED BY <1>2 DEF QAppend, QPrepend

\* The mutation at the head of the queue has the next queue tick, or none.
LEMMA HeadTick ==
  ASSUME TypeOK, TickLedger, queue # <<>>, QShift, Head(queue).tick # 0
  PROVE  Head(queue).tick = queueTick'
<1>1. queue \in Seq(Mut) /\ queueTick \in Nat /\ queueTicksPending \in Nat
  BY DEF TypeOK
<1>2. /\ Head(queue) = queue[1] /\ 1 \in DOMAIN queue
      /\ DOMAIN queue = 1 .. Len(queue) /\ Len(queue) \in Nat
      /\ \A k \in DOMAIN queue : queue[k] \in Mut
  BY <1>1
<1>3. queue[1].tick \in queueTick + 1 .. queueTick + queueTicksPending
  BY <1>2 DEF TickLedger
<1>4. PICK k \in DOMAIN queue : queue[k].tick = queueTick + 1
  BY <1>1, <1>3 DEF TickLedger
<1>5. k # 1 => queue[1].tick < queue[k].tick
  BY <1>1, <1>2, <1>3, <1>4 DEF TickLedger
<1>6. queue[1].tick = queueTick + 1
  BY <1>1, <1>3, <1>4, <1>5
<1> QED BY <1>1, <1>2, <1>6, MutTick DEF QShift

LEMMA QuietCalls ==
  ASSUME TypeOK, NEW t \in Threads,
         \/ \E c \in Calls : Mutate(t, c)
         \/ RemoveEarly(t) \/ Dedup(t) \/ Process(t) \/ Released(t) \/ Ends(t)
         \/ Woken(t) \/ BindEnds(t) \/ WhenQueue(t) \/ WhenQueueEnds(t)
  PROVE  Quiet
<1>1. /\ UNCHANGED <<qvars, dvars, mxLost, queueProcessing, cur>>
  BY DEF Mutate, RemoveEarly, Dedup, Process, Released, Ends, Woken, BindEnds, WhenQueue,
         WhenQueueEnds, flags, qvars, dvars
<1>2. \A u \in Threads : pc'[u] = pc[u] \/ (pc'[u] \notin Processing /\ pc[u] \notin Processing)
  <2>1. CASE Ends(t)
    BY <2>1 DEF Ends, Processing, TypeOK
  <2>2. CASE \E c \in Calls : Mutate(t, c)
    BY <2>2 DEF Mutate, Goto, Processing, TypeOK
  <2>3. CASE RemoveEarly(t) \/ Dedup(t) \/ Process(t) \/ Released(t)
    BY <2>3 DEF RemoveEarly, Dedup, Process, Released, Return, Goto, Processing, TypeOK
  <2>4. CASE Woken(t) \/ BindEnds(t) \/ WhenQueue(t) \/ WhenQueueEnds(t)
    BY <2>4 DEF Woken, BindEnds, WhenQueue, WhenQueueEnds, Goto, Processing, TypeOK
  <2> QED BY <2>1, <2>2, <2>3, <2>4
<1> QED BY <1>1, <1>2 DEF Quiet, qvars, dvars, Processing

LEMMA QuietQueueing ==
  ASSUME TypeOK, NEW t \in Threads, Enqueue(t) \/ PrependMut(t)
  PROVE  Quiet
<1>1. PICK m \in Mut : QAppend(m) \/ QPrepend(m)
  <2>1. /\ call[t].op \in {"add", "remove", "set", "check", "eval", "auto"}
        /\ call[t].st \in StateNames /\ call[t].args \in BOOLEAN
    BY DEF TypeOK, CallType
  <2>2. NextTick \in Nat
    BY DEF TypeOK, NextTick
  <2>3. /\ NewMut(call[t].op, call[t].st, call[t].args, NextTick) \in Mut
        /\ NewMut(call[t].op, call[t].st, call[t].args, 0) \in Mut
    BY <2>1, <2>2, NewMutType, Zenon
  <2> QED BY <2>3, Zenon DEF Enqueue, PrependMut
<1>2. queue' # <<>> /\ queueTick' = queueTick
  BY <1>1, GrowingQueue
<1>3. UNCHANGED <<dvars, mxLost, queueProcessing, cur>>
  BY DEF Enqueue, PrependMut, flags, dvars
<1>4. \A u \in Threads : pc'[u] = pc[u] \/ (pc'[u] \notin Processing /\ pc[u] \notin Processing)
  BY DEF Enqueue, PrependMut, Goto, Processing, TypeOK
<1> QED BY <1>2, <1>3, <1>4, Zenon DEF Quiet, dvars, Processing

LEMMA QuietExec ==
  ASSUME TypeOK, NEW t \in Threads, Exec(t), ~Deadline(t)
  PROVE  Quiet
<1>1. (queue # <<>> => queue' # <<>>) /\ queueTick' = queueTick
  <2>1. NextTick \in Nat
    BY DEF TypeOK, NextTick
  <2>2. Exception \in StateNames /\ "" \in StateNames
    BY DEF StateNames
  <2>3. /\ NewMut("auto", "", FALSE, 0) \in Mut
        /\ NewMut("add", Exception, TRUE, 0) \in Mut
        /\ NewMut("add", Exception, TRUE, NextTick) \in Mut
    BY <2>1, <2>2, NewMutType, Zenon
  <2>4. \/ UNCHANGED qvars
        \/ QPrepend(NewMut("auto", "", FALSE, 0))
        \/ QPrepend(NewMut("add", Exception, TRUE, 0))
        \/ QAppend(NewMut("add", Exception, TRUE, NextTick))
    BY Zenon DEF Exec, ExecEval, ExecCheck, Accept, AcceptAuto, Cancel, Panic, DeadlineErr
  <2> QED BY <2>3, <2>4, GrowingQueue, Zenon DEF qvars
<1>2. UNCHANGED <<dvars, mxLost, queueProcessing>>
  BY Zenon DEF Exec, ExecEval, ExecCheck, Accept, AcceptAuto, Cancel, Panic, DeadlineErr, flags, dvars
<1>3. \E p \in {"loop", "subs"} : pc' = [pc EXCEPT ![t] = p]
  BY Zenon DEF Exec, ExecEval, ExecCheck, Accept, AcceptAuto, Cancel, Panic, DeadlineErr, Goto
<1>4. pc[t] \in {"exec", "deadline"}
  BY Zenon DEF Exec, ExecEval, ExecCheck, Accept, AcceptAuto, Cancel, Panic, DeadlineErr, Transitioning
<1>5. \A u \in Threads : u # t => cur'[u] = cur[u]
  BY Zenon DEF Exec, ExecEval, ExecCheck, Accept, AcceptAuto, Cancel, Panic, DeadlineErr, Drop, TypeOK
<1> QED BY <1>1, <1>2, <1>3, <1>4, <1>5 DEF Quiet, dvars, Processing, TypeOK

\* The steps of the one processor.
LEMMA LockProcessor ==
  ASSUME TypeOK, TickLedger, LockInv, NEW t \in Threads,
         \/ Cas(t) \/ Begin(t) \/ Loop(t) \/ CheckDisposing(t) \/ Shift(t)
         \/ Exec(t) \/ Subs(t) \/ Release(t)
  PROVE  LockInv'
<1> DEFINE Others == \A u \in Threads \ {t} : pc[u] \notin Processing
<1> SUFFICES ASSUME dpc' = "off" PROVE LockInv'
  BY Zenon DEF LockInv, ProcessorLock, PoppedTick, MutexKept, NotDisposing
<1>1. UNCHANGED dvars /\ dpc = "off" /\ ~disposing /\ ~disposing' /\ ~mxLost
  <2>1. UNCHANGED dvars
    BY Zenon DEF Cas, Begin, Loop, CheckDisposing, Shift, Exec, ExecEval, ExecCheck, Accept, AcceptAuto,
           Cancel, Panic, Deadline, DeadlineErr, Subs, Release
  <2> QED BY <2>1 DEF dvars, LockInv, NotDisposing, MutexKept
<1>2. CASE Cas(t)
  <2>1. CASE queueProcessing
    <3>1. pc' = [pc EXCEPT ![t] = "idle"] /\ UNCHANGED <<qvars, flags, cur>>
      BY <1>2, <2>1 DEF Cas, Return, Goto, flags
    <3>2. Quiet
      BY <1>1, <1>2, <3>1 DEF Quiet, Cas, Processing, qvars, flags, dvars, TypeOK
    <3> QED BY <3>2, QuietKeeps
  <2>2. CASE ~queueProcessing
    <3>1. pc' = [pc EXCEPT ![t] = "begin"] /\ queueProcessing' = TRUE
          /\ UNCHANGED <<qvars, mxLost, cur>>
      BY <1>2, <2>2 DEF Cas, Goto
    <3>2. \A u \in Threads : pc[u] \notin Processing
      BY <1>1, <2>2 DEF LockInv, ProcessorLock
    <3> QED BY <1>1, <3>1, <3>2
            DEF LockInv, ProcessorLock, PoppedTick, MutexKept, NotDisposing, Processing, TypeOK, qvars
  <2> QED BY <2>1, <2>2
<1>3. ASSUME pc[t] \in Processing
      PROVE  queueProcessing /\ Others
  BY <1>1, <1>3 DEF LockInv, ProcessorLock
<1>4. CASE Begin(t) \/ Subs(t) \/ CheckDisposing(t)
  <2>1. UNCHANGED <<qvars, queueProcessing, mxLost, cur>>
    BY <1>4 DEF Begin, Subs, CheckDisposing, flags
  <2>2. \A u \in Threads :
          /\ pc'[u] \in Processing <=> pc[u] \in Processing
          /\ pc'[u] \in {"check", "shift"} => pc[u] \in {"check", "shift"}
          /\ pc'[u] = "exec" => pc[u] = "exec"
    <3>1. CASE Begin(t)
      BY <3>1 DEF Begin, Goto, TypeOK, Processing
    <3>2. CASE Subs(t)
      BY <3>2 DEF Subs, TypeOK, Processing
    <3>3. CASE CheckDisposing(t)
      BY <1>1, <3>3 DEF CheckDisposing, Goto, TypeOK, Processing
    <3> QED BY <1>4, <3>1, <3>2, <3>3
  <2>3. Quiet
    BY <1>1, <2>1, <2>2, Zenon DEF Quiet, qvars, dvars
  <2> QED BY <2>3, QuietKeeps
<1>5. CASE Loop(t)
  <2>1. UNCHANGED <<qvars, queueProcessing, mxLost, cur>> /\ pc[t] = "loop"
    BY <1>5 DEF Loop
  <2>2. \/ queue # <<>> /\ pc' = [pc EXCEPT ![t] = "check"]
        \/ pc' = [pc EXCEPT ![t] = "release"]
    BY <1>5 DEF Loop, Goto
  <2> QED BY <1>1, <2>1, <2>2
          DEF LockInv, ProcessorLock, PoppedTick, MutexKept, NotDisposing, Processing, TypeOK, qvars
<1>6. CASE Shift(t)
  <2>1. pc[t] = "shift" /\ queue # <<>> /\ queueProcessing /\ Others
    BY <1>1, <1>3, <1>6 DEF Shift, LockInv, MutexKept, Processing
  <2>2. /\ QShift /\ cur' = [cur EXCEPT ![t] = Head(queue)]
        /\ pc' = [pc EXCEPT ![t] = "exec"] /\ UNCHANGED <<mxLost, queueProcessing>>
    BY <1>6, <2>1 DEF Shift, Goto
  <2>3. Head(queue).tick # 0 => Head(queue).tick = queueTick'
    BY <2>1, <2>2, HeadTick
  <2> QED BY <1>1, <2>1, <2>2, <2>3
          DEF LockInv, ProcessorLock, PoppedTick, MutexKept, NotDisposing, Processing, TypeOK
<1>7. CASE Exec(t) /\ ~Deadline(t)
  BY <1>7, QuietExec, QuietKeeps
<1>8. CASE Deadline(t)
  <2>1. /\ pc[t] = "exec" /\ pc' = [pc EXCEPT ![t] = "deadline"]
        /\ UNCHANGED <<queueTick, mxLost, queueProcessing>>
    BY <1>8 DEF Deadline, Transitioning, Goto, QClear, flags
  <2>2. queueProcessing /\ Others
    BY <1>3, <2>1 DEF Processing
  <2> QED BY <1>1, <2>1, <2>2, Zenon
          DEF LockInv, ProcessorLock, PoppedTick, MutexKept, NotDisposing, Processing, TypeOK
<1>9. CASE Release(t)
  <2>1. /\ pc[t] = "release" /\ pc' = [pc EXCEPT ![t] = "released"]
        /\ queueProcessing' = FALSE /\ UNCHANGED <<qvars, mxLost, cur>>
    BY <1>9 DEF Release, Goto
  <2>2. Others
    BY <1>3, <2>1 DEF Processing
  <2> QED BY <1>1, <2>1, <2>2
          DEF LockInv, ProcessorLock, PoppedTick, MutexKept, NotDisposing, Processing, TypeOK, qvars
<1> QED BY <1>2, <1>4, <1>5, <1>6, <1>7, <1>8, <1>9

LEMMA LockStep ==
  ASSUME TypeOK, TickLedger, LockInv, [Next]_vars
  PROVE  LockInv'
<1>1. CASE UNCHANGED vars
  BY <1>1 DEF vars, qvars, flags, dvars, LockInv, ProcessorLock, PoppedTick, MutexKept, NotDisposing
<1>2. CASE BackoffEnd
  BY <1>2 DEF BackoffEnd, qvars, flags, dvars, LockInv, ProcessorLock, PoppedTick, MutexKept,
              NotDisposing
<1>3. CASE DisposeStart \/ Disposal
  <2>1. dpc' # "off"
    BY <1>3 DEF DisposeStart, Disposal, DisposeCas, DisposeDrain, DisposeFinish
  <2> QED BY <2>1 DEF LockInv, ProcessorLock, PoppedTick, MutexKept, NotDisposing
<1>4. CASE \E t \in Threads :
             \/ \E c \in Calls : Mutate(t, c)
             \/ WhenQueue(t) \/ WhenQueueEnds(t) \/ Step(t)
  BY <1>4, LockProcessor, QuietCalls, QuietQueueing, QuietKeeps DEF Step
<1> QED BY <1>1, <1>2, <1>3, <1>4 DEF Next

LEMMA InitLock == Init => LockInv
BY DEF Init, LockInv, ProcessorLock, PoppedTick, MutexKept, NotDisposing, Processing

LEMMA LockAlways == Spec => []LockInv
<1>1. (TypeOK /\ TickLedger) /\ LockInv /\ [Next]_vars => LockInv'
  BY LockStep
<1> QED BY <1>1, InitLock, TypeAndLedger, PTL DEF Spec

\* Until Dispose, transitions of one machine never overlap.
THEOREM OneProcessor == Spec => []ProcessorLock
<1>1. LockInv => ProcessorLock
  BY DEF LockInv
<1> QED BY <1>1, LockAlways, PTL

\* Until Dispose, mutations with a queue tick are executed on that tick.
THEOREM TickOrder == Spec => []PoppedTick
<1>1. LockInv => PoppedTick
  BY DEF LockInv
<1> QED BY <1>1, LockAlways, PTL

\* Until Dispose, queueMx is never left locked by processQueue.
THEOREM NoMissingItem == Spec => []MutexKept
<1>1. LockInv => MutexKept
  BY DEF LockInv
<1> QED BY <1>1, LockAlways, PTL

-----------------------------------------------------------------------------
(* Mutations are neither lost nor executed twice *)

IdsOf(q) == {q[k].id : k \in DOMAIN q}
Distinct(q) == \A k, l \in DOMAIN q : q[k].id = q[l].id => k = l
Executing == {t \in Threads : pc[t] = "exec"}

\* Conservation without cardinalities: the ids in the queue and at processors are all
\* different, and are those of the mutations which are still to be decided.
Once ==
  /\ Distinct(queue) /\ IdsOf(queue) \subseteq 1 .. created
  /\ \A t \in Executing : cur[t].id \in 1 .. created /\ cur[t].id \notin IdsOf(queue)
  /\ \A t, u \in Executing : cur[t].id = cur[u].id => t = u
  /\ \A i \in 1 .. MaxMuts :
       fate[i] = "queued" <=> i \in IdsOf(queue) \/ \E t \in Executing : cur[t].id = i

\* A new mutation comes to the ids of the queue.
LEMMA GrowIds ==
  ASSUME TypeOK, NEW m \in Mut, QAppend(m) \/ QPrepend(m), Distinct(queue),
         m.id \notin IdsOf(queue)
  PROVE  Distinct(queue') /\ IdsOf(queue') = IdsOf(queue) \cup {m.id}
<1>1. queue \in Seq(Mut) /\ Len(queue) \in Nat /\ DOMAIN queue = 1 .. Len(queue)
  BY DEF TypeOK
<1>2. CASE QAppend(m)
  <2>1. queue' = Append(queue, m)
    BY <1>2 DEF QAppend
  <2>2. /\ DOMAIN queue' = 1 .. Len(queue) + 1
        /\ \A i \in 1 .. Len(queue) : queue'[i] = queue[i]
        /\ queue'[Len(queue) + 1] = m
    BY <1>1, <2>1
  <2>3. \A i \in DOMAIN queue' : i \in DOMAIN queue \/ i = Len(queue) + 1
    BY <1>1, <2>2
  <2>4. Distinct(queue')
    BY <1>1, <2>2, <2>3 DEF Distinct, IdsOf
  <2>5. IdsOf(queue') = IdsOf(queue) \cup {m.id}
    BY <1>1, <2>2, <2>3 DEF IdsOf
  <2> QED BY <2>4, <2>5
<1>3. CASE QPrepend(m)
  <2>1. queue' = <<m>> \o queue
    BY <1>3 DEF QPrepend
  <2>2. Len(<<m>>) = 1 /\ <<m>> \in Seq(Mut) /\ <<m>>[1] = m
    OBVIOUS
  <2>3. /\ DOMAIN queue' = 1 .. Len(queue) + 1
        /\ queue'[1] = m
        /\ \A i \in 2 .. Len(queue) + 1 : queue'[i] = queue[i - 1]
    BY <1>1, <2>1, <2>2
  <2>4. /\ \A i \in DOMAIN queue' : i = 1 \/ (i - 1 \in DOMAIN queue /\ queue'[i] = queue[i - 1])
        /\ \A i \in DOMAIN queue : i + 1 \in DOMAIN queue' /\ queue'[i + 1] = queue[i]
    BY <1>1, <2>3
  <2>5. ASSUME NEW k \in DOMAIN queue', NEW l \in DOMAIN queue', queue'[k].id = queue'[l].id
        PROVE  k = l
    <3>1. k \in Int /\ l \in Int
      BY <1>1, <2>3
    <3>2. CASE k = 1 \/ l = 1
      BY <2>3, <2>4, <2>5, <3>2 DEF IdsOf
    <3>3. CASE k # 1 /\ l # 1
      <4>1. k - 1 = l - 1
        BY <2>4, <2>5, <3>3 DEF Distinct
      <4> QED BY <3>1, <4>1
    <3> QED BY <3>2, <3>3
  <2>6. 1 \in DOMAIN queue'
    BY <1>1, <2>3
  <2>7. IdsOf(queue') = IdsOf(queue) \cup {m.id}
    BY <2>3, <2>4, <2>6 DEF IdsOf
  <2> QED BY <2>5, <2>7 DEF Distinct
<1> QED BY <1>2, <1>3

\* The head leaves the queue.
LEMMA ShiftIds ==
  ASSUME TypeOK, queue # <<>>, QShift, Distinct(queue)
  PROVE  /\ Distinct(queue') /\ IdsOf(queue') = IdsOf(queue) \ {Head(queue).id}
         /\ Head(queue).id \in IdsOf(queue)
<1>1. queue \in Seq(Mut) /\ queue' = Tail(queue)
  BY DEF TypeOK, QShift
<1>2. /\ Len(queue) \in Nat \ {0} /\ DOMAIN queue = 1 .. Len(queue)
      /\ Head(queue) = queue[1] /\ 1 \in DOMAIN queue
  BY <1>1
<1>3. /\ DOMAIN queue' = 1 .. Len(queue) - 1
      /\ \A i \in DOMAIN queue' : queue'[i] = queue[i + 1]
  BY <1>1, <1>2
<1>4. /\ \A i \in DOMAIN queue' : i + 1 \in DOMAIN queue /\ i + 1 # 1 /\ i \in Int
      /\ \A i \in DOMAIN queue : i # 1 => i - 1 \in DOMAIN queue' /\ queue'[i - 1] = queue[i]
  BY <1>2, <1>3
<1>5. Distinct(queue')
  <2> SUFFICES ASSUME NEW k \in DOMAIN queue', NEW l \in DOMAIN queue', queue'[k].id = queue'[l].id
               PROVE  k = l
    BY DEF Distinct
  <2>1. k + 1 = l + 1
    BY <1>3, <1>4 DEF Distinct
  <2> QED BY <1>4, <2>1
<1>6. IdsOf(queue') = IdsOf(queue) \ {Head(queue).id}
  <2>1. ASSUME NEW i \in DOMAIN queue' PROVE queue'[i].id \in IdsOf(queue) \ {Head(queue).id}
    <3>1. queue'[i] = queue[i + 1] /\ i + 1 \in DOMAIN queue /\ i + 1 # 1
      BY <1>3, <1>4
    <3> QED BY <1>2, <3>1 DEF Distinct, IdsOf
  <2>2. ASSUME NEW i \in DOMAIN queue, queue[i].id # Head(queue).id
        PROVE  queue[i].id \in IdsOf(queue')
    BY <1>2, <1>4, <2>2 DEF IdsOf
  <2> QED BY <2>1, <2>2 DEF IdsOf
<1> QED BY <1>2, <1>5, <1>6, Zenon DEF IdsOf

\* Steps on other things than mutations.
LEMMA OnceKept ==
  ASSUME Once, UNCHANGED <<queue, created, fate>>, Executing' = Executing,
         \A u \in Executing : cur'[u] = cur[u]
  PROVE  Once'
BY DEF Once

\* The number of the mutation about to be created.
LEMMA NextId ==
  ASSUME TypeOK, created < MaxMuts
  PROVE  created \in Nat /\ created + 1 \in 1 .. MaxMuts /\ MaxMuts \in Nat
<1>1. created \in 0 .. MaxMuts
  BY DEF TypeOK
<1>2. MaxMuts \in Nat
  BY QueueAssumption
<1> QED BY <1>1, <1>2

\* A mutation is created, and nothing else happens to one.
LEMMA OnceCreate ==
  ASSUME TypeOK, Once, NEW m \in Mut, m.id = created + 1, QAppend(m) \/ QPrepend(m),
         created < MaxMuts, created' = created + 1,
         fate' = [fate EXCEPT ![created + 1] = "queued"],
         Executing' = Executing, \A u \in Executing : cur'[u] = cur[u]
  PROVE  Once'
<1>1. created \in Nat /\ created + 1 \in 1 .. MaxMuts /\ MaxMuts \in Nat
  BY NextId
<1>2. created + 1 \notin IdsOf(queue) /\ \A t \in Executing : cur[t].id # created + 1
  BY <1>1 DEF Once
<1>3. Distinct(queue') /\ IdsOf(queue') = IdsOf(queue) \cup {created + 1}
  BY <1>2, GrowIds DEF Once
<1>4. IdsOf(queue') \subseteq 1 .. created'
  BY <1>1, <1>3 DEF Once
<1>5. \A t \in Executing : cur'[t].id \in 1 .. created' /\ cur'[t].id \notin IdsOf(queue')
  BY <1>1, <1>2, <1>3 DEF Once
<1>6. ASSUME NEW i \in 1 .. MaxMuts
      PROVE  fate'[i] = "queued" <=> i \in IdsOf(queue') \/ \E t \in Executing : cur'[t].id = i
  <2>1. CASE i = created + 1
    BY <1>1, <1>3, <2>1, Zenon DEF TypeOK
  <2>2. CASE i # created + 1
    <3>1. fate'[i] = fate[i]
      BY <1>1, <2>2 DEF TypeOK
    <3> QED BY <1>3, <2>2, <3>1 DEF Once
  <2> QED BY <2>1, <2>2
<1>7. \A u, v \in Executing : cur'[u].id = cur'[v].id => u = v
  BY DEF Once
<1> QED BY <1>3, <1>4, <1>5, <1>6, <1>7 DEF Once

\* A processor decides its mutation; f is what becomes of it.
LEMMA OnceDecide ==
  ASSUME TypeOK, Once, NEW t \in Executing, Executing' = Executing \ {t},
         \A u \in Executing \ {t} : cur'[u] = cur[u],
         NEW f \in Fates \ {"queued"}, fate' = [fate EXCEPT ![cur[t].id] = f],
         UNCHANGED <<queue, created>>
  PROVE  Once'
<1>1. created \in 0 .. MaxMuts /\ MaxMuts \in Nat /\ cur[t].id \in 1 .. created
  BY QueueAssumption, Zenon DEF TypeOK, Once
<1>2. cur[t].id \in 1 .. MaxMuts
  BY <1>1
<1>3. \A i \in 1 .. MaxMuts : fate'[i] = IF i = cur[t].id THEN f ELSE fate[i]
  BY <1>2 DEF TypeOK
<1>4. ASSUME NEW i \in 1 .. MaxMuts
      PROVE  fate'[i] = "queued" <=>
               i \in IdsOf(queue) \/ \E u \in Executing \ {t} : cur[u].id = i
  <2>1. CASE i = cur[t].id
    BY <1>3, <2>1 DEF Once
  <2>2. CASE i # cur[t].id
    BY <1>3, <2>2 DEF Once
  <2> QED BY <2>1, <2>2
<1>5. IdsOf(queue') = IdsOf(queue) /\ (Distinct(queue') <=> Distinct(queue))
  BY DEF IdsOf, Distinct
<1>6. \A u \in Executing' : /\ cur'[u] = cur[u] /\ u \in Executing
                            /\ cur'[u].id \in 1 .. created /\ cur'[u].id \notin IdsOf(queue)
  BY DEF Once
<1>7. \A u, v \in Executing' : cur'[u].id = cur'[v].id => u = v
  BY <1>6 DEF Once
<1>8. \A i \in 1 .. MaxMuts :
        fate'[i] = "queued" <=> i \in IdsOf(queue') \/ \E u \in Executing' : cur'[u].id = i
  BY <1>4, <1>5, <1>6
<1>9. Distinct(queue) /\ IdsOf(queue) \subseteq 1 .. created
  BY DEF Once
<1> QED BY <1>5, <1>6, <1>7, <1>8, <1>9 DEF Once

\* A processor decides its mutation and prepends another one: the two fates.
LEMMA TwoFates ==
  ASSUME TypeOK, Once, NEW t \in Executing, created < MaxMuts, NEW f \in Fates,
         fate' = [fate EXCEPT ![cur[t].id] = f, ![created + 1] = "queued"]
  PROVE  /\ fate'[created + 1] = "queued" /\ fate'[cur[t].id] = f
         /\ \A i \in 1 .. MaxMuts : i # created + 1 /\ i # cur[t].id => fate'[i] = fate[i]
<1> DEFINE decided == [fate EXCEPT ![cur[t].id] = f]
<1>1. created \in Nat /\ created + 1 \in 1 .. MaxMuts /\ MaxMuts \in Nat
  BY NextId
<1>2. cur[t].id \in 1 .. MaxMuts /\ cur[t].id # created + 1
  BY <1>1 DEF Once
<1>3. /\ decided \in [1 .. MaxMuts -> Fates] /\ decided[cur[t].id] = f
      /\ \A i \in 1 .. MaxMuts : i # cur[t].id => decided[i] = fate[i]
  BY <1>2 DEF TypeOK
<1>4. fate' = [decided EXCEPT ![created + 1] = "queued"]
  OBVIOUS
<1> HIDE DEF decided
<1> QED BY <1>1, <1>2, <1>3, <1>4

\* What becomes of the others.
LEMMA OnceReplace ==
  ASSUME TypeOK, Once, NEW t \in Executing, Executing' = Executing \ {t},
         \A u \in Executing \ {t} : cur'[u] = cur[u],
         NEW m \in Mut, m.id = created + 1, QPrepend(m),
         created < MaxMuts, created' = created + 1, NEW f \in Fates \ {"queued"},
         fate'[created + 1] = "queued", fate'[cur[t].id] = f,
         \A i \in 1 .. MaxMuts : i # created + 1 /\ i # cur[t].id => fate'[i] = fate[i]
  PROVE  Once'
<1>0. cur[t].id \in 1 .. created /\ IdsOf(queue) \subseteq 1 .. created
  BY DEF Once
<1>1. created \in Nat /\ created + 1 \in 1 .. MaxMuts /\ MaxMuts \in Nat
  BY NextId
<1>2. /\ created + 1 \notin IdsOf(queue) /\ \A u \in Executing : cur[u].id # created + 1
      /\ cur[t].id \in 1 .. MaxMuts
  BY <1>0, <1>1 DEF Once
<1>3. Distinct(queue') /\ IdsOf(queue') = IdsOf(queue) \cup {created + 1}
  BY <1>2, GrowIds, Zenon DEF Once
<1>4. IdsOf(queue') \subseteq 1 .. created'
  BY <1>0, <1>1, <1>3
<1>5. \A u \in Executing \ {t} : cur'[u].id \in 1 .. created' /\ cur'[u].id \notin IdsOf(queue')
  BY <1>1, <1>2, <1>3 DEF Once
<1>7. ASSUME NEW i \in 1 .. MaxMuts
      PROVE  fate'[i] = "queued" <=>
               i \in IdsOf(queue') \/ \E u \in Executing \ {t} : cur'[u].id = i
  <2>1. CASE i = created + 1
    BY <1>3, <2>1
  <2>2. CASE i = cur[t].id
    <3>1. i \notin IdsOf(queue') /\ \A u \in Executing \ {t} : cur'[u].id # i
      BY <1>2, <1>3, <2>2 DEF Once
    <3> QED BY <2>2, <3>1
  <2>3. CASE i # created + 1 /\ i # cur[t].id
    <3>1. fate'[i] = fate[i]
      BY <2>3
    <3>2. i \in IdsOf(queue') <=> i \in IdsOf(queue)
      BY <1>3, <2>3
    <3>3. (\E u \in Executing \ {t} : cur'[u].id = i) <=> \E u \in Executing : cur[u].id = i
      BY <2>3
    <3> QED BY <3>1, <3>2, <3>3 DEF Once
  <2> QED BY <2>1, <2>2, <2>3, Zenon
<1>8. \A u, v \in Executing' : cur'[u].id = cur'[v].id => u = v
  BY DEF Once
<1>9. /\ \A u \in Executing' : cur'[u].id \in 1 .. created' /\ cur'[u].id \notin IdsOf(queue')
      /\ \A i \in 1 .. MaxMuts :
           fate'[i] = "queued" <=> i \in IdsOf(queue') \/ \E u \in Executing' : cur'[u].id = i
  BY <1>5, <1>7
<1> QED BY <1>3, <1>4, <1>8, <1>9 DEF Once

\* HandlerDeadline drops all that is queued.
LEMMA OnceDeadline ==
  ASSUME TypeOK, Once, NEW t \in Threads, Deadline(t)
  PROVE  Once'
<1>1. /\ t \in Executing /\ Executing' = Executing \ {t} /\ created' = created
      /\ \A u \in Executing \ {t} : cur'[u] = cur[u]
  BY DEF Deadline, Transitioning, Drop, Goto, Executing, TypeOK
<1>2. IdsOf(queue') = {} /\ Distinct(queue')
  BY DEF Deadline, QClear, IdsOf, Distinct
<1>3. \A i \in 1 .. MaxMuts :
        fate'[i] = CASE i = cur[t].id -> "canceled" [] i \in IdsOf(queue) -> "dropped"
                     [] OTHER -> fate[i]
  BY DEF Deadline, IdsOf
<1>4. ASSUME NEW i \in 1 .. MaxMuts
      PROVE  fate'[i] = "queued" <=> \E u \in Executing \ {t} : cur'[u].id = i
  <2>1. CASE i = cur[t].id
    BY <1>1, <1>3, <2>1 DEF Once
  <2>2. CASE i # cur[t].id /\ i \in IdsOf(queue)
    BY <1>1, <1>3, <2>2 DEF Once
  <2>3. CASE i # cur[t].id /\ i \notin IdsOf(queue)
    BY <1>1, <1>3, <2>3 DEF Once
  <2> QED BY <2>1, <2>2, <2>3
<1>5. \A u \in Executing' : cur'[u] = cur[u] /\ u \in Executing /\ cur'[u].id \in 1 .. created
  BY <1>1 DEF Once
<1>6. \A u, v \in Executing' : cur'[u].id = cur'[v].id => u = v
  BY <1>5 DEF Once
<1>7. \A i \in 1 .. MaxMuts :
        fate'[i] = "queued" <=> i \in IdsOf(queue') \/ \E u \in Executing' : cur'[u].id = i
  BY <1>1, <1>2, <1>4
<1> QED BY <1>1, <1>2, <1>5, <1>6, <1>7 DEF Once

LEMMA OnceShift ==
  ASSUME TypeOK, Once, NEW t \in Threads, Shift(t)
  PROVE  Once'
<1>1. CASE queue = <<>>
  <2>1. UNCHANGED <<queue, created, fate, cur>> /\ pc[t] = "shift" /\ pc' = [pc EXCEPT ![t] = "idle"]
    BY <1>1 DEF Shift, Return, Goto, qvars, hvars
  <2>2. Executing' = Executing
    BY <2>1 DEF Executing, TypeOK
  <2> QED BY <2>1, <2>2, OnceKept
<1>2. CASE queue # <<>>
  <2>1. /\ QShift /\ cur' = [cur EXCEPT ![t] = Head(queue)] /\ pc[t] = "shift"
        /\ pc' = [pc EXCEPT ![t] = "exec"] /\ UNCHANGED <<created, fate>>
    BY <1>2 DEF Shift, Goto, hvars
  <2>2. /\ Executing' = Executing \cup {t} /\ t \notin Executing /\ cur'[t] = Head(queue)
        /\ \A u \in Executing : cur'[u] = cur[u]
    BY <2>1 DEF Executing, TypeOK
  <2>3. /\ Distinct(queue') /\ IdsOf(queue') = IdsOf(queue) \ {Head(queue).id}
        /\ Head(queue).id \in IdsOf(queue)
    BY <1>2, <2>1, ShiftIds DEF Once
  <2> QED BY <2>1, <2>2, <2>3 DEF Once
<1> QED BY <1>1, <1>2

LEMMA OnceExec ==
  ASSUME TypeOK, Once, NEW t \in Threads, Exec(t)
  PROVE  Once'
<1> USE DEF Drop, Goto
<1>1. Exception \in StateNames /\ "" \in StateNames /\ NextTick \in Nat
  <2>1. NextTick \in Nat
    BY DEF NextTick, TypeOK
  <2> QED BY <2>1 DEF StateNames
<1>2. ASSUME pc[t] = "exec", cur' = [cur EXCEPT ![t] = NoMut],
             \E p \in {"loop", "subs"} : pc' = [pc EXCEPT ![t] = p]
      PROVE  /\ t \in Executing /\ Executing' = Executing \ {t}
             /\ \A u \in Executing \ {t} : cur'[u] = cur[u]
  BY <1>2 DEF Executing, TypeOK
<1>3. CASE ExecEval(t) \/ ExecCheck(t, "executed") \/ ExecCheck(t, "canceled") \/ Accept(t) \/ Cancel(t)
  <2>1. \E f \in {"executed", "canceled"} : fate' = [fate EXCEPT ![cur[t].id] = f]
    BY <1>3, Zenon DEF ExecEval, ExecCheck, Accept, Cancel
  <2>2. UNCHANGED <<queue, created>>
    BY <1>3, Zenon DEF ExecEval, ExecCheck, Accept, Cancel, qvars
  <2>3. /\ t \in Executing /\ Executing' = Executing \ {t}
        /\ \A u \in Executing \ {t} : cur'[u] = cur[u]
    BY <1>2, <1>3 DEF ExecEval, ExecCheck, Accept, Cancel, Transitioning
  <2> QED BY <2>1, <2>2, <2>3, OnceDecide, Zenon DEF Fates
<1>4. ASSUME NEW m \in Mut, m.id = created + 1, NEW f \in {"executed", "canceled"},
             t \in Executing, Executing' = Executing \ {t},
             \A u \in Executing \ {t} : cur'[u] = cur[u],
             QPrepend(m), created < MaxMuts, created' = created + 1,
             fate' = [fate EXCEPT ![cur[t].id] = f, ![created + 1] = "queued"]
      PROVE  Once'
  <2>1. f \in Fates \ {"queued"}
    BY DEF Fates
  <2>2. /\ fate'[created + 1] = "queued" /\ fate'[cur[t].id] = f
        /\ \A i \in 1 .. MaxMuts : i # created + 1 /\ i # cur[t].id => fate'[i] = fate[i]
    BY <1>4, <2>1, TwoFates, Zenon
  <2> QED BY <1>4, <2>1, <2>2, OnceReplace, Zenon
<1>5. CASE AcceptAuto(t)
  <2>1. NewMut("auto", "", FALSE, 0) \in Mut /\ NewMut("auto", "", FALSE, 0).id = created + 1
    BY <1>1, NewMutType, Zenon DEF NewMut
  <2>2. /\ t \in Executing /\ Executing' = Executing \ {t}
        /\ \A u \in Executing \ {t} : cur'[u] = cur[u]
    BY <1>2, <1>5, Zenon DEF AcceptAuto, Transitioning
  <2> QED BY <1>4, <1>5, <2>1, <2>2, Zenon DEF AcceptAuto
<1>6. CASE Panic(t)
  <2>1. /\ NewMut("add", Exception, TRUE, 0) \in Mut
        /\ NewMut("add", Exception, TRUE, 0).id = created + 1
    BY <1>1, NewMutType, Zenon DEF NewMut
  <2>2. /\ t \in Executing /\ Executing' = Executing \ {t}
        /\ \A u \in Executing \ {t} : cur'[u] = cur[u]
    BY <1>2, <1>6 DEF Panic, Transitioning
  <2>3. CASE cur[t].st = Exception
    <3>1. fate' = [fate EXCEPT ![cur[t].id] = "canceled"] /\ UNCHANGED <<queue, created>>
      BY <1>6, <2>3 DEF Panic, qvars
    <3> QED BY <2>2, <3>1, OnceDecide, Zenon DEF Fates
  <2>4. CASE cur[t].st # Exception
    <3>1. /\ QPrepend(NewMut("add", Exception, TRUE, 0)) /\ created < MaxMuts /\ created' = created + 1
          /\ fate' = [fate EXCEPT ![cur[t].id] = "canceled", ![created + 1] = "queued"]
      BY <1>6, <2>4, Zenon DEF Panic
    <3> QED BY <1>4, <2>1, <2>2, <3>1, Zenon
  <2> QED BY <2>3, <2>4
<1>7. CASE DeadlineErr(t)
  <2>1. cur' = cur /\ pc[t] = "deadline" /\ pc' = [pc EXCEPT ![t] = "loop"]
    BY <1>7 DEF DeadlineErr
  <2>2. Executing' = Executing
    BY <2>1 DEF Executing, TypeOK
  <2>3. /\ NewMut("add", Exception, TRUE, NextTick) \in Mut
        /\ NewMut("add", Exception, TRUE, NextTick).id = created + 1
    BY <1>1, NewMutType, Zenon DEF NewMut
  <2>4. \/ QAppend(NewMut("add", Exception, TRUE, NextTick)) /\ Create
        \/ UNCHANGED <<queue, created, fate>>
    BY <1>7, Zenon DEF DeadlineErr, qvars, hvars
  <2> QED BY <2>1, <2>2, <2>3, <2>4, OnceKept, OnceCreate, Zenon DEF Create
<1> QED BY <1>3, <1>5, <1>6, <1>7, OnceDeadline DEF Exec

LEMMA OnceQueueing ==
  ASSUME TypeOK, Once, NEW t \in Threads, Enqueue(t) \/ PrependMut(t)
  PROVE  Once'
<1>1. NextTick \in Nat
  BY DEF NextTick, TypeOK
<1>2. /\ call[t].op \in {"add", "remove", "set", "check", "eval", "auto"}
      /\ call[t].st \in StateNames /\ call[t].args \in BOOLEAN
  BY DEF TypeOK, CallType
<1>3. \A n \in {0, NextTick} : /\ NewMut(call[t].op, call[t].st, call[t].args, n) \in Mut
                               /\ NewMut(call[t].op, call[t].st, call[t].args, n).id = created + 1
  BY <1>1, <1>2, NewMutType DEF NewMut
<1>4. PICK m \in Mut : m.id = created + 1 /\ (QAppend(m) \/ QPrepend(m))
  BY <1>3 DEF Enqueue, PrependMut
<1>5. /\ cur' = cur /\ pc[t] \in {"enqueue", "prepend"} /\ pc' = [pc EXCEPT ![t] = "process"]
      /\ Create
  BY DEF Enqueue, PrependMut, Goto
<1>6. Executing' = Executing
  BY <1>5 DEF Executing, TypeOK
<1> QED BY <1>4, <1>5, <1>6, OnceCreate DEF Create

\* All the other steps.
LEMMA OnceOther ==
  ASSUME TypeOK, Once, NEW t \in Threads,
         \/ \E c \in Calls : Mutate(t, c)
         \/ RemoveEarly(t) \/ Dedup(t) \/ Process(t) \/ Cas(t) \/ Begin(t) \/ Loop(t)
         \/ CheckDisposing(t) \/ Subs(t) \/ Release(t) \/ Released(t) \/ Ends(t)
         \/ Woken(t) \/ BindEnds(t) \/ WhenQueue(t) \/ WhenQueueEnds(t)
  PROVE  Once'
<1>1. UNCHANGED <<queue, created, fate, cur>>
  BY DEF Mutate, RemoveEarly, Dedup, Process, Cas, Begin, Loop, CheckDisposing, Subs, Release,
         Released, Ends, Woken, BindEnds, WhenQueue, WhenQueueEnds, qvars, hvars
<1>2. \A u \in Threads : pc'[u] = "exec" <=> pc[u] = "exec"
  <2>1. CASE Subs(t)
    BY <2>1 DEF Subs
  <2>2. CASE Ends(t)
    BY <2>2 DEF Ends
  <2>3. CASE pc[t] # "exec" /\ \E p \in PCs \ {"exec"} : pc' = [pc EXCEPT ![t] = p]
    BY <2>3 DEF TypeOK
  <2>4. CASE \E c \in Calls : Mutate(t, c)
    BY <2>3, <2>4 DEF Mutate, Goto, PCs
  <2>5. CASE RemoveEarly(t) \/ Dedup(t) \/ Process(t) \/ Cas(t) \/ CheckDisposing(t)
    BY <2>3, <2>5, Zenon DEF RemoveEarly, Dedup, Process, Cas, CheckDisposing, Return, Goto, PCs, Processing
  <2>6. CASE Begin(t) \/ Loop(t) \/ Release(t) \/ Released(t)
    BY <2>3, <2>6, Zenon DEF Begin, Loop, Release, Released, Goto, PCs, Processing
  <2>7. CASE Woken(t) \/ BindEnds(t) \/ WhenQueue(t) \/ WhenQueueEnds(t)
    BY <2>3, <2>7 DEF Woken, BindEnds, WhenQueue, WhenQueueEnds, Goto, PCs
  <2> QED BY <2>1, <2>2, <2>4, <2>5, <2>6, <2>7, Zenon
<1> QED BY <1>1, <1>2, OnceKept, Zenon DEF Executing

LEMMA OnceStep ==
  ASSUME TypeOK, Once, [Next]_vars
  PROVE  Once'
<1>1. CASE DisposeStart \/ Disposal \/ BackoffEnd \/ UNCHANGED vars
  <2>1. UNCHANGED <<queue, created, fate, cur>>
    BY <1>1 DEF DisposeStart, Disposal, DisposeCas, DisposeDrain, DisposeFinish, BackoffEnd, vars,
                qvars, hvars
  <2>2. \A u \in Threads : pc'[u] = "exec" <=> pc[u] = "exec"
    BY <1>1 DEF DisposeStart, Disposal, DisposeCas, DisposeDrain, DisposeFinish, BackoffEnd, vars
  <2> QED BY <2>1, <2>2, OnceKept DEF Executing
<1>2. CASE \E t \in Threads :
             \/ \E c \in Calls : Mutate(t, c)
             \/ WhenQueue(t) \/ WhenQueueEnds(t) \/ Step(t)
  BY <1>2, OnceShift, OnceExec, OnceQueueing, OnceOther DEF Step
<1> QED BY <1>1, <1>2 DEF Next

\* A set with at most one element counts as one or nothing.
LEMMA AtMostOne ==
  ASSUME NEW S, \A x, y \in S : x = y
  PROVE  Cardinality(S) = IF S = {} THEN 0 ELSE 1
<1>1. CASE S = {}
  BY <1>1, FS_EmptySet
<1>2. CASE S # {}
  <2>1. PICK x : x \in S
    BY <1>2
  <2>2. S = {x}
    BY <2>1
  <2> QED BY <1>2, <2>2, FS_Singleton
<1> QED BY <1>1, <1>2

LEMMA OnceCounts == TypeOK /\ Once => Conservation
<1> SUFFICES ASSUME TypeOK, Once, NEW i \in 1 .. MaxMuts
             PROVE  Cardinality({k \in DOMAIN queue : queue[k].id = i})
                    + Cardinality({t \in Threads : pc[t] = "exec" /\ cur[t].id = i})
                    = IF fate[i] = "queued" THEN 1 ELSE 0
  BY DEF Conservation
<1> DEFINE Q == {k \in DOMAIN queue : queue[k].id = i}
           E == {t \in Threads : pc[t] = "exec" /\ cur[t].id = i}
<1>1. Cardinality(Q) = IF Q = {} THEN 0 ELSE 1
  <2>1. \A k, l \in Q : k = l
    BY DEF Once, Distinct
  <2> HIDE DEF Q
  <2> QED BY <2>1, AtMostOne
<1>2. Cardinality(E) = IF E = {} THEN 0 ELSE 1
  <2>1. \A t, u \in E : t = u
    BY DEF Once, Executing
  <2> HIDE DEF E
  <2> QED BY <2>1, AtMostOne
<1>3. Q # {} <=> i \in IdsOf(queue)
  BY DEF IdsOf
<1>4. E # {} <=> \E t \in Executing : cur[t].id = i
  BY DEF Executing
<1>5. Q = {} \/ E = {}
  BY <1>3, <1>4 DEF Once
<1>6. fate[i] = "queued" <=> Q # {} \/ E # {}
  BY <1>3, <1>4 DEF Once
<1> HIDE DEF Q, E
<1>7. Cardinality(Q) + Cardinality(E) = IF fate[i] = "queued" THEN 1 ELSE 0
  BY <1>1, <1>2, <1>5, <1>6
<1> QED BY <1>7 DEF Q, E

\* However many goroutines queue, prepend and process mutations, and whatever becomes of
\* transitions, also after Dispose: each mutation that queueMutation or PrependMut took waits
\* in one place until processQueue decides about it, once.
THEOREM NoneLostOrTwice == Spec => []Conservation
<1>1. Init => Once
  BY DEF Init, Once, Distinct, IdsOf, Executing
<1>2. TypeOK /\ Once /\ [Next]_vars => Once'
  BY OnceStep
<1> QED BY <1>1, <1>2, OnceCounts, TypeCorrect, PTL DEF Spec
=============================================================================
