------------------------------- MODULE Queue -------------------------------
(***************************************************************************)
(* The mutation queue of pkg/machine: several goroutines call Add, Remove, *)
(* Set, CanAdd, Eval, WhenQueue and WhenQueueEnds on one machine, one of   *)
(* them becomes the processor of the queue, and one may call Dispose.      *)
(*                                                                         *)
(* Steps are the atomic accesses of the code: an atomic load, store or     *)
(* compare-and-swap, or one critical section of queueMx.  queueLen is      *)
(* stored inside every critical section that changes queue, so it is       *)
(* Len(queue) here.  Handlers that call the machine run on a goroutine of  *)
(* their own and are among the Threads.  The machine has no relations (the *)
(* module Relations has them): a mutation calls one state.                 *)
(***************************************************************************)
EXTENDS Integers, Sequences, FiniteSets

CONSTANTS Threads,      \* goroutines calling the machine
          States,       \* state names, besides Exception
          Calls,        \* the mutations they ask for: [op, st, args]
          QueueLimit,   \* Machine.QueueLimit
          Outcomes,     \* how a transition may end
          MayDispose,   \* whether Dispose gets called
          MaxMuts       \* bound: mutations created in a behaviour

Exception == "Exception"
StateNames == States \cup {Exception, ""}    \* "": an eval calls no state

CallType == [op : {"add", "remove", "set", "check", "eval"}, st : StateNames,
             args : BOOLEAN]

ASSUME QueueAssumption ==
  /\ Calls \subseteq CallType
  /\ QueueLimit \in Nat \ {0}
  /\ Outcomes \subseteq {"accept", "auto", "cancel", "panic", "deadline"}
  /\ MayDispose \in BOOLEAN
  /\ MaxMuts \in Nat

VARIABLES
  queue,              \* Machine.queue, a sequence of mutations
  queueTick,          \* ticks processed, starts from 1
  queueTicksPending,  \* the part of the queue with ticks assigned
  queueProcessing,    \* the processor's flag
  queueRunning,       \* "the queue is currently being executed"
  mxLost,             \* queueMx is held by a goroutine that returned
  tx,                 \* Machine.Transition() # nil
  active,             \* Machine.activeStates
  backoff,            \* a HandlerDeadline passed less than HandlerBackoff ago
  disposing, disposed, whenDisposed,
  dpc,                \* where the goroutine of Dispose is
  pc,                 \* where each thread is
  call,               \* the call a thread is making
  cur,                \* the mutation a processor took from the queue
  ret0,               \* ret[0] of processQueue
  got,                \* the mutation a thread's last call queued, and its result
  created,            \* number of mutations created so far
  fate                \* history: what became of each created mutation

qvars == <<queue, queueTick, queueTicksPending>>
flags == <<queueProcessing, queueRunning, mxLost, tx>>
dvars == <<disposing, disposed, whenDisposed, dpc>>
hvars == <<created, fate>>
vars  == <<qvars, flags, active, backoff, dvars, hvars,
           pc, call, cur, ret0, got>>

-----------------------------------------------------------------------------
(* Types *)

Mut == [id : Nat, tick : Nat, args : BOOLEAN, st : StateNames,
        op : {"add", "remove", "set", "check", "eval", "auto"}]
NoMut == [id |-> 0, tick |-> 0, args |-> FALSE, st |-> "", op |-> "check"]
NoCall == [op |-> "add", st |-> "", args |-> FALSE]

Results == {"none", "executed", "canceled", "queued"}
Answer == [id : Nat, tick : Nat, res : Results]
NoAnswer == [id |-> 0, tick |-> 0, res |-> "none"]
Fates == {"none", "queued", "executed", "canceled", "dropped"}

\* Where a thread is between its compare-and-swap of queueProcessing and the
\* store that releases it.
Processing == {"begin", "loop", "check", "shift", "exec", "deadline",
               "subs", "release"}
PCs == Processing \cup
       {"idle", "early", "dedup", "prepend", "enqueue", "process", "cas", "released",
        "ends", "bindEnds", "waitEnds", "waitQueue", "woken"}

TypeOK ==
  /\ queue \in Seq(Mut)
  /\ queueTick \in Nat \ {0}
  /\ queueTicksPending \in Nat
  /\ queueProcessing \in BOOLEAN /\ queueRunning \in BOOLEAN
  /\ mxLost \in BOOLEAN /\ tx \in BOOLEAN /\ backoff \in BOOLEAN
  /\ active \in SUBSET StateNames
  /\ disposing \in BOOLEAN /\ disposed \in BOOLEAN /\ whenDisposed \in BOOLEAN
  /\ dpc \in {"off", "cas", "drain", "locks", "done"}
  /\ pc \in [Threads -> PCs]
  /\ call \in [Threads -> CallType]
  /\ cur \in [Threads -> Mut]
  /\ ret0 \in [Threads -> Results]
  /\ got \in [Threads -> Answer]
  /\ created \in 0 .. MaxMuts
  /\ fate \in [1 .. MaxMuts -> Fates]

Init ==
  /\ queue = <<>> /\ queueTick = 1 /\ queueTicksPending = 0
  /\ queueProcessing = FALSE /\ queueRunning = FALSE
  /\ mxLost = FALSE /\ tx = FALSE
  /\ active = {} /\ backoff = FALSE
  /\ disposing = FALSE /\ disposed = FALSE /\ whenDisposed = FALSE
  /\ dpc = "off"
  /\ pc = [t \in Threads |-> "idle"]
  /\ call = [t \in Threads |-> NoCall]
  /\ cur = [t \in Threads |-> NoMut]
  /\ ret0 = [t \in Threads |-> "none"]
  /\ got = [t \in Threads |-> NoAnswer]
  /\ created = 0
  /\ fate = [i \in 1 .. MaxMuts |-> "none"]

-----------------------------------------------------------------------------
(* Critical sections of queueMx *)

\* queueMutation, the locked part: append with the next queue tick.
QAppend(m) ==
  /\ queue' = Append(queue, m)
  /\ queueTicksPending' = queueTicksPending + 1
  /\ queueTick' = queueTick

\* Mutant: the rest of the queue is dropped.
QPrependAlone(m) ==
  /\ queue' = <<m>>
  /\ UNCHANGED <<queueTick, queueTicksPending>>

\* PrependMut, the locked part: no queue tick, no queue limit.
QPrepend(m) ==
  /\ queue' = <<m>> \o queue
  /\ UNCHANGED <<queueTick, queueTicksPending>>

\* processQueue, "shift the queue".
QShift ==
  /\ queue' = Tail(queue)
  /\ IF Head(queue).tick > 0
     THEN /\ queueTicksPending' = queueTicksPending - 1
          /\ queueTick' = queueTick + 1
     ELSE UNCHANGED <<queueTick, queueTicksPending>>

\* Mutant: the pending ticks survive the cleared queue.
QClearQueueOnly == queue' = <<>> /\ UNCHANGED <<queueTick, queueTicksPending>>

\* processHandlers, "clear the queue" after a HandlerDeadline.
QClear ==
  /\ queue' = <<>>
  /\ queueTicksPending' = 0
  /\ queueTick' = queueTick

NewMut(op, st, args, tick) ==
  [id |-> created + 1, tick |-> tick, args |-> args, st |-> st, op |-> op]

\* Mutant: the tick is computed before queueTicksPending is incremented.
NextTickEarly == queueTicksPending + queueTick

NextTick == queueTicksPending + 1 + queueTick

\* The bound MaxMuts: a call, and a transition that would make a mutation of its
\* own, only begins when there is room for all the mutations under way.
Budget ==
  created + Cardinality({t \in Threads :
    pc[t] \in {"early", "dedup", "prepend", "enqueue", "deadline"}}) < MaxMuts

\* Book-keeping of a new mutation.
Create ==
  /\ created < MaxMuts
  /\ created' = created + 1
  /\ fate' = [fate EXCEPT ![created + 1] = "queued"]

Goto(t, to) == pc' = [pc EXCEPT ![t] = to]

\* The mutation call of t returns r.
Return(t, r) ==
  /\ Goto(t, "idle")
  /\ got' = [got EXCEPT ![t].res = r]
  /\ call' = [call EXCEPT ![t] = NoCall]
  /\ ret0' = [ret0 EXCEPT ![t] = "none"]

-----------------------------------------------------------------------------
(* Mutation methods *)

\* The checks of Add, Remove, Set, CanAdd / CanRemove ("check") and Eval before
\* anything is queued.  Exception gets in past a full queue, once.  Set and Eval
\* do not ask about Backoff; prepending calls do not ask about the limit.  A
\* refused call returns Canceled and changes nothing, so it is no action here.
Prepending(c) == c.op \in {"check", "eval"}

Admitted(c) ==
  /\ ~disposing
  /\ backoff => c.op \in {"set", "eval"}
  /\ \/ Prepending(c)
     \/ Len(queue) < QueueLimit
     \/ c.op = "add" /\ c.st = Exception /\ Exception \notin active
     \/ c.op = "remove" /\ c.st = Exception /\ Exception \in active

Mutate(t, c) ==
  /\ pc[t] = "idle"
  /\ Budget
  /\ Admitted(c)
  /\ Goto(t, CASE c.op = "remove" -> "early"
               [] Prepending(c)    -> "prepend"
               [] OTHER            -> "dedup")
  /\ call' = [call EXCEPT ![t] = c]
  /\ got' = [got EXCEPT ![t] = NoAnswer]
  /\ UNCHANGED <<qvars, flags, active, backoff, dvars, hvars, cur, ret0>>

\* Remove: "try ignoring this mutation, if none of the states is currently
\* active", with an empty queue and during a transition.
Ignorable(t) == queue = <<>> /\ tx /\ call[t].st \notin active

RemoveEarly(t) ==
  /\ pc[t] = "early"
  /\ ~mxLost
  /\ \/ /\ Ignorable(t)
        /\ Return(t, "executed")
     \/ /\ ~Ignorable(t)
        /\ Goto(t, "dedup")
        /\ UNCHANGED <<got, call, ret0>>
  /\ UNCHANGED <<qvars, flags, active, backoff, dvars, hvars, cur>>

\* queueMutation with detectQueueDuplicates: only for calls without arguments
\* and without Multi states (Exception is Multi).
IsQueued(c) ==
  \E i \in DOMAIN queue :
    queue[i].op = c.op /\ queue[i].st = c.st /\ ~queue[i].args

Duplicate(c) ==
  /\ ~disposing
  /\ ~c.args
  /\ c.st # Exception
  /\ IsQueued(c)

Dedup(t) ==
  /\ pc[t] = "dedup"
  /\ ~mxLost
  /\ \/ /\ Duplicate(call[t])
        /\ Return(t, "executed")
     \/ /\ ~Duplicate(call[t])
        /\ Goto(t, "enqueue")
        /\ UNCHANGED <<got, call, ret0>>
  /\ UNCHANGED <<qvars, flags, active, backoff, dvars, hvars, cur>>

Enqueue(t) ==
  /\ pc[t] = "enqueue"
  /\ ~mxLost
  /\ QAppend(NewMut(call[t].op, call[t].st, call[t].args, NextTick))
  /\ Create
  /\ got' = [got EXCEPT ![t] = [id |-> created + 1, tick |-> NextTick, res |-> "none"]]
  /\ Goto(t, "process")
  /\ UNCHANGED <<flags, active, backoff, dvars, call, cur, ret0>>

\* PrependMut, as called by CanAdd, CanRemove and Eval.
PrependMut(t) ==
  /\ pc[t] = "prepend"
  /\ ~mxLost
  /\ QPrepend(NewMut(call[t].op, call[t].st, call[t].args, 0))
  /\ Create
  /\ got' = [got EXCEPT ![t] = [id |-> created + 1, tick |-> 0, res |-> "none"]]
  /\ Goto(t, "process")
  /\ UNCHANGED <<flags, active, backoff, dvars, call, cur, ret0>>

-----------------------------------------------------------------------------
(* processQueue *)

\* "empty queue": also true when another processor was faster.
Process(t) ==
  /\ pc[t] = "process"
  /\ \/ /\ queue = <<>> \/ disposing
        /\ Return(t, "canceled")
     \/ /\ queue # <<>> /\ ~disposing
        /\ Goto(t, "cas")
        /\ UNCHANGED <<got, call, ret0>>
  /\ UNCHANGED <<qvars, flags, active, backoff, dvars, hvars, cur>>

\* Mutant: queueProcessing is stored without a comparison.
CasStore(t) ==
  /\ pc[t] = "cas"
  /\ queueProcessing' = TRUE
  /\ Goto(t, "begin")
  /\ UNCHANGED <<qvars, queueRunning, mxLost, tx, active, backoff, dvars, hvars,
                 call, cur, ret0, got>>

Cas(t) ==
  /\ pc[t] = "cas"
  /\ \/ /\ queueProcessing
        /\ ~mxLost                    \* the log line takes queueMx
        /\ Return(t, "queued")
        /\ UNCHANGED queueProcessing
     \/ /\ ~queueProcessing
        /\ queueProcessing' = TRUE
        /\ Goto(t, "begin")
        /\ UNCHANGED <<got, call, ret0>>
  /\ UNCHANGED <<qvars, queueRunning, mxLost, tx, active, backoff, dvars, hvars, cur>>

Begin(t) ==
  /\ pc[t] = "begin"
  /\ queueRunning' = FALSE
  /\ Goto(t, "loop")
  /\ UNCHANGED <<qvars, queueProcessing, mxLost, tx, active, backoff, dvars,
                 hvars, call, cur, ret0, got>>

\* Mutant: the loop waits for more mutations instead of ending.
LoopForever(t) ==
  /\ pc[t] = "loop"
  /\ queueRunning' = TRUE
  /\ Goto(t, IF queue = <<>> THEN "loop" ELSE "check")
  /\ UNCHANGED <<qvars, queueProcessing, mxLost, tx, active, backoff, dvars,
                 hvars, call, cur, ret0, got>>

Loop(t) ==
  /\ pc[t] = "loop"
  /\ \/ /\ queue # <<>>
        /\ queueRunning' = TRUE
        /\ Goto(t, "check")
     \/ /\ queue = <<>>
        /\ Goto(t, "release")
        /\ UNCHANGED queueRunning
  /\ UNCHANGED <<qvars, queueProcessing, mxLost, tx, active, backoff, dvars,
                 hvars, call, cur, ret0, got>>

\* A disposed machine's processor leaves without releasing queueProcessing.
CheckDisposing(t) ==
  /\ pc[t] = "check"
  /\ \/ disposing /\ Return(t, "canceled")
     \/ ~disposing /\ Goto(t, "shift") /\ UNCHANGED <<got, call, ret0>>
  /\ UNCHANGED <<qvars, flags, active, backoff, dvars, hvars, cur>>

\* Finding no item is an early return which leaves queueMx locked.
Shift(t) ==
  /\ pc[t] = "shift"
  /\ ~mxLost
  /\ \/ /\ queue = <<>>
        /\ mxLost' = TRUE
        /\ Return(t, "canceled")
        /\ UNCHANGED <<qvars, tx, cur>>
     \/ /\ queue # <<>>
        /\ QShift
        /\ cur' = [cur EXCEPT ![t] = Head(queue)]
        /\ tx' = (tx \/ Head(queue).op # "eval")
        /\ Goto(t, "exec")
        /\ UNCHANGED <<mxLost, got, call, ret0>>
  /\ UNCHANGED <<queueProcessing, queueRunning, active, backoff, dvars, hvars>>

\* Active states after mutation m, by setActiveStates without relations.
ActiveAfter(m) ==
  CASE m.op = "add"    -> active \cup {m.st}
    [] m.op = "remove" -> active \ {m.st}
    [] m.op = "set"    -> {m.st}
    [] OTHER           -> active

\* emitEvents returned r for the mutation of t.
Record(t, r) == ret0' = [ret0 EXCEPT ![t] = IF @ = "none" THEN r ELSE @]

\* The mutation goes out of scope.
Drop(t) == cur' = [cur EXCEPT ![t] = NoMut]

\* Eval mutations and checks skip processSubscriptions.  An eval adds no result;
\* one whose ctx expired does not run, and adds Executed.
ExecEval(t) ==
  /\ pc[t] = "exec" /\ cur[t].op = "eval"
  /\ \/ /\ fate' = [fate EXCEPT ![cur[t].id] = "executed"]
        /\ UNCHANGED ret0
     \/ /\ fate' = [fate EXCEPT ![cur[t].id] = "canceled"]
        /\ Record(t, "executed")
  /\ Drop(t) /\ Goto(t, "loop")
  /\ UNCHANGED <<qvars, flags, active, backoff, dvars, created, call, got>>

ExecCheck(t, r) ==
  /\ pc[t] = "exec" /\ cur[t].op = "check"
  /\ disposing => r = "canceled"
  /\ fate' = [fate EXCEPT ![cur[t].id] = r]
  /\ Record(t, r)
  /\ Drop(t) /\ Goto(t, "loop")
  /\ UNCHANGED <<qvars, flags, active, backoff, dvars, created, call, got>>

Transitioning(t) == pc[t] = "exec" /\ cur[t].op \notin {"eval", "check"}

\* An accepted transition; handle and setActiveStates refuse when disposing.
Accept(t) ==
  /\ Transitioning(t) /\ "accept" \in Outcomes
  /\ ~disposing
  /\ active' = ActiveAfter(cur[t])
  /\ fate' = [fate EXCEPT ![cur[t].id] = "executed"]
  /\ Record(t, "executed")
  /\ Drop(t) /\ Goto(t, "subs")
  /\ UNCHANGED <<qvars, flags, backoff, dvars, created, call, got>>

\* Dispose clears queueProcessing, after which a mutation made from inside a
\* transition would re-enter processQueue on the same stack.  That recursion
\* is not modelled: transitions make mutations until Dispose is called.
NoReentry == dpc = "off"

\* An accepted transition which changed the machine prepends an auto mutation.
AcceptAuto(t) ==
  /\ Transitioning(t) /\ "auto" \in Outcomes
  /\ ~mxLost /\ NoReentry
  /\ ActiveAfter(cur[t]) # active
  /\ active' = ActiveAfter(cur[t])
  /\ QPrepend(NewMut("auto", "", FALSE, 0))
  /\ Budget /\ created < MaxMuts
  /\ created' = created + 1
  /\ fate' = [fate EXCEPT ![cur[t].id] = "executed", ![created + 1] = "queued"]
  /\ Record(t, "executed")
  /\ Drop(t) /\ Goto(t, "subs")
  /\ UNCHANGED <<flags, backoff, dvars, call, got>>

\* Canceled by a negotiation handler, or by disposal.
Cancel(t) ==
  /\ Transitioning(t) /\ ("cancel" \in Outcomes \/ disposing)
  /\ fate' = [fate EXCEPT ![cur[t].id] = "canceled"]
  /\ Record(t, "canceled")
  /\ Drop(t) /\ Goto(t, "loop")
  /\ UNCHANGED <<qvars, flags, active, backoff, dvars, created, call, got>>

\* A panicking negotiation handler: recoverToErr prepends Exception, unless the
\* mutation itself called Exception.
Panic(t) ==
  /\ Transitioning(t) /\ "panic" \in Outcomes
  /\ ~mxLost /\ NoReentry
  /\ \/ /\ cur[t].st = Exception
        /\ fate' = [fate EXCEPT ![cur[t].id] = "canceled"]
        /\ UNCHANGED <<qvars, created>>
     \/ /\ cur[t].st # Exception
        /\ QPrepend(NewMut("add", Exception, TRUE, 0))
        /\ Budget /\ created < MaxMuts
        /\ created' = created + 1
        /\ fate' = [fate EXCEPT ![cur[t].id] = "canceled", ![created + 1] = "queued"]
  /\ Record(t, "canceled")
  /\ Drop(t) /\ Goto(t, "loop")
  /\ UNCHANGED <<flags, active, backoff, dvars, call, got>>

\* A handler past HandlerTimeout and HandlerDeadline: the queue is cleared ...
Deadline(t) ==
  /\ Transitioning(t) /\ "deadline" \in Outcomes
  /\ Budget
  /\ ~mxLost /\ NoReentry
  /\ QClear
  /\ fate' = [i \in 1 .. MaxMuts |->
                CASE i = cur[t].id -> "canceled"
                  [] \E k \in DOMAIN queue : queue[k].id = i -> "dropped"
                  [] OTHER -> fate[i]]
  /\ Record(t, "canceled")
  /\ Drop(t) /\ Goto(t, "deadline")
  /\ UNCHANGED <<flags, active, backoff, dvars, created, call, got>>

\* ... then EvAddErr appends Exception, if not refused, and Backoff begins.
DeadlineErr(t) ==
  /\ pc[t] = "deadline"
  /\ ~mxLost
  /\ \/ /\ Len(queue) < QueueLimit /\ ~backoff /\ ~disposing
        /\ QAppend(NewMut("add", Exception, TRUE, NextTick))
        /\ Create
     \/ /\ Len(queue) >= QueueLimit \/ backoff \/ disposing
        /\ UNCHANGED <<qvars, hvars>>
  /\ backoff' = TRUE
  /\ Goto(t, "loop")
  /\ UNCHANGED <<flags, active, dvars, call, cur, ret0, got>>

\* HandlerBackoff elapsed.
BackoffEnd ==
  /\ backoff
  /\ backoff' = FALSE
  /\ UNCHANGED <<qvars, flags, active, dvars, hvars, pc, call, cur, ret0, got>>

-----------------------------------------------------------------------------
(* Subscriptions to the queue *)

\* ProcessWhenQueue closes the channels of ticks up to the queue tick.
MatchedAfter(tick)  == tick < queueTick         \* mutant: off by one
Matched(tick) == tick <= queueTick

\* processSubscriptions, the part about the queue.
Subs(t) ==
  /\ pc[t] = "subs"
  /\ pc' = [u \in Threads |->
              CASE u = t -> "loop"
                [] u # t /\ pc[u] = "waitQueue" /\ Matched(got[u].tick) -> "woken"
                [] OTHER -> pc[u]]
  /\ UNCHANGED <<qvars, flags, active, backoff, dvars, hvars, call, cur, ret0, got>>

Release(t) ==
  /\ pc[t] = "release"
  /\ tx' = FALSE
  /\ queueProcessing' = FALSE
  /\ Goto(t, "released")
  /\ UNCHANGED <<qvars, queueRunning, mxLost, active, backoff, dvars, hvars,
                 call, cur, ret0, got>>

Released(t) ==
  /\ pc[t] = "released"
  /\ queueRunning' = FALSE
  /\ Goto(t, "ends")
  /\ UNCHANGED <<qvars, queueProcessing, mxLost, tx, active, backoff, dvars,
                 hvars, call, cur, ret0, got>>

\* ProcessWhenQueueEnds, then the result of the first mutation of this run of
\* the queue is returned as the result of the call.
Ends(t) ==
  /\ pc[t] = "ends"
  /\ ~mxLost
  /\ pc' = [u \in Threads |-> IF u = t \/ pc[u] = "waitEnds" THEN "idle" ELSE pc[u]]
  /\ got' = [got EXCEPT ![t].res = IF ret0[t] = "none" THEN "canceled" ELSE ret0[t]]
  /\ call' = [call EXCEPT ![t] = NoCall]
  /\ ret0' = [ret0 EXCEPT ![t] = "none"]
  /\ UNCHANGED <<qvars, flags, active, backoff, dvars, hvars, cur>>

\* <-WhenQueue(tick) with the tick of the thread's queued mutation.
WhenQueue(t) ==
  /\ pc[t] = "idle"
  /\ got[t].res = "queued" /\ got[t].tick > 0
  /\ ~disposed /\ ~mxLost
  /\ Goto(t, IF queueTick >= got[t].tick THEN "woken" ELSE "waitQueue")
  /\ UNCHANGED <<qvars, flags, active, backoff, dvars, hvars, call, cur, ret0, got>>

Woken(t) ==
  /\ pc[t] = "woken"
  /\ Goto(t, "idle")
  /\ got' = [got EXCEPT ![t] = NoAnswer]
  /\ UNCHANGED <<qvars, flags, active, backoff, dvars, hvars, call, cur, ret0>>

\* <-WhenQueueEnds(): queueRunning is read before queueMx is taken.
WhenQueueEnds(t) ==
  /\ pc[t] = "idle"
  /\ ~disposed /\ queueRunning
  /\ Goto(t, "bindEnds")
  /\ UNCHANGED <<qvars, flags, active, backoff, dvars, hvars, call, cur, ret0, got>>

BindEnds(t) ==
  /\ pc[t] = "bindEnds"
  /\ ~mxLost
  /\ Goto(t, "waitEnds")
  /\ UNCHANGED <<qvars, flags, active, backoff, dvars, hvars, call, cur, ret0, got>>

-----------------------------------------------------------------------------
(* Dispose, of a machine without a Start state *)

DisposeStart ==
  /\ MayDispose /\ dpc = "off"
  /\ \A t \in Threads : pc[t] # "deadline"     \* see NoReentry
  /\ queueProcessing' = FALSE
  /\ dpc' = "cas"
  /\ UNCHANGED <<qvars, queueRunning, mxLost, tx, active, backoff, disposing, disposed,
                 whenDisposed, hvars, pc, call, cur, ret0, got>>

DisposeCas ==
  /\ dpc = "cas"
  /\ disposing' = TRUE
  /\ dpc' = "drain"
  /\ UNCHANGED <<qvars, flags, active, backoff, disposed, whenDisposed, hvars,
                 pc, call, cur, ret0, got>>

\* WhenQueueEnds takes queueMx if the queue is running; the wait for it ends by
\* itself after DisposeTimeout.
DisposeDrain ==
  /\ dpc = "drain"
  /\ queueRunning => ~mxLost
  /\ disposed' = TRUE
  /\ dpc' = "locks"
  /\ UNCHANGED <<qvars, flags, active, backoff, disposing, whenDisposed, hvars,
                 pc, call, cur, ret0, got>>

DisposeFinish ==
  /\ dpc = "locks"
  /\ ~mxLost
  /\ pc' = [u \in Threads |-> CASE pc[u] = "waitEnds"  -> "idle"
                                [] pc[u] = "waitQueue" -> "woken"
                                [] OTHER -> pc[u]]
  /\ queueProcessing' = FALSE
  /\ whenDisposed' = TRUE
  /\ dpc' = "done"
  /\ UNCHANGED <<qvars, queueRunning, mxLost, tx, active, backoff, disposing,
                 disposed, hvars, call, cur, ret0, got>>

-----------------------------------------------------------------------------

\* What the scheduler makes a thread do once it called the machine.
Exec(t) ==
  \/ ExecEval(t) \/ ExecCheck(t, "executed") \/ ExecCheck(t, "canceled")
  \/ Accept(t) \/ AcceptAuto(t) \/ Cancel(t) \/ Panic(t)
  \/ Deadline(t) \/ DeadlineErr(t)

Step(t) ==
  \/ RemoveEarly(t) \/ Dedup(t) \/ Enqueue(t) \/ PrependMut(t) \/ Process(t)
  \/ Cas(t) \/ Begin(t) \/ Loop(t) \/ CheckDisposing(t) \/ Shift(t)
  \/ Exec(t) \/ Subs(t) \/ Release(t) \/ Released(t) \/ Ends(t)
  \/ Woken(t) \/ BindEnds(t)

Disposal == DisposeCas \/ DisposeDrain \/ DisposeFinish

Next ==
  \/ \E t \in Threads :
       \/ \E c \in Calls : Mutate(t, c)
       \/ WhenQueue(t) \/ WhenQueueEnds(t) \/ Step(t)
  \/ DisposeStart \/ Disposal
  \/ BackoffEnd

Spec == Init /\ [][Next]_vars

\* The Go scheduler runs every runnable goroutine.  Nobody has to call anything.
Fairness == (\A t \in Threads : WF_vars(Step(t))) /\ WF_vars(Disposal)
FairSpec == Spec /\ Fairness

-----------------------------------------------------------------------------
(* Properties *)

\* The queue ticks handed out and not yet processed are exactly the next
\* queueTicksPending ticks, each held by one queued mutation, in queue order.
\* It is what makes queueTicksPending + queueTick the right tick for the next
\* mutation, after any mix of appends, prepends, shifts and cleared queues.
TickLedger ==
  /\ \A i \in DOMAIN queue : queue[i].tick # 0 =>
       queue[i].tick \in queueTick + 1 .. queueTick + queueTicksPending
  /\ \A i, j \in DOMAIN queue :
       i < j /\ queue[i].tick # 0 /\ queue[j].tick # 0 => queue[i].tick < queue[j].tick
  /\ \A n \in queueTick + 1 .. queueTick + queueTicksPending :
       \E i \in DOMAIN queue : queue[i].tick = n

\* Until Dispose, queueProcessing is set exactly while one goroutine is between
\* taking and releasing it: transitions never overlap, and a processor that
\* returned never leaves the machine without one forever.
ProcessorLock ==
  dpc = "off" =>
    /\ queueProcessing <=> \E t \in Threads : pc[t] \in Processing
    /\ \A t, u \in Threads : pc[t] \in Processing /\ pc[u] \in Processing => t = u

\* Until Dispose, the mutation being executed, if it has a queue tick, has the
\* current queue tick ("TODO assert QueueTick same as mut queue tick?" in
\* processQueue): mutations are executed in the order of their ticks.
PoppedTick ==
  dpc = "off" =>
    \A t \in Threads : pc[t] = "exec" /\ cur[t].tick # 0 => cur[t].tick = queueTick

\* Until Dispose, a processor that saw a mutation in queueLen still finds one
\* after taking queueMx: processQueue never meets its "missing queue item", whose
\* early return keeps queueMx locked.
MutexKept ==
  dpc = "off" =>
    ~mxLost /\ \A t \in Threads : pc[t] \in {"check", "shift"} => queue # <<>>

\* A mutation waits exactly once in the queue or at a processor until it is
\* executed, canceled or dropped by a HandlerDeadline: none is lost, none is
\* executed twice.
Conservation ==
  \A i \in 1 .. MaxMuts :
    Cardinality({k \in DOMAIN queue : queue[k].id = i})
    + Cardinality({t \in Threads : pc[t] = "exec" /\ cur[t].id = i})
    = IF fate[i] = "queued" THEN 1 ELSE 0

\* Every mutation call returns, whatever the handlers of the transition do.
CallsReturn ==
  \A t \in Threads :
    pc[t] \notin {"idle", "waitQueue", "waitEnds"} ~> pc[t] \in {"idle", "waitQueue", "waitEnds"}

\* A waiter for the tick of a mutation that got accepted wakes up.
AcceptedWakes ==
  \A t \in Threads :
    pc[t] = "waitQueue" /\ got[t].id # 0 /\ fate[got[t].id] = "executed" ~> pc[t] # "waitQueue"

-----------------------------------------------------------------------------
(* What the comments and the manual say, and the code does not keep *)

\* "everything >= Queued (2) represents a queue tick on which the mutation will
\* be processed": processQueue leaves its loop on an empty queue and only then
\* clears queueProcessing; a mutation queued in between gets Queued and nobody
\* to process it.
QueuedGetsProcessed ==
  \A i \in 1 .. MaxMuts : fate[i] = "queued" ~> fate[i] # "queued"
=============================================================================
