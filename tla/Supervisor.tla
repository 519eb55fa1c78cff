----------------------------- MODULE Supervisor -----------------------------
(***************************************************************************)
(* The supervisor of a pool of worker processes (pkg/node): a machine      *)
(* whose handlers keep the map of workers, bootstraps which wait for a     *)
(* forked worker to report its address, RPC clients of the workers, and    *)
(* the goroutines of NormalizingPool and Heartbeat.  Workers crash and     *)
(* connections get lost at any time.                                       *)
(*                                                                         *)
(* The supervisor is started and not stopped.  A transition with its       *)
(* handlers is one step; the mutations that handlers and goroutines make   *)
(* go through the queue.  Worker f has the bootstrap f.                    *)
(***************************************************************************)
EXTENDS Integers, Sequences, FiniteSets

CONSTANTS MaxWorkers, MinWorkers,    \* Max and Min
          Warm, WorkerErrKill,
          Rounds,       \* of NormalizingPool, 5
          Topology,     \* an order of the states, the required ones first
          MaxQueued,    \* bound: queued mutations, when others run than the queue
          MaxForks,     \* bound: workers forked
          MaxFaults     \* bound: crashes, lost connections, slow workers, calls of CheckPool

ASSUME SupervisorAssumption ==
  /\ MaxWorkers \in Nat \ {0} /\ MinWorkers \in 1 .. MaxWorkers /\ Warm \in Nat /\ WorkerErrKill \in Nat
  /\ Rounds \in Nat \ {0} /\ MaxForks \in Nat /\ MaxFaults \in Nat

VARIABLES
  active,    \* active states
  queue,     \* mutations: type, called states, worker and what for
  forks,     \* by worker: its bootstrap, process, connection and entry in the map
  norm,      \* the goroutine of NormalizingPool
  heart,     \* the goroutine of Heartbeat
  ticking,   \* the goroutine of Start has seen PoolReady
  faults

vars == <<active, queue, forks, norm, heart, ticking, faults>>

Workers == 1 .. MaxForks

-----------------------------------------------------------------------------
(* SupervisorSchema *)

StateNames == <<
  "Exception", "ErrWorker", "ErrPool", "Heartbeat", "PoolStarting", "NormalizingPool",
  "PoolNormalized", "PoolReady", "WorkersAvailable", "ListWorkers", "SetWorker", "ForkWorker",
  "ForkingWorker", "WorkerConnected", "WorkerForked", "KillWorker", "KillingWorker",
  "WorkerReady", "Start">>

INSTANCE Relations WITH Index <- StateNames

One(add, remove, require) ==
  [add |-> add, remove |-> remove, require |-> require, after |-> {}, auto |-> FALSE, multi |-> FALSE]
Multi(add, require) == [One(add, {}, require) EXCEPT !.multi = TRUE]

\* The pool status and the normalization are exclusive groups.
SupervisorSchema ==
  [Exception        |-> Multi({}, {}),
   ErrWorker        |-> One({"NormalizingPool", "Heartbeat"}, {}, {"Exception"}),
   ErrPool          |-> One({"NormalizingPool"}, {"PoolNormalized"}, {"Exception"}),
   Start            |-> One({"PoolStarting"}, {}, {}),
   Heartbeat        |-> One({}, {}, {"Start"}),
   PoolStarting     |-> One({"NormalizingPool"}, {"PoolReady"}, {}),
   NormalizingPool  |-> [One({}, {"PoolNormalized"}, {"Start"}) EXCEPT !.after = {"ErrWorker"}],
   PoolNormalized   |-> One({"Heartbeat"}, {"NormalizingPool"}, {"Start"}),
   PoolReady        |-> One({"Heartbeat"}, {"PoolStarting"}, {"Start"}),
   WorkersAvailable |-> One({}, {}, {"PoolReady"}),
   ListWorkers      |-> Multi({}, {"Start"}),
   SetWorker        |-> Multi({}, {"Start"}),
   ForkWorker       |-> Multi({}, {"Start"}),
   ForkingWorker    |-> Multi({}, {"Start"}),
   WorkerConnected  |-> Multi({}, {"Start"}),
   WorkerForked     |-> Multi({"Heartbeat"}, {"Start"}),
   KillWorker       |-> Multi({}, {}),
   KillingWorker    |-> Multi({}, {}),
   WorkerReady      |-> Multi({"PoolReady"}, {"Start"})]

ASSUME SchemaParsed == Parse(SupervisorSchema) = SupervisorSchema

MultiStates == {s \in Names : SupervisorSchema[s].multi}

-----------------------------------------------------------------------------
(* Workers and the queue *)

NoFork == [boot |-> "none", armed |-> FALSE, proc |-> "none", conn |-> "none",
           entry |-> "none", errs |-> 0, recent |-> FALSE]
Idle == [at |-> "none", round |-> 0, n |-> 0]
NoBeat == [at |-> "none", of |-> {}, n |-> 0]

\* A mutation.  "via" is "none" for one without arguments.
Mut(type, called, via, of) == [type |-> type, called |-> called, via |-> via, of |-> of]
AddMut(s) == Mut("add", <<s>>, "none", 0)
RemoveMut(s) == Mut("remove", <<s>>, "none", 0)
ErrMut(s, via, of) == Mut("add", <<s, "Exception">>, via, of)

\* queueMutation: duplicates without arguments are dropped, unless Multi.
Queued(q, m) ==
  IF m.via = "none" /\ Range(m.called) \cap MultiStates = {} /\ Contains(q, m)
  THEN q ELSE Append(q, m)
QueuedAll(q, ms) == FoldLeft(Queued, q, ms)
WillBe(q, s) == \E m \in Range(q) : m.type = "add" /\ Contains(m.called, s)

\* The map of workers.
Known(fs) == {f \in Workers : fs[f].entry # "none"}

\* readyWorkers.  The NetworkMachine of a worker goes on to show Ready when the
\* connection is lost.
ReadyWorkers(fs) == {f \in Workers : fs[f].entry = "local" /\ ~fs[f].recent}

\* Once Start was added.
Init ==
  /\ active = {"Start", "PoolStarting", "NormalizingPool"}
  /\ queue = <<>>
  /\ forks = [f \in Workers |-> NoFork]
  /\ norm = [Idle EXCEPT !.at = "start"] /\ heart = NoBeat
  /\ ticking = FALSE /\ faults = 0

-----------------------------------------------------------------------------
(* Handlers, which change "st": active, queue, forks, norm, heart *)

Put(st, m) == [st EXCEPT !.queue = Queued(@, m)]
Set(st, f, field, val) == [st EXCEPT !.forks[f] = [@ EXCEPT ![field] = val]]

\* Remove ignores inactive states when nothing is queued.
Del(st, called) ==
  IF st.queue = <<>> /\ Range(called) \cap st.active = {} THEN st
  ELSE Put(st, Mut("remove", called, "none", 0))

\* The worker of the map that an error is about.
Counted(st, m) == m.via = "local" /\ st.forks[m.of].entry = "local"

\* Mutant: the bootstrap is kept.
ErrWorkerStateKeepBoot(st, m) ==
  LET handled == IF WillBe(st.queue, "Exception") THEN st ELSE Del(st, <<"ErrWorker", "Exception">>)
  IN  Del(IF Counted(st, m) THEN Set(handled, m.of, "recent", TRUE) ELSE handled, <<"PoolReady">>)

ErrWorkerState(st, m) ==
  LET handled == IF WillBe(st.queue, "Exception") THEN st ELSE Del(st, <<"ErrWorker", "Exception">>)
      errs    == IF Counted(st, m) THEN st.forks[m.of].errs + 1 ELSE 0
      counted == IF Counted(st, m)
                 THEN Set(Set(handled, m.of, "recent", TRUE), m.of, "errs",
                          IF errs > WorkerErrKill THEN errs - 1 ELSE errs)
                 ELSE handled
      kill    == IF errs > WorkerErrKill
                 THEN Put(counted, Mut("add", <<"KillingWorker">>, "local", m.of)) ELSE counted
      dispose == IF m.via = "boot" THEN Set(kill, m.of, "boot", "gone") ELSE kill
  IN  Del(dispose, <<"PoolReady">>)

\* A bootstrap is made, unless it fails or is past the bound.
ForkWorkerState(st, m, ok) ==
  LET free == {f \in Workers : st.forks[f].boot = "none"}
      gone == Del(st, <<"ForkWorker">>)
      f    == Min(free)
  IN  IF ok /\ free # {}
      THEN Set(Set(gone, f, "boot", "starting"), f, "armed", TRUE)
      ELSE Put(gone, ErrMut("ErrWorker", "err", 0))

\* Mutant: the worker is not set in the map.
ForkingWorkerStateUnset(st, m, ok) ==
  LET gone == Del(st, <<"ForkingWorker">>)
  IN  IF ok THEN Set(gone, m.of, "proc", "running") ELSE Put(gone, ErrMut("ErrWorker", "boot", m.of))

\* The entry has the process of a command that is not started yet, nil.
ForkingWorkerState(st, m, ok) ==
  LET set == Put(Del(st, <<"ForkingWorker">>), Mut("add", <<"SetWorker">>, "boot", m.of))
  IN  IF ok THEN Set(set, m.of, "proc", "running")
      ELSE Put(set, ErrMut("ErrWorker", "boot", m.of))

SetWorkerState(st, m) == Set(Del(st, <<"SetWorker">>), m.of, "entry", "boot")

WorkerConnectedState(st, m) == Set(Del(st, <<"WorkerConnected">>), m.of, "conn", "dialing")

\* Moves the entry from the bootstrap's address to the worker's.
WorkerForkedState(st, m) ==
  LET gone == Del(st, <<"WorkerForked">>)
  IN  IF st.forks[m.of].entry # "boot"
      THEN Put(gone, ErrMut("ErrWorker", "local", m.of))
      ELSE Put(Set(gone, m.of, "entry", "local"), AddMut("PoolReady"))

\* Kill panics on the nil process; the machine drops the state and adds Exception.
KillingWorkerState(st, m) ==
  LET gone == Del(st, <<"KillingWorker">>)
  IN  [gone EXCEPT !.active = @ \ {"KillingWorker"},
                   !.queue = <<Mut("add", <<"Exception">>, "err", 0)>> \o @]

\* Mutant: returns without removing Heartbeat.
HeartbeatStateOnly(st) ==
  IF ReadyWorkers(st.forks) = {} THEN st
  ELSE [st EXCEPT !.heart = [NoBeat EXCEPT !.at = "ping", !.of = ReadyWorkers(st.forks)]]

HeartbeatState(st) ==
  IF ReadyWorkers(st.forks) = {} THEN Del(st, <<"Heartbeat">>)
  ELSE [st EXCEPT !.heart = [NoBeat EXCEPT !.at = "ping", !.of = ReadyWorkers(st.forks)]]

NormalizingPoolState(st) == [st EXCEPT !.norm = [Idle EXCEPT !.at = "start"]]

\* Mutant: no timeout.
NotListedWaiting(st, m) == st

\* What Workers returns when ListWorkers is canceled, right away or after OpTimeout.
NotListed(st, m) ==
  CASE m.via = "all"   -> [st EXCEPT !.norm.at = "error"]
    [] m.via = "ready" -> [st EXCEPT !.norm.at = "checked", !.norm.n = 0]
    [] m.via = "idle"  -> [st EXCEPT !.heart.at = "error"]
    [] OTHER -> st

\* Answers on the channel of the caller, unless OpTimeout has passed.
ListWorkersState(st, m, ok) ==
  LET gone == Del(st, <<"ListWorkers">>)
  IN  IF ~ok THEN NotListed(gone, m)
      ELSE CASE m.via = "all"   -> [gone EXCEPT !.norm.at = "listed", !.norm.n = Cardinality(Known(st.forks))]
        [] m.via = "ready" -> [gone EXCEPT !.norm.at = "checked",
                                           !.norm.n = Cardinality(ReadyWorkers(st.forks))]
        [] m.via = "idle"  -> [gone EXCEPT !.heart.at = "listed",
                                           !.heart.n = Cardinality(ReadyWorkers(st.forks))]

Handle(st, s, m, ok) ==
  CASE s = "ErrWorker"       -> ErrWorkerState(st, m)
    [] s = "ForkWorker"      -> ForkWorkerState(st, m, ok)
    [] s = "ForkingWorker"   -> ForkingWorkerState(st, m, ok)
    [] s = "SetWorker"       -> SetWorkerState(st, m)
    [] s = "WorkerConnected" -> WorkerConnectedState(st, m)
    [] s = "WorkerForked"    -> WorkerForkedState(st, m)
    [] s = "KillingWorker"   -> KillingWorkerState(st, m)
    [] s = "Heartbeat"       -> HeartbeatState(st)
    [] s = "NormalizingPool" -> NormalizingPoolState(st)
    [] s = "ListWorkers"     -> ListWorkersState(st, m, ok)
    [] s \in {"KillWorker", "WorkerReady"} -> Del(st, <<s>>)    \* RemoveMulti
    [] OTHER -> st

\* Mutant: one worker too few for PoolReadyExit.
NegotiatedOffByOne(enters, exits) ==
  LET ready == Cardinality(ReadyWorkers(forks))
  IN  /\ Contains(enters, "PoolReady") => ready >= MinWorkers
      /\ "PoolReady" \in exits => ready < MinWorkers - 1

\* PoolReadyEnter, PoolReadyExit, ForkWorkerEnter, ForkingWorkerEnter.
Negotiated(enters, exits) ==
  LET ready == Cardinality(ReadyWorkers(forks))
  IN  /\ Contains(enters, "PoolReady") => ready >= MinWorkers
      /\ "PoolReady" \in exits => ready < MinWorkers
      /\ Range(enters) \cap {"ForkWorker", "ForkingWorker"} # {}
           => Cardinality(Known(forks)) < MaxWorkers

Target(m) ==
  TargetStates(SupervisorSchema, Topology,
               [type |-> m.type, called |-> m.called, before |-> Listed(active)],
               StatesToSet(m.type, m.called, Listed(active)))

Enters(m, target) ==
  SelectSeq(target, LAMBDA s : s \notin active \/ (s \in MultiStates /\ Contains(m.called, s)))

\* The handlers that are called: none after a panic, and their states are dropped.
UntilPanic(enters) ==
  SubSeq(enters, 1, IF Contains(enters, "KillingWorker")
                    THEN IndexOf(enters, "KillingWorker") + 1 ELSE Len(enters))

\* What a transition to "target" makes.
Transition(m, target, enters, ok) ==
  LET taken  == [active |-> active, queue |-> Tail(queue), forks |-> forks, norm |-> norm,
                 heart |-> heart]
      called == UntilPanic(enters)
      states == Range(target) \ (Range(enters) \ Range(called))
  IN  IF /\ m.type = "add" => Range(m.called) \subseteq Range(target)
         /\ Negotiated(enters, active \ Range(target))
      THEN FoldLeft(LAMBDA st, s : Handle(st, s, m, ok), [taken EXCEPT !.active = states], called)
      ELSE NotListed(taken, m)

\* A fork may fail, and a list come too late.
Process ==
  /\ queue # <<>>
  /\ \E ok \in {TRUE} \cup (IF Head(queue).called \in {<<"ForkWorker">>, <<"ForkingWorker">>, <<"ListWorkers">>}
                              /\ faults < MaxFaults THEN {FALSE} ELSE {}),
        target \in {Target(Head(queue))} :
       \E st \in {Transition(Head(queue), target, Enters(Head(queue), target), ok)} :
         /\ active' = st.active /\ queue' = st.queue /\ forks' = st.forks
         /\ norm' = st.norm /\ heart' = st.heart
         /\ ticking' = (ticking \/ "PoolReady" \in st.active)
         /\ faults' = IF ok THEN faults ELSE faults + 1

-----------------------------------------------------------------------------
(* The goroutine of NormalizingPool *)

Normalize(from, to, ms) ==
  /\ Len(queue) < MaxQueued
  /\ norm.at = from
  /\ norm' = to
  /\ queue' = QueuedAll(queue, ms)
  /\ UNCHANGED <<active, forks, heart, ticking, faults>>

List(state) == Mut("add", <<"ListWorkers">>, state, 0)

Failed == <<ErrMut("ErrPool", "err", 0), AddMut("PoolNormalized")>>
NextRound == [Idle EXCEPT !.at = "start", !.round = norm.round + 1]

NormList == Normalize("start", [norm EXCEPT !.at = "listing"], <<List("all")>>)
NormListError ==
  IF norm.round + 1 = Rounds THEN Normalize("error", Idle, Failed)
  ELSE Normalize("error", NextRound, <<>>)

\* Forks the missing workers, also warm ones.
NormFork ==
  Normalize("listed", [norm EXCEPT !.at = "waiting", !.n = 0],
            [i \in 1 .. Max({0, Min({MinWorkers + Warm, MaxWorkers}) - norm.n}) |-> AddMut("ForkWorker")])

NormCheck == Normalize("waiting", [norm EXCEPT !.at = "checking"], <<List("ready")>>)
NormChecked ==
  IF norm.n >= MinWorkers
  THEN Normalize("checked", [norm EXCEPT !.at = "pausing", !.n = 0], <<AddMut("PoolReady")>>)
  ELSE Normalize("checked", [norm EXCEPT !.at = "waiting", !.n = 0], <<>>)

\* ConnTimeout of the round has passed, and by then that of the bootstraps it made.
NormTimeout ==
  /\ \A f \in Workers : forks[f].boot # "starting"
  /\ Normalize("waiting", [norm EXCEPT !.at = "pausing"], <<>>)

NormPause ==
  CASE "PoolReady" \in active -> Normalize("pausing", Idle, <<AddMut("PoolNormalized")>>)
    [] "PoolReady" \notin active /\ norm.round + 1 = Rounds -> Normalize("pausing", Idle, Failed)
    [] OTHER -> Normalize("pausing", NextRound, <<>>)

-----------------------------------------------------------------------------
(* The goroutine of Heartbeat and of Start *)

Beat(from, to, ms) ==
  /\ Len(queue) < MaxQueued
  /\ heart.at = from
  /\ heart' = to
  /\ queue' = QueuedAll(queue, ms)
  /\ UNCHANGED <<active, forks, norm, ticking>>

Silent == {f \in heart.of : forks[f].proc # "running" \/ forks[f].conn # "up"}

\* The workers have answered, or one of them did not answer three times.
HbPinged ==
  /\ \E fs \in SUBSET heart.of :
       /\ Silent # {} => fs # {}
       /\ Silent = {} /\ fs # {} => faults < MaxFaults
       /\ faults' = IF Silent = {} /\ fs # {} THEN faults + 1 ELSE faults
       /\ Silent # {} => fs \subseteq Silent
       /\ Beat("ping", [NoBeat EXCEPT !.at = "listing"],
               SetToSeq({ErrMut("ErrWorker", "local", f) : f \in fs})
               \o <<AddMut("PoolReady"), RemoveMut("PoolReady"), List("idle")>>)

\* ConnTimeout has passed.
HbTimeout ==
  /\ Silent # {}
  /\ Beat("ping", NoBeat, <<ErrMut("ErrPool", "err", 0), RemoveMut("Heartbeat")>>)
  /\ UNCHANGED faults

HbIdle ==
  /\ Beat("listed", NoBeat,
          <<IF heart.n > 0 THEN AddMut("WorkersAvailable") ELSE RemoveMut("WorkersAvailable"),
            RemoveMut("Heartbeat")>>)
  /\ UNCHANGED faults

HbListError ==
  /\ Beat("error", NoBeat, <<ErrMut("ErrWorker", "err", 0), RemoveMut("Heartbeat")>>)
  /\ UNCHANGED faults

Tick ==
  /\ Len(queue) < MaxQueued
  /\ ticking /\ "Heartbeat" \notin active
  /\ queue' = Queued(queue, AddMut("Heartbeat"))
  /\ UNCHANGED <<active, forks, norm, heart, ticking, faults>>

-----------------------------------------------------------------------------
(* Bootstraps, processes and connections of workers *)

Fork(f, fork, ms) ==
  /\ Len(queue) < MaxQueued
  /\ forks' = [forks EXCEPT ![f] = fork]
  /\ queue' = QueuedAll(queue, ms)
  /\ UNCHANGED <<active, norm, heart, ticking>>

Fault == faults < MaxFaults /\ faults' = faults + 1
NoFault == UNCHANGED faults

\* The RPC server of a bootstrap is ready, or not in time.
BootReady(f) ==
  /\ forks[f].boot = "starting"
  /\ \/ NoFault /\ Fork(f, [forks[f] EXCEPT !.boot = "up"],
                        <<Mut("add", <<"ForkingWorker">>, "boot", f)>>)
     \/ Fault /\ Fork(f, [forks[f] EXCEPT !.boot = "failed"], <<ErrMut("ErrWorker", "boot", f)>>)

\* The timeout of a bootstrap, which a disposal ends before the bootstrap counts
\* as disposed.
BootTimeout(f) ==
  /\ forks[f].armed /\ forks[f].boot \in {"up", "failed", "gone"}
  /\ IF forks[f].boot = "gone" \/ forks[f].proc = "running" THEN Fault ELSE NoFault
  /\ Fork(f, [forks[f] EXCEPT !.armed = FALSE], <<ErrMut("ErrWorker", "boot", f)>>)

\* The worker connects to its bootstrap and reports its address.
WorkerAddrState(f) ==
  /\ forks[f].boot = "up" /\ forks[f].proc = "running"
  /\ NoFault
  /\ Fork(f, [forks[f] EXCEPT !.boot = "addr", !.armed = FALSE],
          <<Mut("add", <<"WorkerConnected">>, "local", f)>>)

\* A second later.
BootDispose(f) ==
  /\ forks[f].boot = "addr"
  /\ NoFault
  /\ Fork(f, [forks[f] EXCEPT !.boot = "gone"], <<>>)

\* The RPC client of a worker is ready, or not in time.
ClientReady(f) ==
  /\ forks[f].conn = "dialing"
  /\ \/ /\ forks[f].proc = "running" /\ NoFault
        /\ Fork(f, [forks[f] EXCEPT !.conn = "up"], <<Mut("add", <<"WorkerForked">>, "local", f)>>)
     \/ /\ IF forks[f].proc = "running" THEN Fault ELSE NoFault
        /\ Fork(f, [forks[f] EXCEPT !.conn = "failed"], <<ErrMut("ErrWorker", "local", f)>>)

\* The process ends; the monitor reports a failure.
WorkerExit(f) ==
  /\ forks[f].proc = "running"
  /\ Fault
  /\ \E ms \in {<<>>, <<ErrMut("ErrWorker", "boot", f)>>} :
       Fork(f, [forks[f] EXCEPT !.proc = "exited"], ms)

\* The handlers of WorkerForkedState: the client is not ready any more.
ConnLost(f) ==
  /\ forks[f].conn = "up" /\ forks[f].entry = "local"
  /\ IF forks[f].proc = "running" THEN Fault ELSE NoFault
  /\ Fork(f, [forks[f] EXCEPT !.conn = "lost"],
          <<RemoveMut("WorkerReady"), Mut("add", <<"KillWorker">>, "local", f)>>)

\* An exception of the client.
ConnErr(f) ==
  /\ forks[f].entry = "local"
  /\ Fault
  /\ Fork(f, forks[f], <<ErrMut("ErrWorker", "local", f)>>)

Reconnect(f) ==
  /\ forks[f].conn = "lost" /\ forks[f].proc = "running"
  /\ NoFault
  /\ Fork(f, [forks[f] EXCEPT !.conn = "up"], <<Mut("add", <<"WorkerReady">>, "local", f)>>)

\* Errors of a worker expire.
ErrsExpire(f) ==
  /\ NoFault
  /\ \/ forks[f].recent /\ Fork(f, [forks[f] EXCEPT !.recent = FALSE], <<>>)
     \/ /\ forks[f].errs > 0 /\ ~forks[f].recent
        /\ Fork(f, [forks[f] EXCEPT !.errs = 0], <<>>)

CheckPool ==
  /\ Len(queue) < MaxQueued
  /\ Fault
  /\ queue' = QueuedAll(queue, <<AddMut("NormalizingPool"), AddMut("PoolReady")>>)
  /\ UNCHANGED <<active, forks, norm, heart, ticking>>

-----------------------------------------------------------------------------
Normalizer == NormList \/ NormListError \/ NormFork \/ NormCheck \/ NormChecked \/ NormTimeout
              \/ NormPause
Heart == HbPinged \/ HbTimeout \/ HbIdle \/ HbListError
Boot(f) == BootReady(f) \/ BootTimeout(f) \/ WorkerAddrState(f) \/ BootDispose(f)
Worker(f) ==
  \/ Boot(f) \/ ClientReady(f) \/ WorkerExit(f) \/ ConnLost(f) \/ ConnErr(f) \/ Reconnect(f) \/ ErrsExpire(f)

Next == Process \/ Normalizer \/ Heart \/ Tick \/ CheckPool \/ \E f \in Workers : Worker(f)

Spec == Init /\ [][Next]_vars

\* The queue is processed, goroutines go on, timers fire, workers that run report
\* and answer: fairness of the code's steps, where MaxQueued is mostly not taken into
\* account.  The checks of a round take a limited time.
Fairness ==
  /\ []<>(queue = <<>>) \/ []<><<~IsPrefix(queue, queue')>>_queue    \* Process
  /\ []<>(norm.at \in {"none", "listing", "checking"}) \/ []<><<Normalizer>>_vars
  /\ SF_vars(NormTimeout)
  /\ []<>(heart.at \in {"none", "listing"}) \/ []<><<Heart>>_vars
  /\ WF_vars(Tick)
  /\ \A f \in Workers :
       /\ []<>(forks[f].boot \in {"none", "gone"} \/ (forks[f].boot = "failed" /\ ~forks[f].armed)
              \/ (forks[f].boot = "up" /\ forks[f].proc # "running" /\ ~forks[f].armed))
          \/ []<><<Boot(f)>>_vars
       /\ []<>(forks[f].conn # "dialing") \/ []<><<ClientReady(f)>>_vars
       /\ []<>(forks[f].conn # "up" \/ forks[f].entry # "local" \/ forks[f].proc = "running")
          \/ []<><<ConnLost(f)>>_vars

FairSpec == Spec /\ Fairness

-----------------------------------------------------------------------------
(* Properties *)

HasMut(type, s) == \E m \in Range(queue) : m.type = type /\ Contains(m.called, s)

\* A goroutine of NormalizingPool or Heartbeat works only while its state is active,
\* so there is never a second one, and an active Heartbeat has its goroutine or
\* is about to be removed.  Handlers, deferred calls and relations of three other
\* states have to agree on it.
GoroutinesOwned ==
  /\ norm.at # "none" => "NormalizingPool" \in active
  /\ heart.at # "none" => "Heartbeat" \in active
  /\ "Heartbeat" \in active => heart.at # "none" \/ HasMut("remove", "Heartbeat")

\* When a worker is reported as forked, the map has it under the address of its
\* bootstrap: SetWorker went through the queue before the worker was connected, and
\* WorkerForkedState never meets ErrWorkerMissing.
ForkedKnown ==
  \A m \in Range(queue) :
    m.type = "add" /\ m.called = <<"WorkerForked">> => forks[m.of].entry = "boot"

\* The goroutine of NormalizingPoolState comes to an end, and a Heartbeat is removed, whatever
\* happens to ListWorkers and to the workers they wait for.
GoroutinesEnd ==
  /\ (norm.at # "none") ~> (norm.at = "none")
  /\ ("Heartbeat" \in active) ~> ("Heartbeat" \notin active)

\* ErrWorkerState does not handle further errors: ErrWorker, which is not Multi, stays
\* active after two errors in a row, because each handler leaves the removal to the
\* next one.
Stuck == "ErrWorker" \in active /\ ~HasMut("remove", "ErrWorker") /\ ~HasMut("add", "Exception")

\* Every bootstrap, with its RPC server, gets disposed: after the worker has reported,
\* when it does not in time, and when forking fails, as long as errors are handled.
BootsDisposed ==
  \A f \in Workers : (forks[f].boot # "none") ~> (forks[f].boot = "gone" \/ Stuck)

\* A pool with fewer ready workers than Min, but some, does not stay PoolReady: an
\* error or the next Heartbeat removes it.
Degraded == "PoolReady" \in active /\ Cardinality(ReadyWorkers(forks)) \in 1 .. MinWorkers - 1
PoolGivenUp == Degraded ~> ~Degraded

\* supervisor.go: "Heartbeat is the frequency of the Heartbeat state, which normalized
\* the pool and checks workers."  A normalized pool which has lost workers is
\* normalized again.
Understaffed ==
  /\ "PoolNormalized" \in active
  /\ Cardinality({f \in Workers : forks[f].entry = "local" /\ forks[f].proc = "running"}) < MinWorkers
Renormalizes == Understaffed ~> ~Understaffed
=============================================================================
