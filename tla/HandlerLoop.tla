---------------------------- MODULE HandlerLoop ----------------------------
(***************************************************************************)
(* How pkg/machine calls handlers: processHandlers, on the goroutine that  *)
(* processes the queue, hands a call to a handlerLoop goroutine through    *)
(* handlerStart and waits for handlerEnd, handlerPanic or a timeout.       *)
(* A panic ends the loop, and recoverToErr starts another one; a handler   *)
(* which exceeds HandlerDeadline is left behind with its loop, and a new   *)
(* loop takes over.  All the channels are unbuffered, so a send and its    *)
(* receive are one step.                                                   *)
(*                                                                         *)
(* Calls are numbered; what a handler does is one step that it may never   *)
(* take.  Disposal is not modelled here.                                   *)
(***************************************************************************)
EXTENDS Integers, FiniteSets

CONSTANT MaxCalls      \* bound: the number of handler calls

ASSUME HandlerLoopAssumption == MaxCalls \in Nat \ {0}

\* Call n starts at most one loop, number n + 1, next to the first one.
Loops == 1 .. MaxCalls + 1

VARIABLES
  caller,       \* processHandlers: idle, starting, waiting, timeout (in the grace period)
  call,         \* the current call, 0 for none yet
  exc,          \* its mutation called Exception
  pc,           \* of the loops: none, new, ready, running, done, locking, sending,
                \* panicking, gone
  ver,          \* of the loops: handlerLoop's ver
  job,          \* of the loops: the last call taken
  loopVer,      \* Machine.handlerLoopVer
  loopLock,     \* the loop which holds Machine.loopLock, or 0
  answered,     \* the call whose result or panic was received last
  past          \* history, "hung": a handler exceeded HandlerDeadline, "lost": one of a
                \* mutation that called Exception panicked

vars == <<caller, call, exc, pc, ver, job, loopVer, loopLock, answered, past>>

PCs == {"none", "new", "ready", "running", "done", "locking", "sending", "panicking", "gone"}

TypeOK ==
  /\ caller \in {"idle", "starting", "waiting", "timeout"}
  /\ call \in 0 .. MaxCalls /\ exc \in BOOLEAN
  /\ pc \in [Loops -> PCs]
  /\ ver \in [Loops -> Nat] /\ job \in [Loops -> 0 .. MaxCalls]
  /\ loopVer \in Nat /\ loopLock \in Loops \cup {0}
  /\ answered \in 0 .. MaxCalls /\ past \subseteq {"hung", "lost"}

\* bindHandlers has started the first loop.
Init ==
  /\ caller = "idle" /\ call = 0 /\ exc = FALSE
  /\ pc = [l \in Loops |-> IF l = 1 THEN "new" ELSE "none"]
  /\ ver = [l \in Loops |-> 0] /\ job = [l \in Loops |-> 0]
  /\ loopVer = 0 /\ loopLock = 0 /\ answered = 0
  /\ past = {}

-----------------------------------------------------------------------------
(* processHandlers *)

\* A bound handler is about to be called.
Start(nested) ==
  /\ caller = "idle" /\ call < MaxCalls
  /\ caller' = "starting" /\ call' = call + 1 /\ exc' = nested
  /\ UNCHANGED <<pc, ver, job, loopVer, loopLock, answered, past>>

\* handlerStart.  There is no timeout for this one.
Handover(l) ==
  /\ caller = "starting" /\ pc[l] = "ready"
  /\ caller' = "waiting"
  /\ pc' = [pc EXCEPT ![l] = "running"] /\ job' = [job EXCEPT ![l] = call]
  /\ UNCHANGED <<call, exc, ver, loopVer, loopLock, answered, past>>

\* handlerEnd, in time or within the grace period.  The loop goes on.
ReceiveEnd(l) ==
  /\ caller \in {"waiting", "timeout"} /\ pc[l] = "sending"
  /\ caller' = "idle" /\ answered' = job[l]
  /\ pc' = [pc EXCEPT ![l] = "ready"] /\ loopLock' = 0
  /\ UNCHANGED <<call, exc, ver, job, loopVer, past>>

\* Mutant: the loop is not replaced.
ReceivePanicOnly(l) ==
  /\ caller = "waiting" /\ pc[l] = "panicking"
  /\ caller' = "idle" /\ answered' = job[l]
  /\ pc' = [pc EXCEPT ![l] = "gone"]
  /\ UNCHANGED <<call, exc, ver, job, loopVer, loopLock, past>>

\* handlerPanic and recoverToErr, which does nothing for a mutation that called
\* Exception.  The panicked loop is gone.
ReceivePanic(l) ==
  /\ caller = "waiting" /\ pc[l] = "panicking"
  /\ caller' = "idle" /\ answered' = job[l]
  /\ IF exc
     THEN pc' = [pc EXCEPT ![l] = "gone"] /\ past' = past \cup {"lost"}
     ELSE pc' = [pc EXCEPT ![l] = "gone", ![call + 1] = "new"] /\ past' = past
  /\ UNCHANGED <<call, exc, ver, job, loopVer, loopLock>>

\* Mutant: a new loop takes over without a grace period.
TimeoutForks ==
  /\ caller = "waiting"
  /\ caller' = "idle"
  /\ pc' = [pc EXCEPT ![call + 1] = "new"]
  /\ UNCHANGED <<call, exc, ver, job, loopVer, loopLock, answered, past>>

\* HandlerTimeout has passed.
Timeout ==
  /\ caller = "waiting"
  /\ caller' = "timeout"
  /\ UNCHANGED <<call, exc, pc, ver, job, loopVer, loopLock, answered, past>>

\* HandlerDeadline has passed, too.
Deadline ==
  /\ caller = "timeout"
  /\ caller' = "idle"
  /\ pc' = [pc EXCEPT ![call + 1] = "new"]
  /\ past' = past \cup {"hung"}
  /\ UNCHANGED <<call, exc, ver, job, loopVer, loopLock, answered>>

-----------------------------------------------------------------------------
(* handlerLoop *)

Move(l, from, to) == pc[l] = from /\ pc' = [pc EXCEPT ![l] = to]

LoopStart(l) ==
  /\ Move(l, "new", "ready")
  /\ loopVer' = loopVer + 1 /\ ver' = [ver EXCEPT ![l] = loopVer + 1]
  /\ UNCHANGED <<caller, call, exc, job, loopLock, answered, past>>

\* The handler returns, or is skipped because its transition is over.
Return(l) ==
  /\ Move(l, "running", "done")
  /\ UNCHANGED <<caller, call, exc, ver, job, loopVer, loopLock, answered, past>>

\* The handler panics; the deferred catch sends to handlerPanic.
Panic(l) ==
  /\ Move(l, "running", "panicking")
  /\ UNCHANGED <<caller, call, exc, ver, job, loopVer, loopLock, answered, past>>

\* A loop that has been replaced reports the late handler and exits.
CheckVer(l) ==
  /\ Move(l, "done", IF ver[l] = loopVer THEN "locking" ELSE "gone")
  /\ UNCHANGED <<caller, call, exc, ver, job, loopVer, loopLock, answered, past>>

\* Takes loopLock, kept until handlerEnd is received.
Lock(l) ==
  /\ loopLock = 0
  /\ Move(l, "locking", "sending") /\ loopLock' = l
  /\ UNCHANGED <<caller, call, exc, ver, job, loopVer, answered, past>>

-----------------------------------------------------------------------------

Receive == \E l \in Loops : ReceiveEnd(l) \/ ReceivePanic(l)
Handler(l) == Return(l) \/ Panic(l)
Loop(l) == LoopStart(l) \/ CheckVer(l) \/ Lock(l)

Next ==
  \/ \E nested \in BOOLEAN : Start(nested)
  \/ \E l \in Loops : Handover(l) \/ Handler(l) \/ Loop(l)
  \/ Receive
  \/ Timeout \/ Deadline

Spec == Init /\ [][Next]_vars

\* Goroutines are scheduled and timers fire; a handler may hang.
Fairness ==
  /\ WF_vars(\E l \in Loops : Handover(l)) /\ WF_vars(Receive)
  /\ WF_vars(Timeout) /\ WF_vars(Deadline)
  /\ \A l \in Loops : WF_vars(Loop(l))

FairSpec == Spec /\ Fairness

-----------------------------------------------------------------------------
(* Properties *)

Available == {"new", "ready"}

\* There is exactly one loop for the next handler, until a handler of Exception panics: a
\* panic and a deadline start one, and a loop that answered, on time or late, takes calls
\* again.  So neither are calls left waiting nor do loops compete for them.
LoopInService ==
  "lost" \notin past =>
    IF caller \in {"idle", "starting"}
    THEN \E l \in Loops : \A k \in Loops : pc[k] \in Available <=> k = l
    ELSE \A k \in Loops : pc[k] \notin Available

\* Until then, the result or panic that processHandlers receives is that of the handler it
\* called, also after other panics and late answers.  Afterwards it need not be: a loop
\* that has been replaced exits ("exit, a new clone is running") only if the new one has
\* started by then.
OwnAnswer == []["hung" \notin past /\ answered' # answered => answered' = call]_vars

\* loopLock is held by the one loop that is sending its result.
LockHeld == \A l \in Loops : pc[l] = "sending" <=> loopLock = l

\* Until a handler of Exception panics, every call comes to an end, with a result, a panic
\* or a timeout, whichever handlers hang.
ServedCallsEnd == caller = "starting" ~> caller = "idle" \/ "lost" \in past
=============================================================================
