------------------------- MODULE HandlerLoopProofs -------------------------
(***************************************************************************)
(* Proofs about module HandlerLoop, for any number of calls: whatever      *)
(* panics, times out or hangs, there is one loop to take the next call.    *)
(***************************************************************************)
EXTENDS HandlerLoop, TLAPS

\* All the values have their types.
LEMMA TypeStep == TypeOK /\ [Next]_vars => TypeOK'
<1> SUFFICES ASSUME TypeOK, [Next]_vars PROVE TypeOK'
  OBVIOUS
<1> USE HandlerLoopAssumption DEF TypeOK, Loops, PCs
<1>1. ASSUME NEW nested \in BOOLEAN, Start(nested) PROVE TypeOK'
  <2>1. exc' \in BOOLEAN
    BY <1>1, Zenon DEF Start
  <2>2. call' \in 0 .. MaxCalls /\ caller' \in {"idle", "starting", "waiting", "timeout"}
    BY <1>1 DEF Start
  <2> QED BY <1>1, <2>1, <2>2 DEF Start
<1>2. ASSUME NEW l \in Loops, Handover(l) PROVE TypeOK'
  BY <1>2 DEF Handover
<1>3. ASSUME NEW l \in Loops, ReceiveEnd(l) PROVE TypeOK'
  BY <1>3 DEF ReceiveEnd
<1>4. ASSUME NEW l \in Loops, ReceivePanic(l) PROVE TypeOK'
  <2>1. CASE exc
    BY <1>4, <2>1 DEF ReceivePanic
  <2>2. CASE ~exc
    <3> DEFINE gone == [pc EXCEPT ![l] = "gone"]
    <3>1. pc' = [gone EXCEPT ![call + 1] = "new"] /\ past' = past
      BY <1>4, <2>2 DEF ReceivePanic
    <3>2. gone \in [Loops -> PCs]
      OBVIOUS
    <3>3. pc' \in [Loops -> PCs]
      BY <3>1, <3>2
    <3>4. caller' = "idle" /\ answered' = job[l] /\ UNCHANGED <<call, exc, ver, job, loopVer, loopLock>>
      BY <1>4 DEF ReceivePanic
    <3>5. answered' \in 0 .. MaxCalls
      BY <3>4
    <3> HIDE DEF gone
    <3> QED BY <3>1, <3>3, <3>4, <3>5
  <2> QED BY <2>1, <2>2
<1>5. CASE Timeout
  BY <1>5 DEF Timeout
<1>6. CASE Deadline
  BY <1>6 DEF Deadline
<1>7. ASSUME NEW l \in Loops, LoopStart(l) PROVE TypeOK'
  <2>1. pc' = [pc EXCEPT ![l] = "ready"] /\ loopVer' = loopVer + 1
        /\ ver' = [ver EXCEPT ![l] = loopVer + 1]
    BY <1>7 DEF LoopStart, Move
  <2>2. pc' \in [Loops -> PCs]
    BY <2>1
  <2>3. UNCHANGED <<caller, call, exc, job, loopLock, answered, past>>
    BY <1>7 DEF LoopStart
  <2> QED BY <2>1, <2>2, <2>3
<1>8. ASSUME NEW l \in Loops, Handler(l) PROVE TypeOK'
  BY <1>8 DEF Handler, Return, Panic, Move
<1>9. ASSUME NEW l \in Loops, CheckVer(l) PROVE TypeOK'
  <2>1. \E to \in PCs : pc' = [pc EXCEPT ![l] = to]
    BY <1>9 DEF CheckVer, Move, PCs
  <2>2. pc' \in [Loops -> PCs]
    BY <2>1
  <2>3. UNCHANGED <<caller, call, exc, ver, job, loopVer, loopLock, answered, past>>
    BY <1>9 DEF CheckVer
  <2> QED BY <2>2, <2>3
<1>10. ASSUME NEW l \in Loops, Lock(l) PROVE TypeOK'
  BY <1>10 DEF Lock, Move
<1>11. CASE UNCHANGED vars
  BY <1>11 DEF vars
<1> QED BY <1>1, <1>2, <1>3, <1>4, <1>5, <1>6, <1>7, <1>8, <1>9, <1>10, <1>11
        DEF Next, Receive, Loop

\* A step that ends a call makes one loop available, one that starts a call takes it, and
\* no other step touches the available loops.
LEMMA ServiceStep == TypeOK /\ LoopInService /\ [Next]_vars => LoopInService'
<1> SUFFICES ASSUME TypeOK, LoopInService, [Next]_vars, "lost" \notin past' PROVE LoopInService'
  BY DEF LoopInService
<1> USE DEF Available
\* "lost" stays.
<1>0. "lost" \notin past
  BY DEF Next, Start, Handover, Handler, Return, Panic, Loop, LoopStart, CheckVer, Lock,
     Receive, ReceiveEnd, ReceivePanic, Timeout, Deadline, vars
\* A step which changes neither the caller's side nor which loops are available.
<1>1. ASSUME caller' \in {"idle", "starting"} <=> caller \in {"idle", "starting"},
             \A k \in Loops : pc'[k] \in Available <=> pc[k] \in Available
      PROVE  LoopInService'
  BY <1>0, <1>1 DEF LoopInService
\* A step which ends a call with the loop l available.
<1>2. ASSUME caller \notin {"idle", "starting"}, NEW l \in Loops, pc'[l] \in Available,
             \A k \in Loops \ {l} : pc'[k] = pc[k] \/ pc'[k] \notin Available,
             caller' = "idle"
      PROVE  LoopInService'
  <2>1. \A k \in Loops : pc[k] \notin Available
    BY <1>0, <1>2 DEF LoopInService
  <2>2. \A k \in Loops : pc'[k] \in Available <=> k = l
    BY <1>2, <2>1
  <2> QED BY <1>2, <2>2 DEF LoopInService
<1>3. ASSUME NEW nested \in BOOLEAN, Start(nested) PROVE LoopInService'
  BY <1>1, <1>3 DEF Start
<1>4. ASSUME NEW l \in Loops, Handover(l) PROVE LoopInService'
  <2>1. PICK m \in Loops : \A k \in Loops : pc[k] \in Available <=> k = m
    BY <1>0, <1>4 DEF LoopInService, Handover
  <2>2. m = l
    BY <1>4, <2>1 DEF Handover
  <2>3. \A k \in Loops : pc'[k] \notin Available
    BY <1>4, <2>1, <2>2 DEF Handover, TypeOK
  <2> QED BY <1>4, <2>3 DEF LoopInService, Handover
<1>5. ASSUME NEW l \in Loops, ReceiveEnd(l) PROVE LoopInService'
  BY <1>2, <1>5 DEF ReceiveEnd, TypeOK
<1>6. call + 1 \in Loops
  BY HandlerLoopAssumption DEF TypeOK, Loops
<1>7. ASSUME NEW l \in Loops, ReceivePanic(l) PROVE LoopInService'
  <2>1. ~exc
    BY <1>7 DEF ReceivePanic
  <2>2. pc' = [pc EXCEPT ![l] = "gone", ![call + 1] = "new"] /\ caller = "waiting" /\ caller' = "idle"
    BY <1>7, <2>1 DEF ReceivePanic
  <2> QED BY <1>2, <1>6, <2>2 DEF TypeOK
<1>8. CASE Timeout
  BY <1>1, <1>8 DEF Timeout
<1>9. CASE Deadline
  BY <1>2, <1>6, <1>9 DEF Deadline, TypeOK
<1>10. ASSUME NEW l \in Loops, LoopStart(l) \/ CheckVer(l) \/ Lock(l) \/ Handler(l)
       PROVE  LoopInService'
  <2>1. caller' = caller
    BY <1>10 DEF LoopStart, CheckVer, Lock, Handler, Return, Panic
  <2>2. \A k \in Loops : pc'[k] \in Available <=> pc[k] \in Available
    BY <1>10 DEF LoopStart, CheckVer, Lock, Handler, Return, Panic, Move, TypeOK
  <2> QED BY <1>1, <2>1, <2>2
<1>11. CASE UNCHANGED vars
  BY <1>1, <1>11 DEF vars
<1> QED BY <1>3, <1>4, <1>5, <1>7, <1>8, <1>9, <1>10, <1>11 DEF Next, Receive, Loop

\* The types hold in every behaviour.
THEOREM TypeCorrect == Spec => []TypeOK
<1>1. Init => TypeOK
  <2> SUFFICES ASSUME Init PROVE TypeOK
    OBVIOUS
  <2>1. pc \in [Loops -> PCs] /\ ver \in [Loops -> Nat] /\ job \in [Loops -> 0 .. MaxCalls]
    BY HandlerLoopAssumption DEF Init, PCs
  <2>2. exc \in BOOLEAN
    BY Zenon DEF Init
  <2> QED BY <2>1, <2>2, HandlerLoopAssumption DEF Init, TypeOK
<1> QED BY <1>1, TypeStep, PTL DEF Spec

\* Whatever handlers panic, time out or hang, and however late they return, one handlerLoop
\* waits for the next call, and one only (processHandlers, recoverToErr, handlerLoop).
THEOREM OneLoopInService == Spec => []LoopInService
<1>1. Init => LoopInService
  <2> SUFFICES ASSUME Init PROVE LoopInService
    OBVIOUS
  <2>1. 1 \in Loops
    BY HandlerLoopAssumption DEF Loops
  <2>2. \A k \in Loops : pc[k] \in Available <=> k = 1
    BY DEF Init, Available
  <2> QED BY <2>1, <2>2 DEF Init, LoopInService
<1>2. LoopInService /\ TypeOK /\ [Next]_vars => LoopInService'
  BY ServiceStep
<1> QED BY <1>1, <1>2, TypeCorrect, PTL DEF Spec

\* The loop the current call may start has not been started.
Fresh ==
  /\ \A l \in Loops : l > call + 1 => pc[l] = "none"
  /\ caller # "idle" => \A l \in Loops : l > call => pc[l] = "none"

LEMMA FreshStep == TypeOK /\ Fresh /\ [Next]_vars => Fresh'
<1> SUFFICES ASSUME TypeOK, Fresh, [Next]_vars PROVE Fresh'
  OBVIOUS
<1>0. call \in Nat /\ Loops \subseteq Nat
  BY DEF TypeOK, Loops
\* No loop is started.
<1>1. ASSUME call' = call, caller' # "idle" => caller # "idle",
             \A k \in Loops : pc[k] = "none" => pc'[k] = "none"
      PROVE  Fresh'
  BY <1>1 DEF Fresh
\* Loop call + 1 is started, at the end of the call.
<1>2. ASSUME call' = call, caller # "idle", caller' = "idle",
             \A k \in Loops : k # call + 1 /\ pc[k] = "none" => pc'[k] = "none"
      PROVE  Fresh'
  BY <1>0, <1>2 DEF Fresh
<1>3. ASSUME NEW nested \in BOOLEAN, Start(nested) PROVE Fresh'
  BY <1>0, <1>3 DEF Start, Fresh
<1>4. ASSUME NEW l \in Loops, Handover(l) \/ Handler(l) \/ Loop(l) PROVE Fresh'
  <2>1. call' = call /\ (caller' # "idle" => caller # "idle")
    BY <1>4 DEF Handover, Handler, Return, Panic, Loop, LoopStart, CheckVer, Lock
  <2>2. \A k \in Loops : pc[k] = "none" => pc'[k] = "none"
    BY <1>4 DEF Handover, Handler, Return, Panic, Loop, LoopStart, CheckVer, Lock, Move, TypeOK
  <2> QED BY <1>1, <2>1, <2>2
<1>5. ASSUME NEW l \in Loops, ReceiveEnd(l) PROVE Fresh'
  BY <1>1, <1>5 DEF ReceiveEnd, TypeOK
<1>6. ASSUME NEW l \in Loops, ReceivePanic(l) PROVE Fresh'
  <2>1. call' = call /\ caller = "waiting" /\ caller' = "idle"
    BY <1>6 DEF ReceivePanic
  <2>2. \A k \in Loops : k # call + 1 /\ pc[k] = "none" => pc'[k] = "none"
    BY <1>6 DEF ReceivePanic, TypeOK
  <2> QED BY <1>2, <2>1, <2>2
<1>7. CASE Timeout
  BY <1>1, <1>7 DEF Timeout
<1>8. CASE Deadline
  BY <1>2, <1>8 DEF Deadline, TypeOK
<1>9. CASE UNCHANGED vars
  BY <1>1, <1>9 DEF vars
<1> QED BY <1>3, <1>4, <1>5, <1>6, <1>7, <1>8, <1>9 DEF Next, Receive

\* A step which takes or gives back loopLock is the only one to enter or leave "sending".
LEMMA LockStep == TypeOK /\ Fresh /\ LockHeld /\ [Next]_vars => LockHeld'
<1> SUFFICES ASSUME TypeOK, Fresh, LockHeld, [Next]_vars PROVE LockHeld'
  OBVIOUS
<1>1. 0 \notin Loops /\ call + 1 \in Nat
  BY DEF Loops, TypeOK
<1>2. ASSUME UNCHANGED loopLock, \A k \in Loops : pc'[k] = "sending" <=> pc[k] = "sending"
      PROVE  LockHeld'
  BY <1>2 DEF LockHeld
<1>3. ASSUME NEW nested \in BOOLEAN, Start(nested) PROVE LockHeld'
  BY <1>2, <1>3 DEF Start
<1>4. ASSUME NEW l \in Loops, Handover(l) PROVE LockHeld'
  BY <1>2, <1>4 DEF Handover, TypeOK
<1>5. ASSUME NEW l \in Loops, ReceiveEnd(l) PROVE LockHeld'
  BY <1>1, <1>5 DEF ReceiveEnd, LockHeld, TypeOK
<1>6. ASSUME NEW l \in Loops, ReceivePanic(l) PROVE LockHeld'
  <2>1. pc[call + 1] # "sending" \/ call + 1 \notin Loops
    BY <1>6 DEF Fresh, ReceivePanic, TypeOK
  <2>2. CASE exc
    BY <1>2, <1>6, <2>2 DEF ReceivePanic, TypeOK
  <2>3. CASE ~exc
    <3>1. pc' = [pc EXCEPT ![l] = "gone", ![call + 1] = "new"] /\ UNCHANGED loopLock
      BY <1>6, <2>3 DEF ReceivePanic
    <3>2. pc[l] = "panicking"
      BY <1>6 DEF ReceivePanic
    <3>3. \A k \in Loops : pc'[k] = "sending" <=> pc[k] = "sending"
      BY <2>1, <3>1, <3>2 DEF TypeOK
    <3> QED BY <1>2, <3>1, <3>3
  <2> QED BY <2>2, <2>3
<1>7. CASE Timeout
  BY <1>2, <1>7 DEF Timeout
<1>8. CASE Deadline
  <2>1. pc[call + 1] # "sending" \/ call + 1 \notin Loops
    BY <1>8 DEF Fresh, Deadline, TypeOK
  <2> QED BY <1>2, <1>8, <2>1 DEF Deadline, TypeOK
<1>9. ASSUME NEW l \in Loops, LoopStart(l) \/ CheckVer(l) \/ Handler(l) PROVE LockHeld'
  <2>1. UNCHANGED loopLock
    BY <1>9 DEF LoopStart, CheckVer, Handler, Return, Panic
  <2>2. \A k \in Loops : pc'[k] = "sending" <=> pc[k] = "sending"
    BY <1>9 DEF LoopStart, CheckVer, Handler, Return, Panic, Move, TypeOK
  <2> QED BY <1>2, <2>1, <2>2
<1>10. ASSUME NEW l \in Loops, Lock(l) PROVE LockHeld'
  BY <1>1, <1>10 DEF Lock, Move, LockHeld, TypeOK
<1>11. CASE UNCHANGED vars
  BY <1>2, <1>11 DEF vars
<1> QED BY <1>3, <1>4, <1>5, <1>6, <1>7, <1>8, <1>9, <1>10, <1>11 DEF Next, Receive, Loop

\* handlerLoop holds loopLock while it sends a result, and no other loop sends then.
THEOREM LockCorrect == Spec => []LockHeld
<1>1. Init => Fresh /\ LockHeld
  <2> SUFFICES ASSUME Init PROVE Fresh /\ LockHeld
    OBVIOUS
  <2>1. Loops \subseteq Nat \ {0}
    BY DEF Loops
  <2> QED BY <2>1 DEF Init, Fresh, LockHeld
<1>2. Fresh /\ LockHeld /\ TypeOK /\ [Next]_vars => (Fresh /\ LockHeld)'
  BY FreshStep, LockStep
<1> QED BY <1>1, <1>2, TypeCorrect, PTL DEF Spec

-----------------------------------------------------------------------------
(* Answers *)

\* With a handler, or with what it came to.
Busy == {"running", "done", "locking", "sending", "panicking"}

\* Until a handler exceeds HandlerDeadline, one loop at most is busy, while processHandlers
\* waits, and with its call.
OwnJob ==
  "hung" \notin past =>
    \A l \in Loops : pc[l] \in Busy =>
      /\ caller \in {"waiting", "timeout"} /\ job[l] = call
      /\ \A k \in Loops : pc[k] \in Busy => k = l

LEMMA OwnJobStep == TypeOK /\ OwnJob /\ [Next]_vars => OwnJob'
<1> SUFFICES ASSUME TypeOK, OwnJob, [Next]_vars, "hung" \notin past' PROVE OwnJob'
  BY DEF OwnJob
<1> USE DEF Busy
\* "hung" stays.
<1>0. "hung" \notin past
  BY DEF Next, Start, Handover, Handler, Return, Panic, Loop, LoopStart, CheckVer, Lock,
     Receive, ReceiveEnd, ReceivePanic, Timeout, Deadline, vars
\* No loop gets busy, and the call goes on.
<1>1. ASSUME UNCHANGED <<call, job>>,
             caller \in {"waiting", "timeout"} => caller' \in {"waiting", "timeout"},
             \A k \in Loops : pc'[k] \in Busy => pc[k] \in Busy
      PROVE  OwnJob'
  BY <1>0, <1>1 DEF OwnJob
\* The busy loop is through.
<1>2. ASSUME NEW l \in Loops, pc[l] \in Busy, pc'[l] \notin Busy,
             \A k \in Loops : pc'[k] \in Busy => pc[k] \in Busy
      PROVE  OwnJob'
  <2>1. \A k \in Loops : pc'[k] \notin Busy
    BY <1>0, <1>2 DEF OwnJob
  <2> QED BY <2>1 DEF OwnJob
<1>3. ASSUME NEW nested \in BOOLEAN, Start(nested) PROVE OwnJob'
  <2>1. \A k \in Loops : pc'[k] \notin Busy
    BY <1>0, <1>3 DEF Start, OwnJob
  <2> QED BY <2>1 DEF OwnJob
<1>4. ASSUME NEW l \in Loops, Handover(l) PROVE OwnJob'
  <2>1. \A k \in Loops : pc[k] \notin Busy
    BY <1>0, <1>4 DEF Handover, OwnJob
  <2>2. job'[l] = call' /\ \A k \in Loops : pc'[k] \in Busy => k = l
    BY <1>4, <2>1 DEF Handover, TypeOK
  <2>3. caller' = "waiting"
    BY <1>4 DEF Handover
  <2> QED BY <2>2, <2>3 DEF OwnJob
<1>5. ASSUME NEW l \in Loops, ReceiveEnd(l) PROVE OwnJob'
  BY <1>2, <1>5 DEF ReceiveEnd, TypeOK
<1>6. ASSUME NEW l \in Loops, ReceivePanic(l) PROVE OwnJob'
  <2>1. pc[l] \in Busy /\ pc'[l] \notin Busy
    BY <1>6 DEF ReceivePanic, TypeOK
  <2>2. \A k \in Loops : pc'[k] \in Busy => pc[k] \in Busy
    BY <1>6 DEF ReceivePanic, TypeOK
  <2> QED BY <1>2, <2>1, <2>2
<1>7. CASE Timeout
  BY <1>1, <1>7 DEF Timeout
<1>8. ~Deadline
  BY DEF Deadline
<1>9. ASSUME NEW l \in Loops, Loop(l) \/ Handler(l) PROVE OwnJob'
  <2>1. UNCHANGED <<call, job, caller>>
    BY <1>9 DEF Loop, LoopStart, CheckVer, Lock, Handler, Return, Panic
  <2>2. \A k \in Loops : pc'[k] \in Busy => pc[k] \in Busy
    BY <1>9 DEF Loop, LoopStart, CheckVer, Lock, Handler, Return, Panic, Move, TypeOK
  <2> QED BY <1>1, <2>1, <2>2
<1>10. CASE UNCHANGED vars
  BY <1>1, <1>10 DEF vars
<1> QED BY <1>3, <1>4, <1>5, <1>6, <1>7, <1>8, <1>9, <1>10 DEF Next, Receive

\* As long as no handler has exceeded HandlerDeadline, processHandlers receives the result
\* or the panic of the handler it called, through other panics, timeouts and late answers.
THEOREM AnswersOwn == Spec => OwnAnswer
<1>1. Init => OwnJob
  BY DEF Init, OwnJob, Busy
<1>2. TypeOK /\ OwnJob /\ [Next]_vars
        => ["hung" \notin past /\ answered' # answered => answered' = call]_vars
  <2> SUFFICES ASSUME OwnJob, Next, "hung" \notin past, answered' # answered
               PROVE  answered' = call
    BY DEF vars
  <2>1. PICK l \in Loops : ReceiveEnd(l) \/ ReceivePanic(l)
    BY DEF Next, Start, Handover, Handler, Return, Panic, Loop, LoopStart, CheckVer, Lock,
       Receive, Timeout, Deadline
  <2>2. answered' = job[l] /\ pc[l] \in Busy
    BY <2>1 DEF ReceiveEnd, ReceivePanic, Busy
  <2> QED BY <2>2 DEF OwnJob
<1> QED BY <1>1, <1>2, OwnJobStep, TypeCorrect, PTL DEF Spec, OwnAnswer
=============================================================================
