----------------------------- MODULE RpcClient ------------------------------
(***************************************************************************)
(* The connection of an aRPC client (pkg/rpc): a machine whose states are  *)
(* the phases of the connection, and whose handlers start goroutines which *)
(* dial, notice the loss of the connection, shake hands, retry and         *)
(* disconnect.  Most goroutines check the context of their state, but not  *)
(* before each mutation, so that results come late.                        *)
(*                                                                         *)
(* A transition with its handlers, and the auto mutation it is followed    *)
(* by, is one step; mutations go through the queue.  The server and the    *)
(* network are external: they refuse, break, close, and answer or not.     *)
(* Goroutines in the same place with the same context are one.             *)
(***************************************************************************)
EXTENDS Integers, Sequences, FiniteSets

CONSTANTS ConnRetries, CallRetries,
          Topology,     \* an order of the states, the required ones first
          MaxQueued,    \* bound: queued mutations, when others run than the queue
          MaxConns,     \* bound: connections dialed
          MaxFaults,    \* bound: refused, lost and muted connections, late answers
          MaxUses       \* bound: calls of Start, Stop and of the API, byes of the server

ASSUME ClientAssumption ==
  /\ ConnRetries \in Nat \ {0} /\ CallRetries \in Nat
  /\ MaxConns \in Nat /\ MaxFaults \in Nat /\ MaxUses \in Nat

VARIABLES
  active,    \* active states
  queue,     \* mutations: type, called states, whether with arguments
  conn,      \* Client.Conn, 0 for nil
  rpc,       \* Client.rpc, by its connection
  round,     \* Client.connRetryRound
  conns,     \* by connection: unused, open, mute, shut
  gos,       \* goroutines: of a state's context, live or expired, where, and with what
  faults, uses

vars == <<active, queue, conn, rpc, round, conns, gos, faults, uses>>

Conns == 1 .. MaxConns
Fresh == {c \in Conns : conns[c] = "unused"}

-----------------------------------------------------------------------------
(* ClientSchema.  ErrRpc and ErrNetworkTimeout relate to Exception only and   *)
(* are left out, as Exceptions.                                               *)

StateNames == <<
  "Exception", "ErrNetwork", "Start", "Ready", "Healthcheck", "Connecting", "Connected",
  "Disconnecting", "Disconnected", "Handshaking", "HandshakeDone", "RetryingCall",
  "CallRetryFailed", "RetryingConn", "ConnRetryFailed">>

INSTANCE Relations WITH Index <- StateNames

Connection == {"Connecting", "Connected", "Disconnecting", "Disconnected"}
Handshake == {"Handshaking", "HandshakeDone"}

One(add, remove, require) ==
  [add |-> add, remove |-> remove, require |-> require, after |-> {}, auto |-> FALSE, multi |-> FALSE]

ClientSchema ==
  [Exception       |-> [One({}, {}, {}) EXCEPT !.multi = TRUE],
   ErrNetwork      |-> One({}, {"Connecting"}, {"Exception"}),
   Start           |-> One({"Connecting"}, {"ConnRetryFailed"}, {}),
   Ready           |-> [One({}, {}, {"HandshakeDone"}) EXCEPT !.auto = TRUE],
   Healthcheck     |-> [One({}, {}, {}) EXCEPT !.multi = TRUE],
   Connecting      |-> One({}, Connection \ {"Connecting"}, {"Start"}),
   Connected       |-> One({"Handshaking"}, (Connection \ {"Connected"}) \cup {"RetryingConn"}, {"Start"}),
   Disconnecting   |-> One({}, Connection \ {"Disconnecting"}, {}),
   Disconnected    |-> [One({}, Connection \ {"Disconnected"}, {}) EXCEPT !.auto = TRUE],
   Handshaking     |-> One({}, {"HandshakeDone"}, {"Start", "Connected"}),
   HandshakeDone   |-> One({}, {"Handshaking"}, {"Start", "Connected"}),
   RetryingCall    |-> One({}, {}, {"Start"}),
   CallRetryFailed |-> One({"ErrNetwork", "Exception"}, {"RetryingCall"}, {}),
   RetryingConn    |-> One({}, {}, {"Start"}),
   ConnRetryFailed |-> One({}, {"Start"}, {})]

ASSUME SchemaParsed == Parse(ClientSchema) = ClientSchema

MultiStates == {"Exception", "Healthcheck"}

-----------------------------------------------------------------------------
(* The queue and goroutines *)

Mut(type, called, args) == [type |-> type, called |-> called, args |-> args]
AddMut(s) == Mut("add", <<s>>, FALSE)
ErrMut == Mut("add", <<"Exception">>, TRUE)
ErrNetworkMut == Mut("add", <<"ErrNetwork", "Exception">>, TRUE)

\* queueMutation: duplicates without arguments are dropped, unless Multi.
Queued(q, m) ==
  IF ~m.args /\ Range(m.called) \cap MultiStates = {} /\ Contains(q, m) THEN q ELSE Append(q, m)
WillBe(q, s) == \E m \in Range(q) : m.type = "add" /\ Contains(m.called, s)

Routine(of, at, c, n) == [of |-> of, live |-> TRUE, at |-> at, conn |-> c, n |-> n]

Init ==
  /\ active = {} /\ queue = <<>>
  /\ conn = 0 /\ rpc = 0 /\ round = 0
  /\ conns = [c \in Conns |-> "unused"]
  /\ gos = {} /\ faults = 0 /\ uses = <<>>

-----------------------------------------------------------------------------
(* Handlers, which change "st": active, queue, conn, rpc, round, gos *)

Put(st, m) == [st EXCEPT !.queue = Queued(@, m)]
Go(st, g) == [st EXCEPT !.gos = @ \cup {g}]

\* Remove ignores an inactive state when nothing is queued.
Del(st, s) ==
  IF st.queue = <<>> /\ s \notin st.active THEN st ELSE Put(st, Mut("remove", <<s>>, FALSE))

\* ensureGroupConnected; WillBe asks for a mutation with all the four states.
EnsureGroupConnected(st) ==
  IF st.active \cap Connection = {} THEN Put(st, AddMut("Disconnected")) ELSE st

StartEnd(st, before) ==
  IF {"Connecting", "Exception"} \subseteq before THEN st
  ELSE IF before \cap {"Connecting", "Connected"} # {} THEN Put(st, AddMut("Disconnecting"))
  ELSE st

ConnectingState(st) == Go(st, Routine("Connecting", "dial", 0, 0))
DisconnectingState(st) == Go(st, Routine("Disconnecting", "bye", 0, 0))

\* Mutant: the goroutine has the context of Connecting.
ConnectedStateConnecting(st) ==
  Go([st EXCEPT !.round = 0], [Routine("Connecting", "notify", st.rpc, 0) EXCEPT !.live = FALSE])

ConnectedState(st) == Go([st EXCEPT !.round = 0], Routine("Connected", "notify", st.rpc, 0))

\* Mutant: only a connection that was made is retried.
DisconnectedStateMade(st, before) ==
  LET gone == [st EXCEPT !.conn = 0]
  IN  IF "Connected" \in before THEN Put(gone, AddMut("RetryingConn")) ELSE gone

DisconnectedState(st, before) ==
  LET gone == [st EXCEPT !.conn = 0]
  IN  IF before \cap {"Connecting", "Connected"} # {} THEN Put(gone, AddMut("RetryingConn")) ELSE gone

HandshakingState(st) == Go(st, Routine("Connected", "hello", 0, 0))
RetryingConnState(st) == Go(st, Routine("RetryingConn", "loop", 0, 0))
HealthcheckState(st) == EnsureGroupConnected(Del(st, "Healthcheck"))

Handle(st, s, before) ==
  CASE s = "Connecting"    -> ConnectingState(st)
    [] s = "Disconnecting" -> DisconnectingState(st)
    [] s = "Connected"     -> ConnectedState(st)
    [] s = "Disconnected"  -> DisconnectedState(st, before)
    [] s = "Handshaking"   -> HandshakingState(st)
    [] s = "RetryingConn"  -> RetryingConnState(st)
    [] s = "Healthcheck"   -> HealthcheckState(st)
    [] s \in {"Exception", "CallRetryFailed"} -> Del(st, s)
    [] OTHER -> st

DisconnectingEnter(st) == st.rpc # 0 /\ st.conn # 0
DisconnectedEnter(st) == ~WillBe(st.queue, "Disconnecting")
RetryingCallEnter(st) == st.active \cap {"Connected", "RetryingConn"} # {}

Negotiated(st, enters) ==
  /\ Contains(enters, "Disconnecting") => DisconnectingEnter(st)
  /\ Contains(enters, "Disconnected") => DisconnectedEnter(st)
  /\ Contains(enters, "RetryingCall") => RetryingCallEnter(st)

\* Contexts of states that were left are expired.  Goroutines that check them before
\* they do anything else are over, and WhenNot1(Connecting) of the retries is met.
Checking == {"dial", "hello", "helloing", "loop", "delay", "adding", "trying", "tried", "bye"}
Expire(gs, now) ==
  LET kept == {g \in gs : g.of \in now \cup {"Call", "Stop"} \/ g.at \notin Checking}
  IN  {[g EXCEPT !.live = @ /\ g.of \in now \cup {"Call", "Stop"},
                 !.at = IF @ = "trying" /\ "Connecting" \notin now THEN "tried" ELSE @] : g \in kept}

Target(st, m) ==
  TargetStates(ClientSchema, Topology,
               [type |-> m.type, called |-> m.called, before |-> Listed(st.active)],
               StatesToSet(m.type, m.called, Listed(st.active)))

\* What the mutation m makes of st, when it is resolved to these states.
Transition(st, m, target, ok) ==
  LET now    == Range(target)
      enters == SelectSeq(target, LAMBDA s : s \notin st.active
                                             \/ (s \in MultiStates /\ Contains(m.called, s)))
      set    == [st EXCEPT !.active = now, !.gos = Expire(@, now)]
      ended  == IF "Start" \in st.active \ now THEN StartEnd(set, st.active) ELSE set
  IN  IF ok /\ Negotiated(st, enters)
      THEN FoldLeft(LAMBDA acc, s : Handle(acc, s, st.active), ended, enters)
      ELSE st

Accepted(m, target) == m.type = "add" => Range(m.called) \subseteq Range(target)

\* The auto mutation, Ready or Disconnected.
Auto(st) ==
  LET called == SetToSeq(AutoStates(ClientSchema, Listed(st.active)))
      target == Target(st, Mut("add", called, FALSE))
  IN  IF called = <<>> THEN st
      ELSE Transition(st, Mut("add", called, FALSE), target, Range(target) \cap Range(called) # {})

Process ==
  /\ queue # <<>>
  /\ LET m  == Head(queue)
         st == [active |-> active, queue |-> Tail(queue), conn |-> conn, rpc |-> rpc,
                round |-> round, gos |-> gos]
     IN \E target \in {Target(st, m)} :
        \E to \in {Transition(st, m, target, Accepted(m, target))} :
        \E fin \in {IF to = st \/ m.called = <<"Healthcheck">> THEN to ELSE Auto(to)} :
          /\ active' = fin.active /\ queue' = fin.queue /\ conn' = fin.conn
          /\ round' = fin.round /\ gos' = fin.gos
  /\ UNCHANGED <<rpc, conns, faults, uses>>

-----------------------------------------------------------------------------
(* Goroutines.  What they do from one wait to the next is a step, to the      *)
(* goroutines "next" and with the mutations ms.                               *)

Step(g, next, ms) ==
  /\ ms # <<>> => Len(queue) < MaxQueued
  /\ gos' = (gos \ {g}) \cup next
  /\ queue' = FoldLeft(Queued, queue, ms)

At(g, of, at) == g.of = of /\ g.at = at
Goes(g, at) == {[g EXCEPT !.at = at]}
NoFault == UNCHANGED faults
Idle == UNCHANGED <<active, conn, rpc, round, uses, conns>>
Fault == faults < MaxFaults /\ faults' = faults + 1

\* The remove mutation, unless ignored.
Removing(s) == IF queue = <<>> /\ s \notin active THEN <<>> ELSE <<Mut("remove", <<s>>, FALSE)>>

\* ConnectingState dials, or takes the connection there is, and binds the handlers.
Dialed(g) ==
  /\ At(g, "Connecting", "dial") /\ (conn = 0 => Fresh # {})
  /\ \E c \in {IF conn = 0 THEN Min(Fresh) ELSE conn} :
       /\ conn' = c /\ rpc' = c
       /\ conns' = IF conn = 0 THEN [conns EXCEPT ![c] = "open"] ELSE conns
  /\ Step(g, Goes(g, "run"), <<>>)
  /\ NoFault /\ UNCHANGED <<active, round, uses>>

\* The server refuses, or there are no more connections.
Refused(g) ==
  /\ At(g, "Connecting", "dial") /\ conn = 0
  /\ Step(g, Goes(g, "refused"), <<AddMut("Disconnected")>>)
  /\ IF Fresh = {} THEN NoFault ELSE Fault
  /\ Idle

\* Whatever has become of Connecting.  No error wraps the sentinel ErrNetwork, so that
\* ExceptionEnter ignores none.
RefusedErr(g) ==
  /\ At(g, "Connecting", "refused")
  /\ Step(g, {}, <<ErrNetworkMut>>)
  /\ NoFault /\ Idle

\* Go checks the context, and Connected is added by a goroutine of its own, whatever has
\* become of Connecting since.
ConnectedAdd(g) ==
  /\ At(g, "Connecting", "run")
  /\ \/ ~g.live /\ Step(g, {}, <<>>)
     \/ Step(g, {}, <<AddMut("Connected")>>)
  /\ NoFault /\ Idle

\* The select of ConnectedState.
Notified(g) ==
  /\ At(g, "Connected", "notify")
  /\ \/ ~g.live /\ Step(g, {}, <<>>)
     \/ conns[g.conn] = "shut" /\ Step(g, {}, <<AddMut("Disconnected")>>)
  /\ NoFault /\ Idle

\* The results of call: an answer in time, a shut connection, a late answer, and an
\* expired context.  Without an answer it goes on to wait, CallTimeout or not.
Answered(g) == g.live /\ conns[g.conn] = "open" /\ NoFault
Failed(g) ==
  /\ g.live
  /\ \/ conns[g.conn] = "shut" /\ NoFault
     \/ conns[g.conn] = "open" /\ Fault
Expired(g) == ~g.live /\ NoFault

\* HandshakingState calls the rpc of the moment, after the delay; answers are valid.
HelloCall(g) ==
  /\ At(g, "Connected", "hello")
  /\ IF g.n < ConnRetries THEN Step(g, {[g EXCEPT !.at = "helloing", !.conn = rpc]}, <<>>)
     ELSE Step(g, {}, <<AddMut("RetryingConn")>>)
  /\ NoFault /\ Idle

HelloEnd(g) ==
  /\ At(g, "Connected", "helloing")
  /\ \/ Answered(g) /\ Step(g, {[g EXCEPT !.at = "confirming", !.conn = rpc, !.n = 0]}, <<>>)
     \/ Failed(g) /\ Step(g, {[g EXCEPT !.at = "hello", !.conn = 0, !.n = @ + 1]}, <<ErrMut>>)
  /\ Idle

\* The context is not checked once the call is over.
HandshakeEnd(g) ==
  /\ At(g, "Connected", "confirming")
  /\ \/ Answered(g) /\ Step(g, {}, <<Mut("add", <<"HandshakeDone">>, TRUE)>>)
     \/ Failed(g) /\ Step(g, {}, <<ErrMut, AddMut("RetryingConn")>>)
     \/ Expired(g) /\ Step(g, {}, <<AddMut("RetryingConn")>>)
  /\ Idle

\* RetryingConnState: the next round, or the last one is over.
RetryRound(g) ==
  /\ At(g, "RetryingConn", "loop")
  /\ IF round < ConnRetries
     THEN round' = round + 1 /\ Step(g, Goes(g, "delay"), <<>>)
     ELSE round' = round /\ Step(g, {}, Removing("RetryingConn") \o <<AddMut("ConnRetryFailed")>>)
  /\ NoFault /\ UNCHANGED <<active, conn, rpc, uses, conns>>

RetryConnecting(g) ==
  /\ At(g, "RetryingConn", "delay")
  /\ Step(g, Goes(g, "adding"), <<AddMut("Connecting")>>)
  /\ NoFault /\ Idle

\* Add1Sync is over.
RetryAdded(g) ==
  /\ At(g, "RetryingConn", "adding") /\ ~WillBe(queue, "Connecting")
  /\ Step(g, Goes(g, IF "Connecting" \in active THEN "trying" ELSE "tried"), <<>>)
  /\ NoFault /\ Idle

\* Connecting is over; its timeout is the shorter one.
RetryTried(g) ==
  /\ At(g, "RetryingConn", "tried")
  /\ Step(g, Goes(g, "loop"), Removing("Exception"))
  /\ NoFault /\ Idle

\* DisconnectingState: notify panics when Conn was reset.
Bye(g) ==
  /\ At(g, "Disconnecting", "bye")
  /\ Step(g, Goes(g, "close"), IF conn = 0 THEN <<ErrMut>> ELSE <<>>)
  /\ NoFault /\ Idle

\* Mutant: Disconnected is left to ensureGroupConnected.
CloseOnly(g) ==
  /\ At(g, "Disconnecting", "close")
  /\ conns' = IF g.live THEN [conns EXCEPT ![rpc] = "shut"] ELSE conns
  /\ Step(g, {}, IF active \cap Connection = {} THEN <<AddMut("Disconnected")>> ELSE <<>>)
  /\ NoFault /\ UNCHANGED <<active, conn, rpc, round, uses>>

\* rpc.Close after the cooldown, and in any case ensureGroupConnected.
Close(g) ==
  /\ At(g, "Disconnecting", "close")
  /\ conns' = IF g.live THEN [conns EXCEPT ![rpc] = "shut"] ELSE conns
  /\ Step(g, {}, IF g.live \/ active \cap Connection = {} THEN <<AddMut("Disconnected")>> ELSE <<>>)
  /\ NoFault /\ UNCHANGED <<active, conn, rpc, round, uses>>

-----------------------------------------------------------------------------
(* callFailsafe, one call at a time under callLock *)

\* While RetryingConn it has waited, for a result or for ConnRetryTimeout.
CallStart(g) ==
  /\ At(g, "Call", "call")
  /\ IF rpc = 0 \/ "Ready" \notin active THEN Step(g, {}, <<ErrNetworkMut>>)
     ELSE Step(g, {[g EXCEPT !.at = "calling", !.conn = rpc]}, <<>>)
  /\ NoFault /\ Idle

\* Mutant: a shut connection is not noticed.
CallEndAnswered(g) ==
  /\ At(g, "Call", "calling") /\ Answered(g)
  /\ Step(g, {}, IF g.n = 0 THEN <<>> ELSE Removing("RetryingCall"))
  /\ Idle

CallEnd(g) ==
  /\ At(g, "Call", "calling")
  /\ \/ Answered(g) /\ Step(g, {}, IF g.n = 0 THEN <<>> ELSE Removing("RetryingCall"))
     \/ /\ Failed(g)
        /\ Step(g, IF g.n < CallRetries THEN {[g EXCEPT !.at = "again", !.conn = 0, !.n = @ + 1]} ELSE {},
                <<ErrMut>> \o (IF g.n = 0 THEN <<Mut("add", <<"RetryingCall">>, TRUE)>> ELSE <<>>)
                          \o (IF g.n < CallRetries THEN <<>> ELSE <<Mut("add", <<"CallRetryFailed">>, TRUE)>>))
  /\ Idle

\* After the delay, and whenever Ready.
CallAgain(g) ==
  /\ At(g, "Call", "again") /\ "Ready" \in active
  /\ Step(g, {[g EXCEPT !.at = "calling", !.conn = rpc]}, <<>>)
  /\ NoFault /\ Idle

-----------------------------------------------------------------------------
(* The API and the environment *)

Use(name, next, ms) ==
  /\ Len(uses) < MaxUses /\ uses' = Append(uses, name)
  /\ Len(queue) < MaxQueued
  /\ gos' = gos \cup next
  /\ queue' = FoldLeft(Queued, queue, ms)
  /\ UNCHANGED <<active, conn, rpc, round, conns, faults>>

Start == "Start" \notin active /\ Use("Start", {}, <<Mut("add", <<"Start", "Connecting">>, FALSE)>>)

\* Waits, unless it is canceled at once.
Stop ==
  /\ "Start" \in active
  /\ \E wait \in {FALSE, queue # <<>> \/ (conn # 0 /\ rpc # 0)} :
       Use("Stop", IF wait THEN {Routine("Stop", "stopping", 0, 0)} ELSE {}, <<AddMut("Disconnecting")>>)

Call ==
  /\ \A g \in gos : g.of # "Call"
  /\ Use("Call", {Routine("Call", "call", 0, 0)}, <<>>)

\* Client.RemoteBye.
RemoteBye == \E c \in Conns : conns[c] = "open" /\ Use("Bye", {}, Removing("Start"))
Healthcheck == Use("Healthcheck", {}, <<Mut("add", <<"Healthcheck">>, FALSE)>>)

\* The end of Stop: Disconnected, or a timeout.
Stopped(g) ==
  /\ At(g, "Stop", "stopping")
  /\ \/ "Disconnected" \in active /\ Step(g, {}, <<>>)
     \/ Step(g, {}, Removing("Start"))
  /\ NoFault /\ Idle

\* The connection is lost, or closed by the server.
Lost(c) ==
  /\ conns[c] \in {"open", "mute"} /\ Fault
  /\ conns' = [conns EXCEPT ![c] = "shut"]
  /\ UNCHANGED <<active, queue, gos, conn, rpc, round, uses>>

\* The server does not answer any more.
Muted(c) ==
  /\ conns[c] = "open" /\ Fault
  /\ conns' = [conns EXCEPT ![c] = "mute"]
  /\ UNCHANGED <<active, queue, gos, conn, rpc, round, uses>>

-----------------------------------------------------------------------------
Dial(g) == Dialed(g) \/ Refused(g) \/ RefusedErr(g) \/ ConnectedAdd(g)
Shake(g) == HelloCall(g) \/ HelloEnd(g) \/ HandshakeEnd(g)
Retry(g) == RetryRound(g) \/ RetryConnecting(g) \/ RetryAdded(g) \/ RetryTried(g)
Disconnect(g) == Bye(g) \/ Close(g)
Calling(g) == CallStart(g) \/ CallEnd(g) \/ CallAgain(g)
Routines(g) == Dial(g) \/ Notified(g) \/ Shake(g) \/ Retry(g) \/ Disconnect(g) \/ Calling(g) \/ Stopped(g)

Next ==
  \/ Process \/ Start \/ Stop \/ Call \/ RemoteBye \/ Healthcheck
  \/ \E g \in gos : Routines(g)
  \/ \E c \in Conns : Lost(c) \/ Muted(c)

Spec == Init /\ [][Next]_vars

\* The queue is processed and goroutines go on: dials end, a shut connection is noticed,
\* calls get an answer from a server that is not mute, timers fire.  Ready wakes a call
\* also when it does not last.
Fairness ==
  /\ []<>(queue = <<>>) \/ []<><<~IsPrefix(queue, queue')>>_queue    \* Process
  /\ WF_vars(\E g \in gos : Dial(g))
  /\ WF_vars(\E g \in gos : Notified(g))
  /\ WF_vars(\E g \in gos : Shake(g))
  /\ WF_vars(\E g \in gos : Retry(g))
  /\ WF_vars(\E g \in gos : Disconnect(g))
  /\ WF_vars(\E g \in gos : CallStart(g)) /\ WF_vars(\E g \in gos : CallEnd(g))
  /\ SF_vars(\E g \in gos : CallAgain(g))

FairSpec == Spec /\ Fairness

-----------------------------------------------------------------------------
(* Properties *)

\* Nothing is left to do but to notice the loss of a connection, or to wait for Ready.
AtRest ==
  /\ queue = <<>>
  /\ \A g \in gos : \/ g.at = "notify" /\ g.live /\ conns[g.conn] # "shut"
                    \/ g.of = "Call" /\ g.at = "again"

\* A client that was started and not stopped never comes to rest without being Ready,
\* whatever is refused, lost or late: DisconnectedState and the retries take over from
\* each other, until ConnRetryFailed removes Start.  There are two exceptions: a
\* handshake that failed, and an ErrNetwork during the first Connecting, of a call or of
\* a dial from before, which removes Connecting and leaves DisconnectedState, of the
\* auto mutation that follows, nothing to retry.
NeverStranded ==
  AtRest /\ "Start" \in active /\ ~Contains(uses, "Stop") =>
    \/ "Ready" \in active
    \/ "Handshaking" \in active
    \/ /\ Len(SelectSeq(uses, LAMBDA u : u \in {"Start", "Call"})) > 1
       /\ "Disconnected" \in active /\ "RetryingConn" \notin active

\* A Ready client whose rpc has lost its connection does not stay Ready, whatever comes
\* in between: the goroutine of ConnectedState watches the rpc that is in use, and
\* DisconnectedEnter gives way to a Disconnecting only.  That one is canceled when Conn
\* is nil, as it is when Connected comes after a late ErrNetwork: an exception.
LossNoticed ==
  ("Ready" \in active /\ conn # 0 /\ conns[rpc] = "shut")
    ~> ("Ready" \notin active \/ conns[rpc] # "shut")

\* Disconnecting ends, also when the connection is gone or another one is made meanwhile.
DisconnectingEnds == ("Disconnecting" \in active) ~> ("Disconnecting" \notin active)

\* callFailsafe returns, through lost connections and its retries, when the client gets
\* Ready again and again and the server answers.
Calls == {g \in gos : g.of = "Call"}
CallsReturn ==
  []<>("Ready" \in active) =>
    (Calls # {} ~> Calls = {} \/ \E c \in Conns : conns[c] = "mute")
=============================================================================
