------------------------------ MODULE RpcSync ------------------------------
(***************************************************************************)
(* How a NetworkMachine follows its source over aRPC (pkg/rpc): the tracer *)
(* of the server collects the source's clock after each transition,        *)
(* PushClient sends differences to what was sent last, the client adds     *)
(* them up and compares checksums; Hello, Sync and the results of remote   *)
(* mutations bring clocks, too.  Connections break and come back.          *)
(*                                                                         *)
(* Default options: all states tracked, schema synced, deep clocks, no     *)
(* mutation log; the source was not imported, so its machine tick is 0.    *)
(* Server handlers run on goroutines of their own and write their replies  *)
(* after they return.  The client's reader runs the updates itself, in     *)
(* order (SetBlocking), and hands replies over to the waiting goroutine.   *)
(***************************************************************************)
EXTENDS Integers, Sequences, FiniteSets

CONSTANTS States,       \* states of the source
          Sum(_),       \* Time.Sum
          CheckMod,     \* 2^8: values of a checksum
          QueueMod,     \* 2^16: values of MsgSrvUpdate.QueueTick
          TickMod,      \* 2^32: values of MsgSrvUpdate.Ticks
          MaxTick,      \* bound: ticks of a state
          MaxTx,        \* bound: queue ticks of the source, besides remote mutations
          MaxConns,     \* bound: connections made
          MaxCalls      \* bound: calls by users of the client

Times == [States -> 0 .. MaxTick]
Plus(f, g) == [s \in States |-> f[s] + g[s]]
Minus(f, g) == [s \in States |-> f[s] - g[s]]
Before(f, g) == \A s \in States : f[s] <= g[s]

ASSUME RpcSyncAssumption ==
  /\ CheckMod \in Nat \ {0} /\ QueueMod \in Nat \ {0} /\ TickMod \in Nat \ {0}
  /\ MaxTick \in Nat /\ MaxTick < TickMod
  /\ MaxTx \in Nat /\ MaxConns \in Nat /\ MaxCalls \in Nat

\* What is needed of sums.
ASSUME SumAssumption ==
  /\ \A f \in Times : Sum(f) \in Nat
  /\ \A f, g \in Times : Before(f, g) /\ f # g => Sum(f) < Sum(g)
  /\ \A f, g, h \in Times : Before(h, g) => Sum(Plus(f, Minus(g, h))) = Sum(f) + Sum(g) - Sum(h)

VARIABLES
  src,        \* clock of the source: machine time and queue tick
  phase,      \* of its transition: idle, started, set
  hist,       \* history: clocks the source has had
  latest,     \* sourceTracer.dataLatest, once active
  last,       \* Server.lastPushData
  server,     \* clientId, rpcClient, tracer.active and the states ClientConnected, HandshakeDone
  lock,       \* lockExport and the progress of its holder
  closed,     \* connections that are closed
  due,        \* those whose OnDisconnect is due at the server
  request,    \* the call on its way to the server
  outbox,     \* the reply to be written
  wire,       \* messages on their way to the client
  client,     \* its connection, progress, call, the reply to it, the clock of Hello and
              \* (for the properties) the clock after the mutation that was called
  net,        \* clock of the NetworkMachine
  odd         \* history: what went wrong with net

source == <<src, phase, hist>>
push == <<latest, last>>
conns == <<closed, due>>
vars == <<source, push, server, lock, conns, request, outbox, wire, client, net, odd>>

NoTime == <<>>
None == [kind |-> "none"]
Clock(t, q) == [t |-> t, q |-> q]
Zero == [s \in States |-> 0]

\* The first dataLatest, "queue ticks start at 1".  The first lastPushData has no ticks.
NoData == Clock(NoTime, 1)
Free == [by |-> "none", conn |-> 0, own |-> "none", data |-> NoData]

Clocks == [t : Times, q : Nat]

\* What may have gone wrong with the clock of the NetworkMachine.
Excuses == {"irregular", "wrapped", "torn"}

\* What updates are calculated from, when the source has had the clocks H.
Data(H) == H \cup {NoData, Clock(NoTime, 0)}

Init ==
  /\ src = Clock(Zero, 1) /\ phase = "idle" /\ hist = {src}
  /\ latest = NoData /\ last = Clock(NoTime, 0)
  /\ server = [id |-> 0, client |-> 0, tracing |-> FALSE, connected |-> FALSE, done |-> FALSE]
  /\ lock = Free /\ closed = {} /\ due = {}
  /\ request = "none" /\ outbox = None /\ wire = <<>>
  /\ client = [conn |-> 0, at |-> "down", call |-> "none", calls |-> 0, reply |-> None,
               hello |-> NoData, own |-> NoData]
  /\ net = src /\ odd = {}

-----------------------------------------------------------------------------
(* Checksums and updates *)

Weight(c) == Sum(c.t) + c.q

\* Mutant: the sum of the time alone, without the queue tick.
ChecksumOfTime(c) == Sum(c.t) % CheckMod

\* Checksum.
Checksum(c) == Weight(c) % CheckMod

\* genDeepUpdate for one state, 0 when it is not in Indexes.  Data from before the first
\* transition tracks no states.
TicksSince(data, prev, s) ==
  IF data.t = NoTime THEN 0
  ELSE IF prev.t = NoTime THEN data.t[s] % TickMod
  ELSE (data.t[s] - prev.t[s]) % TickMod

CalcUpdate(data, prev) ==
  [kind  |-> "update",
   ticks |-> [s \in States |-> TicksSince(data, prev, s)],
   q     |-> (data.q - prev.q) % QueueMod,
   check |-> IF data.t = NoTime THEN 0 ELSE Checksum(data),
   data  |-> data, prev |-> prev]    \* for the properties only

\* clockFromUpdate.
ClockFromUpdate(u, c) == Clock(Plus(c.t, u.ticks), c.q + u.q)

HandshakeDone == client.at \in {"active", "done"}

\* The checksum of the updated clock.
Matches(u) == Checksum(ClockFromUpdate(u, net)) = u.check

\* Between two clocks of the source, the later one last.
Regular(u) ==
  /\ u.data.t # NoTime /\ u.prev.t # NoTime
  /\ Before(u.prev.t, u.data.t) /\ u.data.q - u.prev.q \in 0 .. QueueMod - 1
Near(a, b) == Weight(a) - Weight(b) \in -(CheckMod - 1) .. CheckMod - 1

\* clockUpdate, when the checksum is right.
Updated(u) ==
  /\ net' = ClockFromUpdate(u, net)
  /\ odd' = odd \cup (IF ~Regular(u) THEN {"irregular"}
                      ELSE IF ~Near(net, u.prev) THEN {"wrapped"} ELSE {})

\* clockSet.
ClockSet(c) == net' = c

-----------------------------------------------------------------------------
(* The source *)

Started(q) ==
  /\ phase = "idle"
  /\ src' = [src EXCEPT !.q = q]
  /\ phase' = "started" /\ hist' = hist \cup {src'}

\* A mutation is taken from the queue; prepended ones have no queue tick.
TxStart ==
  /\ Started(src.q) \/ (src.q < MaxTx /\ Started(src.q + 1))
  /\ UNCHANGED <<push, server, lock, conns, request, outbox, wire, client, net, odd>>

\* The same for the mutation of RemoteMutation.
TxStartOwn ==
  /\ lock.own = "queued" /\ Started(src.q + 1)
  /\ lock' = [lock EXCEPT !.own = "running"]
  /\ UNCHANGED <<push, server, conns, request, outbox, wire, client, net, odd>>

\* setActiveStates, unless the transition is canceled.
TxSet ==
  /\ phase = "started"
  /\ \E t \in Times :
       /\ \A s \in States : t[s] - src.t[s] \in 0 .. 1
       /\ src' = [src EXCEPT !.t = t]
  /\ phase' = "set" /\ hist' = hist \cup {src'}
  /\ UNCHANGED <<push, server, lock, conns, request, outbox, wire, client, net, odd>>

\* sourceTracer.TransitionEnd; it also forks a PushClient.
TransitionEnd ==
  /\ phase = "set"
  /\ phase' = "idle"
  /\ latest' = IF server.tracing THEN src ELSE latest
  /\ lock' = [lock EXCEPT !.own = IF @ = "running" THEN "ran" ELSE @,
                          !.data = IF lock.own = "running" THEN src ELSE @]
  /\ UNCHANGED <<src, hist, last, server, conns, request, outbox, wire, client, net, odd>>

-----------------------------------------------------------------------------
(* The server *)

Open(conn) == client.at # "down" /\ client.conn = conn /\ conn \notin closed

\* HandshakeDoneEnd closes the connection of rpcClient.
HandshakeDoneEnd ==
  LET c == IF server.done THEN {server.client} \ closed ELSE {}
  IN  closed' = closed \cup c /\ due' = due \cup c

\* Add of Handshaking removes HandshakeDone.
RemoteHello ==
  /\ request = "hello" /\ outbox = None
  /\ request' = "none"
  /\ last' = src
  /\ server' = [server EXCEPT !.id = client.conn, !.done = FALSE, !.tracing = TRUE]
  /\ HandshakeDoneEnd
  /\ outbox' = [kind |-> "hello", clock |-> src]
  /\ UNCHANGED <<source, latest, lock, wire, client, net, odd>>

\* HandshakeDone requires ClientConnected.
RemoteHandshake ==
  /\ request = "handshake" /\ outbox = None
  /\ request' = "none"
  /\ server' = [server EXCEPT !.client = client.conn, !.done = server.connected]
  /\ outbox' = [kind |-> "handshake"]
  /\ UNCHANGED <<source, push, lock, conns, wire, client, net, odd>>

\* RemoteAdd, RemoteAddNS, RemoteRemove and RemoteSet lock lockExport, mutate the source ...
RemoteMutation ==
  /\ request \in {"mutation", "addNS"} /\ lock = Free
  /\ request' = "none"
  /\ lock' = [Free EXCEPT !.by = request, !.conn = client.conn, !.own = "queued"]
  /\ UNCHANGED <<source, push, server, conns, outbox, wire, client, net, odd>>

\* ... and, once the mutation was executed, or queued when another goroutine processes the
\* queue, end here, or with newMsgMutation.
Mutated == lock.own = "ran" \/ (lock.own = "queued" /\ phase # "idle")

RemoteAddNS ==
  /\ lock.by = "addNS" /\ Mutated
  /\ lock' = Free
  /\ UNCHANGED <<source, push, server, conns, request, outbox, wire, client, net, odd>>

NewMsgMutation ==
  /\ lock.by = "mutation" /\ outbox = None /\ Mutated
  /\ last' = latest
  /\ lock' = Free
  /\ outbox' = IF Open(lock.conn)
               THEN [kind |-> "mutation", update |-> CalcUpdate(latest, last),
                     own |-> lock.data]    \* for the properties only
               ELSE None
  /\ UNCHANGED <<source, latest, server, conns, request, wire, client, net, odd>>

\* RemoteSync reads the time first, then the queue tick.
RemoteSync ==
  /\ request = "sync" /\ outbox = None
  /\ request' = "none"
  /\ outbox' = [kind |-> "time", t |-> src.t]
  /\ UNCHANGED <<source, push, server, lock, conns, wire, client, net, odd>>

RemoteSyncTick ==
  /\ outbox.kind = "time"
  /\ outbox' = [kind |-> "sync", clock |-> Clock(outbox.t, src.q)]
  /\ UNCHANGED <<source, push, server, lock, conns, request, wire, client, net, odd>>

\* rpc2 writes the reply after the method has returned and unlocked lockExport.
Reply ==
  /\ outbox.kind \notin {"none", "time"}
  /\ wire' = IF Open(client.conn) THEN Append(wire, outbox) ELSE wire
  /\ outbox' = None
  /\ UNCHANGED <<source, push, server, lock, conns, request, client, net, odd>>

SumOf(data) == IF data.t = NoTime THEN 0 ELSE Sum(data.t)

\* Without changed states there is nothing to push.
Changes(u) == \E s \in States : u.ticks[s] # 0

PushUpdateLatest(u) ==
  wire' = IF Changes(u) /\ Open(server.client) THEN Append(wire, u) ELSE wire

\* PushClient until the update is sent.  It gives up when the lock is taken.  A closed
\* connection may take the update and lose it, or make Notify fail.
PushClient ==
  LET u == CalcUpdate(latest, last)
  IN  /\ server.client # 0 /\ server.done /\ lock = Free
      /\ SumOf(latest) # SumOf(last) \/ latest.q # last.q
      /\ \/ /\ PushUpdateLatest(u)
            /\ lock' = [Free EXCEPT !.by = "push", !.data = latest]
            /\ UNCHANGED <<server, conns>>
         \/ /\ Changes(u) /\ ~Open(server.client)
            /\ server' = [server EXCEPT !.connected = FALSE, !.done = FALSE]
            /\ HandshakeDoneEnd
            /\ UNCHANGED <<wire, lock>>
      /\ UNCHANGED <<source, push, request, outbox, client, net, odd>>

StoreLastPush ==
  /\ lock.by = "push"
  /\ last' = lock.data
  /\ lock' = Free
  /\ UNCHANGED <<source, latest, server, conns, request, outbox, wire, client, net, odd>>

\* OnDisconnect of any connection removes ClientConnected, and HandshakeDone with it.
OnDisconnect ==
  /\ \E c \in due :
       LET more == IF server.done THEN {server.client} \ closed ELSE {}
       IN  closed' = closed \cup more /\ due' = (due \ {c}) \cup more
  /\ server' = [server EXCEPT !.connected = FALSE, !.done = FALSE]
  /\ UNCHANGED <<source, push, lock, request, outbox, wire, client, net, odd>>

-----------------------------------------------------------------------------
(* The client *)

\* ConnectingState to HandshakingState, which calls Hello.  OnConnect at the server.
Connect ==
  /\ client.at = "down" /\ client.conn < MaxConns
  /\ client' = [client EXCEPT !.conn = @ + 1, !.at = "hello"]
  /\ request' = "hello"
  /\ server' = [server EXCEPT !.connected = TRUE]
  /\ UNCHANGED <<source, push, lock, conns, outbox, wire, net, odd>>

\* Mutant: a reply that the connection cannot bring is waited for.
DisconnectWaiting ==
  /\ client.at # "down"
  /\ client' = [client EXCEPT !.at = "down", !.reply = None, !.hello = NoData, !.own = NoData]
  /\ closed' = closed \cup {client.conn}
  /\ due' = due \cup ({client.conn} \ closed)
  /\ request' = "none" /\ outbox' = None /\ wire' = <<>>
  /\ UNCHANGED <<source, push, server, lock, net, odd>>

\* The connection breaks, or the client finds it closed.  Calls fail.
Disconnect ==
  /\ client.at # "down"
  /\ client' = [client EXCEPT !.at = "down", !.call = "none", !.reply = None,
                              !.hello = NoData, !.own = NoData]
  /\ closed' = closed \cup {client.conn}
  /\ due' = due \cup ({client.conn} \ closed)
  /\ request' = "none" /\ outbox' = None /\ wire' = <<>>
  /\ UNCHANGED <<source, push, server, lock, net, odd>>

\* The reader: a reply goes to the goroutine that waits for it.
ReceiveReply ==
  /\ wire # <<>> /\ Head(wire).kind # "update" /\ client.reply = None
  /\ client' = [client EXCEPT !.reply = Head(wire)]
  /\ wire' = Tail(wire)
  /\ UNCHANGED <<source, push, server, lock, conns, request, outbox, net, odd>>

\* RemoteUpdate: clockUpdate, whose result it ignores.
RemoteUpdate ==
  /\ wire # <<>> /\ Head(wire).kind = "update"
  /\ IF HandshakeDone /\ Matches(Head(wire)) THEN Updated(Head(wire)) ELSE UNCHANGED <<net, odd>>
  /\ wire' = Tail(wire)
  /\ UNCHANGED <<source, push, server, lock, conns, request, outbox, client>>

\* HandshakingState: updateStatesSchema sets the clock, then the call of Handshake.
UpdateStatesSchema ==
  /\ client.at = "hello" /\ client.reply.kind = "hello"
  /\ net' = client.reply.clock
  /\ client' = [client EXCEPT !.at = "handshake", !.hello = client.reply.clock, !.reply = None]
  /\ request' = "handshake"
  /\ UNCHANGED <<source, push, server, lock, conns, outbox, wire, odd>>

\* The transition to HandshakeDone ...
Handshaken ==
  /\ client.at = "handshake" /\ client.reply.kind = "handshake"
  /\ client' = [client EXCEPT !.at = "active", !.reply = None]
  /\ UNCHANGED <<source, push, server, lock, conns, request, outbox, wire, net, odd>>

\* ... and its handler, which sets the clock of Hello again.
HandshakeDoneState ==
  /\ client.at = "active"
  /\ ClockSet(client.hello)
  /\ client' = [client EXCEPT !.at = "done", !.hello = NoData]
  /\ UNCHANGED <<source, push, server, lock, conns, request, outbox, wire, odd>>

\* NetworkMachine.Add, Remove and Set, AddNS, which has no reply, or Client.Sync, by a user.
UserCall ==
  /\ client.at = "done" /\ client.call = "none" /\ request = "none" /\ client.calls < MaxCalls
  /\ \E kind \in {"mutation", "addNS", "sync"} :
       /\ client' = [client EXCEPT !.call = IF kind = "addNS" THEN "none" ELSE kind, !.calls = @ + 1]
       /\ request' = kind
  /\ UNCHANGED <<source, push, server, lock, conns, outbox, wire, net, odd>>

\* Mutant: without the Sync.
MutationReplyOnly ==
  /\ client.reply.kind = "mutation"
  /\ IF Matches(client.reply.update) THEN Updated(client.reply.update) ELSE UNCHANGED <<net, odd>>
  /\ client' = [client EXCEPT !.call = "none", !.reply = None]
  /\ UNCHANGED <<source, push, server, lock, conns, request, outbox, wire>>

\* clientNetMachConn.Call: the difference in the result, or a Sync when it does not match.
MutationReply ==
  /\ client.reply.kind = "mutation"
  /\ IF Matches(client.reply.update)
     THEN /\ Updated(client.reply.update)
          /\ client' = [client EXCEPT !.call = "none", !.reply = None]
          /\ UNCHANGED request
     ELSE /\ client' = [client EXCEPT !.call = "resync", !.reply = None, !.own = client.reply.own]
          /\ request' = "sync"
          /\ UNCHANGED <<net, odd>>
  /\ UNCHANGED <<source, push, server, lock, conns, outbox, wire>>

\* Client.Sync.
SyncReply ==
  /\ client.reply.kind = "sync"
  /\ ClockSet(client.reply.clock)
  /\ odd' = odd \cup (IF net' \in hist THEN {} ELSE {"torn"})
  /\ client' = [client EXCEPT !.call = "none", !.reply = None, !.own = NoData]
  /\ UNCHANGED <<source, push, server, lock, conns, request, outbox, wire>>

Source == TxStart \/ TxStartOwn \/ TxSet \/ TransitionEnd
Server ==
  \/ RemoteHello \/ RemoteHandshake \/ RemoteMutation \/ RemoteAddNS \/ NewMsgMutation
  \/ RemoteSync \/ RemoteSyncTick \/ Reply \/ PushClient \/ StoreLastPush \/ OnDisconnect
Client ==
  \/ Connect \/ Disconnect \/ ReceiveReply \/ RemoteUpdate \/ UpdateStatesSchema
  \/ Handshaken \/ HandshakeDoneState \/ UserCall \/ MutationReply \/ SyncReply

Next == Source \/ Server \/ Client

Spec == Init /\ [][Next]_vars

\* Transitions end, and a queued mutation has its turn; goroutines and the network make
\* progress; a closed connection is noticed.
Fairness ==
  /\ WF_vars(TxSet \/ TransitionEnd) /\ SF_vars(TxStartOwn)
  /\ WF_vars(RemoteHello \/ RemoteHandshake \/ RemoteMutation \/ RemoteSync \/ RemoteSyncTick)
  /\ WF_vars(NewMsgMutation \/ RemoteAddNS \/ StoreLastPush) /\ WF_vars(Reply) /\ WF_vars(PushClient)
  /\ WF_vars(OnDisconnect) /\ WF_vars(Disconnect /\ client.conn \in closed)
  /\ WF_vars(ReceiveReply \/ RemoteUpdate)
  /\ WF_vars(UpdateStatesSchema \/ Handshaken \/ HandshakeDoneState \/ MutationReply \/ SyncReply)

FairSpec == Spec /\ Fairness

-----------------------------------------------------------------------------
(* Properties *)

Updates(H) == {CalcUpdate(data, prev) : data, prev \in Data(H)}
Messages(H) ==
  Updates(H) \cup [kind : {"hello"}, clock : H] \cup [kind : {"handshake"}]
    \cup [kind : {"mutation"}, update : Updates(H), own : Data(H)]
    \cup [kind : {"sync"}, clock : Clocks]

\* Everything the server remembers and everything on its way was made from clocks that the
\* source has had, save the replies to Sync, whatever Hello, pushes and mutations overwrite.
Derived ==
  /\ latest \in Data(hist) /\ last \in Data(hist)
  /\ lock \in [by : {"none", "mutation", "addNS", "push"}, conn : 0 .. MaxConns,
               own : {"none", "queued", "running", "ran"}, data : Data(hist)]
  /\ client \in [conn : 0 .. MaxConns, at : {"down", "hello", "handshake", "active", "done"},
                 call : {"none", "mutation", "sync", "resync"}, calls : 0 .. MaxCalls,
                 reply : Messages(hist) \cup {None}, hello : Data(hist), own : Data(hist)]
  /\ wire \in Seq(Messages(hist))
  /\ outbox \in Messages(hist) \cup {None} \cup [kind : {"time"}, t : Times]
  /\ client.at \in {"handshake", "active"} => client.hello \in hist

\* The NetworkMachine has a clock that the source has had, whatever was lost, reordered
\* or sent relative to something else: clockUpdate accepts a difference only on top of the
\* clock it was calculated from.  Excuses are checksums that wrapped around, differences
\* from data older than what was sent before, and a Sync that read half of a change.
Snapshot == odd = {} => net \in hist

\* The same, as an implementation of Replica.
Abstract == INSTANCE Replica WITH Clocks <- Clocks, past <- hist, shown <- net, excuses <- odd,
                                  Excuses <- Excuses
ShowsPast == Abstract!Spec

\* Once NetworkMachine.Add (Remove, Set) returns from a mutation that was executed, the
\* NetworkMachine has seen it (clientNetMachConn.Call with its Sync as a fallback).
ReadYourWrites ==
  [][/\ client.call \in {"mutation", "resync"} /\ client'.call = "none" /\ client'.at = "done"
     /\ odd' = {}
     => LET own == IF client.call = "mutation" THEN client.reply.own ELSE client.own
        IN  own.t # NoTime => Before(own.t, net'.t)]_vars

\* Calls end, with a reply or with the connection.
CallsReturn == client.call # "none" ~> client.call = "none"

\* Violated.  "feat(rpc): request full sync on bad checksum" (docs/release-notes.md:1796),
\* "execute or fallback" (pkg/rpc/rpc_client.go:1282): a connected client catches up.
Converges == client.at = "done" ~> (net = src \/ client.at # "done")
=============================================================================
