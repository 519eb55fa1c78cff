--------------------------- MODULE RpcSyncProofs ---------------------------
(***************************************************************************)
(* Proof that a NetworkMachine only shows clocks of its source (module     *)
(* RpcSync), for any states, bounds and width of the checksum.             *)
(*                                                                         *)
(* The weight of a clock, machine time plus queue tick, grows with every   *)
(* change of the source, so that two of its clocks with the same weight    *)
(* are the same clock.  A checksum is the weight modulo 2^8; when it is    *)
(* right, the client has the clock that the difference was made from.      *)
(*                                                                         *)
(* Also, that a client reads its own writes: a call and its reply are in   *)
(* one place at a time, and the reply is as late as the mutation.          *)
(***************************************************************************)
EXTENDS RpcSync, TLAPS

USE DEF Clock, Before

\* Two numbers less than m apart with the same remainder are equal.
LEMMA SameRemainder ==
  ASSUME NEW m \in Nat \ {0}, NEW x \in Nat, NEW d \in -(m - 1) .. m - 1, x + d \in Nat,
         (x + d) % m = x % m
  PROVE  d = 0
<1> DEFINE k == x \div m  l == (x + d) \div m  r == x % m
<1>1. k \in Int /\ l \in Int /\ r \in 0 .. m - 1
  OBVIOUS
<1>2. x = m * k + r /\ x + d = m * l + r
  OBVIOUS
<1>3. d = m * (l - k)
  BY <1>1, <1>2
<1>4. CASE l - k >= 1
  BY <1>1, <1>3, <1>4
<1>5. CASE l - k <= -1
  BY <1>1, <1>3, <1>5
<1> QED BY <1>1, <1>3, <1>4, <1>5

-----------------------------------------------------------------------------
(* Clocks and weights *)

\* Clocks are told by their weights.
Ordered(H) == \A a, b \in H : Weight(a) = Weight(b) => a = b

LEMMA WeightNat == \A c \in Clocks : Weight(c) \in Nat
BY SumAssumption DEF Weight, Clocks

LEMMA NoTimeIsNone ==
  ASSUME NEW H \in SUBSET Clocks, NEW d \in Data(H), d.t # NoTime
  PROVE  d \in H
BY DEF Data, NoData

\* clockUpdate with a right checksum ends up where the source was.
LEMMA AcceptedIsData ==
  ASSUME NEW H \in SUBSET Clocks, Ordered(H),
         NEW c \in H, NEW data \in Data(H), NEW prev \in Data(H),
         NEW u, u = CalcUpdate(data, prev),
         Regular(u), Near(c, prev),
         Checksum(ClockFromUpdate(u, c)) = u.check
  PROVE  ClockFromUpdate(u, c) = data
<1>1. u.data = data /\ u.prev = prev
  BY DEF CalcUpdate
<1>2. data \in H /\ prev \in H
  BY <1>1, NoTimeIsNone DEF Regular
<1>3. /\ data.t \in Times /\ prev.t \in Times /\ c.t \in Times
      /\ data.q \in Nat /\ prev.q \in Nat /\ c.q \in Nat
  BY <1>2 DEF Clocks
<1>4. data.t # NoTime /\ prev.t # NoTime
  BY <1>1 DEF Regular
<1>5. u.ticks = Minus(data.t, prev.t)
  <2>1. u.ticks = [s \in States |-> (data.t[s] - prev.t[s]) % TickMod]
    BY <1>4 DEF CalcUpdate, TicksSince
  <2>2. ASSUME NEW s \in States PROVE (data.t[s] - prev.t[s]) % TickMod = data.t[s] - prev.t[s]
    <3>1. data.t[s] \in 0 .. MaxTick /\ prev.t[s] \in 0 .. MaxTick /\ prev.t[s] <= data.t[s]
      BY <1>1, <1>3 DEF Times, Regular
    <3>2. data.t[s] - prev.t[s] \in 0 .. TickMod - 1
      BY <3>1, RpcSyncAssumption
    <3> QED BY <3>2, RpcSyncAssumption
  <2> QED BY <2>1, <2>2 DEF Minus
<1>6. u.q = data.q - prev.q
  <2>1. data.q - prev.q \in 0 .. QueueMod - 1
    BY <1>1 DEF Regular
  <2>2. u.q = (data.q - prev.q) % QueueMod
    BY DEF CalcUpdate
  <2> QED BY <2>1, <2>2, RpcSyncAssumption
<1> DEFINE n == ClockFromUpdate(u, c)
<1>7. Weight(n) = Weight(c) + Weight(data) - Weight(prev)
  <2>1. n.t = Plus(c.t, Minus(data.t, prev.t)) /\ n.q = c.q + (data.q - prev.q)
    BY <1>5, <1>6 DEF ClockFromUpdate
  <2>2. Before(prev.t, data.t)
    BY <1>1 DEF Regular
  <2>3. Sum(n.t) = Sum(c.t) + Sum(data.t) - Sum(prev.t)
    BY <1>3, <2>1, <2>2, SumAssumption
  <2>4. Sum(c.t) \in Nat /\ Sum(data.t) \in Nat /\ Sum(prev.t) \in Nat
    BY <1>3, SumAssumption
  <2> QED BY <1>3, <2>1, <2>3, <2>4 DEF Weight
<1>8. Weight(n) % CheckMod = Weight(data) % CheckMod
  BY <1>4 DEF Checksum, CalcUpdate
<1>9. Weight(c) = Weight(prev)
  <2>1. Weight(c) \in Nat /\ Weight(data) \in Nat /\ Weight(prev) \in Nat
    BY <1>2, WeightNat
  <2> DEFINE d == Weight(c) - Weight(prev)
  <2>2. d \in -(CheckMod - 1) .. CheckMod - 1
    BY DEF Near
  <2>3. Before(prev.t, data.t) /\ prev.q <= data.q
    BY <1>1, <1>3 DEF Regular
  <2>4. Weight(prev) <= Weight(data)
    <3>1. Sum(prev.t) <= Sum(data.t)
      BY <1>3, <2>3, SumAssumption
    <3> QED BY <1>3, <2>3, <3>1, SumAssumption DEF Weight
  <2>5. Weight(data) + d \in Nat /\ (Weight(data) + d) % CheckMod = Weight(data) % CheckMod
    BY <1>7, <1>8, <2>1, <2>4
  <2> HIDE DEF d
  <2>6. d = 0
    BY <2>1, <2>2, <2>5, SameRemainder, RpcSyncAssumption
  <2> QED BY <2>1, <2>6 DEF d
<1>10. c = prev
  BY <1>2, <1>9 DEF Ordered
<1>11. Plus(prev.t, Minus(data.t, prev.t)) = data.t
  BY <1>3 DEF Plus, Minus, Times
<1>12. n = [t |-> data.t, q |-> data.q]
  BY <1>3, <1>5, <1>6, <1>10, <1>11 DEF ClockFromUpdate
<1> QED BY <1>2, <1>12 DEF Clocks

-----------------------------------------------------------------------------
(* The invariant *)

SourceInv ==
  /\ hist \in SUBSET Clocks /\ src \in hist
  /\ Ordered(hist)
  /\ \A c \in hist : Weight(c) <= Weight(src)

SyncInv == SourceInv /\ Derived /\ Snapshot /\ odd \subseteq Excuses

LEMMA MoreMessages ==
  ASSUME NEW H, NEW G, H \subseteq G
  PROVE  Data(H) \subseteq Data(G) /\ Messages(H) \subseteq Messages(G)
<1>1. Data(H) \subseteq Data(G)
  BY DEF Data
<1>2. Updates(H) \subseteq Updates(G)
  BY <1>1 DEF Updates
<1> QED BY <1>1, <1>2 DEF Messages

LEMMA SourceStep ==
  ASSUME SourceInv, Source PROVE SourceInv' /\ hist \subseteq hist'
<1>1. src \in Clocks /\ src.t \in Times /\ src.q \in Nat
  BY DEF SourceInv, Clocks
<1>2. ASSUME src' \in Clocks, Weight(src') > Weight(src), hist' = hist \cup {src'}
      PROVE  SourceInv' /\ hist \subseteq hist'
  <2>1. \A c \in hist : Weight(c) \in Nat
    BY WeightNat DEF SourceInv
  <2>2. \A c \in hist : Weight(c) < Weight(src')
    BY <1>2, <2>1, <1>1, WeightNat DEF SourceInv
  <2>3. Ordered(hist')
    BY <1>2, <2>1, <2>2, WeightNat DEF SourceInv, Ordered
  <2>4. \A c \in hist' : Weight(c) <= Weight(src')
    BY <1>2, <2>1, <2>2, WeightNat
  <2> QED BY <1>2, <2>3, <2>4 DEF SourceInv
<1>3. ASSUME src' = src, hist' = hist \cup {src'} PROVE SourceInv' /\ hist \subseteq hist'
  <2>1. hist' = hist
    BY <1>3 DEF SourceInv
  <2> QED BY <1>3, <2>1 DEF SourceInv, Ordered
<1>4. ASSUME NEW q \in {src.q, src.q + 1}, Started(q) PROVE SourceInv' /\ hist \subseteq hist'
  <2>1. src' = [t |-> src.t, q |-> q] /\ hist' = hist \cup {src'}
    BY <1>1, <1>4 DEF Started, Clocks
  <2>2. CASE q = src.q
    BY <1>1, <1>3, <2>1, <2>2 DEF Clocks
  <2>3. CASE q = src.q + 1
    <3>1. src' \in Clocks
      BY <1>1, <2>1, <2>3 DEF Clocks
    <3>2. Weight(src') = Sum(src.t) + src.q + 1 /\ Weight(src) = Sum(src.t) + src.q
      BY <1>1, <2>1, <2>3, SumAssumption DEF Weight
    <3> QED BY <1>1, <1>2, <2>1, <3>1, <3>2, SumAssumption
  <2> QED BY <2>2, <2>3
<1>5. CASE TxStart
  BY <1>4, <1>5 DEF TxStart
<1>6. CASE TxStartOwn
  BY <1>4, <1>6 DEF TxStartOwn
<1>7. CASE TxSet
  <2>1. PICK t \in Times : /\ \A s \in States : t[s] - src.t[s] \in 0 .. 1
                           /\ src' = [src EXCEPT !.t = t]
    BY <1>7 DEF TxSet
  <2>2. hist' = hist \cup {src'} /\ src' = [t |-> t, q |-> src.q]
    BY <1>1, <1>7, <2>1 DEF TxSet, Clocks
  <2>3. CASE t = src.t
    BY <1>1, <1>3, <2>2, <2>3 DEF Clocks
  <2>4. CASE t # src.t
    <3>1. Before(src.t, t)
      BY <1>1, <2>1 DEF Times
    <3>2. Sum(src.t) < Sum(t) /\ Sum(src.t) \in Nat /\ Sum(t) \in Nat
      BY <1>1, <2>4, <3>1, SumAssumption
    <3>3. src' \in Clocks /\ Weight(src') > Weight(src)
      BY <1>1, <2>2, <3>2 DEF Clocks, Weight
    <3> QED BY <1>2, <2>2, <3>3
  <2> QED BY <2>3, <2>4
<1>8. CASE TransitionEnd
  BY <1>8 DEF TransitionEnd, SourceInv
<1> QED BY <1>5, <1>6, <1>7, <1>8 DEF Source

LEMMA KindsOfMessages ==
  ASSUME NEW H, NEW m \in Messages(H)
  PROVE  /\ m.kind = "update" => m \in Updates(H)
         /\ m.kind = "hello" => m.clock \in H
         /\ m.kind = "mutation" => m.update \in Updates(H) /\ m.own \in Data(H)
         /\ m.kind = "sync" => m.clock \in Clocks
         /\ m.kind \in {"update", "hello", "handshake", "mutation", "sync"}
<1>1. ASSUME m \in Updates(H) PROVE m.kind = "update"
  BY <1>1 DEF Updates, CalcUpdate
<1> QED BY <1>1 DEF Messages

\* clockUpdate leaves a clock of the source, or an excuse.
LEMMA AcceptedShown ==
  ASSUME SourceInv, Snapshot, NEW u \in Updates(hist), Matches(u), Updated(u), odd' = {}
  PROVE  net' \in hist
<1>1. odd = {} /\ Regular(u) /\ Near(net, u.prev)
  BY DEF Updated
<1>2. PICK data \in Data(hist), prev \in Data(hist) : u = CalcUpdate(data, prev)
  BY DEF Updates
<1>3. u.data = data /\ u.prev = prev
  BY <1>2 DEF CalcUpdate
<1>4. net \in hist
  BY <1>1 DEF Snapshot
<1>5. ClockFromUpdate(u, net) = data
  BY <1>1, <1>2, <1>3, <1>4, AcceptedIsData DEF Matches, SourceInv
<1>6. data \in hist
  BY <1>1, <1>3, NoTimeIsNone DEF Regular, SourceInv
<1> QED BY <1>5, <1>6 DEF Updated

-----------------------------------------------------------------------------
(* The steps of the server and the client *)

LEMMA ServerStep ==
  ASSUME SourceInv, Derived, Server
  PROVE  Derived' /\ UNCHANGED <<source, net, odd>>
<1>1. UNCHANGED <<source, net, odd>>
  BY DEF Server, RemoteHello, RemoteHandshake, RemoteMutation, RemoteAddNS, NewMsgMutation,
         RemoteSync, RemoteSyncTick, Reply, PushClient, StoreLastPush, OnDisconnect, source
<1> SUFFICES Derived'
  BY <1>1
<1>2. hist' = hist /\ src \in hist /\ src \in Clocks /\ src.t \in Times /\ src.q \in Nat
  BY <1>1 DEF source, SourceInv, Clocks
<1>3. \A data, prev \in Data(hist) : CalcUpdate(data, prev) \in Updates(hist)
  BY DEF Updates
<1>4. NoData \in Data(hist) /\ Free = [by |-> "none", conn |-> 0, own |-> "none", data |-> NoData]
      /\ client.conn \in 0 .. MaxConns /\ 0 \in 0 .. MaxConns
  BY RpcSyncAssumption DEF Data, Free, Derived
<1>5. CASE RemoteHello
  <2>1. last' = src /\ outbox' = [kind |-> "hello", clock |-> src]
        /\ UNCHANGED <<latest, lock, wire, client>>
    BY <1>5 DEF RemoteHello
  <2>2. src \in Data(hist) /\ outbox' \in Messages(hist)
    BY <1>2, <2>1 DEF Data, Messages
  <2> QED BY <1>2, <2>1, <2>2 DEF Derived
<1>6. CASE RemoteHandshake
  <2>1. outbox' = [kind |-> "handshake"] /\ UNCHANGED <<latest, last, lock, wire, client>>
    BY <1>6 DEF RemoteHandshake, push
  <2>2. outbox' \in Messages(hist)
    BY <2>1 DEF Messages
  <2> QED BY <1>2, <2>1, <2>2 DEF Derived
<1>7. CASE RemoteMutation
  <2>1. request \in {"mutation", "addNS"}
        /\ lock' = [by |-> request, conn |-> client.conn, own |-> "queued", data |-> NoData]
        /\ UNCHANGED <<latest, last, outbox, wire, client>>
    BY <1>7 DEF RemoteMutation, Free, push
  <2> QED BY <1>2, <1>4, <2>1 DEF Derived
<1>15. CASE RemoteAddNS
  BY <1>2, <1>4, <1>15 DEF RemoteAddNS, Derived, push
<1>8. CASE NewMsgMutation
  <2>1. last' = latest /\ lock' = Free /\ UNCHANGED <<latest, wire, client>>
    BY <1>8 DEF NewMsgMutation
  <2>2. outbox' \in Messages(hist) \cup {None}
    <3>1. [kind |-> "mutation", update |-> CalcUpdate(latest, last), own |-> lock.data]
            \in Messages(hist)
      BY <1>3 DEF Derived, Messages
    <3> QED BY <1>8, <3>1 DEF NewMsgMutation
  <2> QED BY <1>2, <1>4, <2>1, <2>2 DEF Derived
<1>9. CASE RemoteSync
  <2>1. outbox' = [kind |-> "time", t |-> src.t] /\ UNCHANGED <<latest, last, lock, wire, client>>
    BY <1>9 DEF RemoteSync, push
  <2> QED BY <1>2, <2>1 DEF Derived
<1>10. CASE RemoteSyncTick
  <2>1. outbox.kind = "time" /\ outbox' = [kind |-> "sync", clock |-> Clock(outbox.t, src.q)]
        /\ UNCHANGED <<latest, last, lock, wire, client>>
    BY <1>10 DEF RemoteSyncTick, push
  <2>2. outbox.t \in Times
    BY <2>1, KindsOfMessages DEF Derived, None
  <2>3. outbox' \in Messages(hist)
    BY <1>2, <2>1, <2>2 DEF Messages, Clocks
  <2> QED BY <1>2, <2>1, <2>3 DEF Derived
<1>11. CASE Reply
  <2>1. outbox' = None /\ UNCHANGED <<latest, last, lock, client>>
    BY <1>11 DEF Reply, push
  <2>2. outbox \in Messages(hist)
    BY <1>11 DEF Reply, Derived, None
  <2>3. wire' \in Seq(Messages(hist))
    BY <1>11, <2>2 DEF Reply, Derived
  <2> QED BY <1>2, <2>1, <2>3 DEF Derived
<1>12. CASE PushClient
  <2>1. /\ UNCHANGED <<latest, last, outbox, client>>
        /\ lock' \in {lock, [by |-> "push", conn |-> 0, own |-> "none", data |-> latest]}
    BY <1>12 DEF PushClient, push, Free
  <2>2. CalcUpdate(latest, last) \in Messages(hist)
    BY <1>3 DEF Derived, Messages
  <2>3. wire' \in {wire, Append(wire, CalcUpdate(latest, last))}
    BY <1>12 DEF PushClient, PushUpdateLatest
  <2>4. wire' \in Seq(Messages(hist))
    BY <2>2, <2>3 DEF Derived
  <2> QED BY <1>2, <1>4, <2>1, <2>4 DEF Derived
<1>13. CASE StoreLastPush
  <2>1. last' = lock.data /\ lock' = Free /\ UNCHANGED <<latest, outbox, wire, client>>
    BY <1>13 DEF StoreLastPush
  <2> QED BY <1>2, <1>4, <2>1 DEF Derived
<1>14. CASE OnDisconnect
  BY <1>2, <1>14 DEF OnDisconnect, Derived, push
<1> QED BY <1>5, <1>6, <1>7, <1>8, <1>9, <1>10, <1>11, <1>12, <1>13, <1>14, <1>15 DEF Server

\* What the client's steps do to the clock it shows.
Shows == odd' = odd /\ net' \in hist \cup {net}
Errs == odd' \subseteq Excuses /\ odd \subseteq odd' /\ odd' # {}

LEMMA AcceptedStep ==
  ASSUME SourceInv, Snapshot, odd \subseteq Excuses,
         NEW u \in Updates(hist), Matches(u), Updated(u)
  PROVE  Shows \/ Errs
<1>1. odd \subseteq odd' /\ odd' \subseteq Excuses
  BY DEF Updated, Excuses
<1>2. CASE odd' = {}
  BY <1>1, <1>2, AcceptedShown DEF Shows
<1>3. CASE odd' # {}
  BY <1>1, <1>3 DEF Errs
<1> QED BY <1>2, <1>3

LEMMA ClientStep ==
  ASSUME SourceInv, Derived, Snapshot, odd \subseteq Excuses, Client
  PROVE  Derived' /\ UNCHANGED source /\ (Shows \/ Errs)
<1>1. UNCHANGED <<source, latest, last, lock>>
  BY DEF Client, Connect, Disconnect, ReceiveReply, RemoteUpdate, UpdateStatesSchema, Handshaken,
         HandshakeDoneState, UserCall, MutationReply, SyncReply, push
<1>2. hist' = hist /\ hist \subseteq Data(hist) /\ NoData \in Data(hist)
  BY <1>1 DEF source, Data
<1>3. ASSUME wire # <<>>
      PROVE  Head(wire) \in Messages(hist) /\ Tail(wire) \in Seq(Messages(hist))
  BY <1>3 DEF Derived
<1>4. ASSUME client.reply.kind # "none" PROVE client.reply \in Messages(hist)
  BY <1>4 DEF Derived, None
<1>5. CASE Connect
  <2>1. /\ client' = [client EXCEPT !.conn = client.conn + 1, !.at = "hello"]
        /\ client.conn < MaxConns /\ UNCHANGED <<outbox, wire, net, odd>>
    BY <1>5 DEF Connect
  <2>2. client.conn + 1 \in 0 .. MaxConns
    BY <2>1, RpcSyncAssumption DEF Derived
  <2> QED BY <1>1, <1>2, <2>1, <2>2 DEF Derived, Shows
<1>6. CASE Disconnect
  <2>1. /\ client' = [client EXCEPT !.at = "down", !.call = "none", !.reply = None,
                                    !.hello = NoData, !.own = NoData]
        /\ outbox' = None /\ UNCHANGED <<net, odd>>
    BY <1>6 DEF Disconnect
  <2>2. wire' \in Seq(Messages(hist))
    BY <1>6 DEF Disconnect
  <2>3. client' \in [conn : 0 .. MaxConns, at : {"down"}, call : {"none"}, calls : 0 .. MaxCalls,
                     reply : {None}, hello : Data(hist), own : Data(hist)]
    BY <1>2, <2>1 DEF Derived
  <2> QED BY <1>1, <1>2, <2>1, <2>2, <2>3 DEF Derived, Shows
<1>7. CASE ReceiveReply
  <2>1. /\ client' = [client EXCEPT !.reply = Head(wire)]
        /\ wire # <<>> /\ wire' = Tail(wire) /\ UNCHANGED <<outbox, net, odd>>
    BY <1>7 DEF ReceiveReply
  <2> QED BY <1>1, <1>2, <1>3, <2>1 DEF Derived, Shows
<1>8. CASE RemoteUpdate
  <2>1. /\ wire # <<>> /\ wire' = Tail(wire) /\ Head(wire).kind = "update"
        /\ UNCHANGED <<outbox, client>>
    BY <1>8 DEF RemoteUpdate
  <2>2. Head(wire) \in Updates(hist)
    BY <1>3, <2>1, KindsOfMessages
  <2>3. (Matches(Head(wire)) /\ Updated(Head(wire))) \/ UNCHANGED <<net, odd>>
    BY <1>8 DEF RemoteUpdate
  <2>4. Shows \/ Errs
    BY <2>2, <2>3, AcceptedStep DEF Shows
  <2> QED BY <1>1, <1>2, <1>3, <2>1, <2>4 DEF Derived
<1>9. CASE UpdateStatesSchema
  <2>1. /\ client.reply.kind = "hello" /\ net' = client.reply.clock
        /\ client' = [client EXCEPT !.at = "handshake", !.hello = client.reply.clock, !.reply = None]
        /\ UNCHANGED <<outbox, wire, odd>>
    BY <1>9 DEF UpdateStatesSchema
  <2>2. client.reply.clock \in hist
    BY <1>4, <2>1, KindsOfMessages
  <2> QED BY <1>1, <1>2, <2>1, <2>2 DEF Derived, Shows
<1>10. CASE Handshaken
  <2>1. /\ client.at = "handshake" /\ client' = [client EXCEPT !.at = "active", !.reply = None]
        /\ UNCHANGED <<outbox, wire, net, odd>>
    BY <1>10 DEF Handshaken
  <2> QED BY <1>1, <1>2, <2>1 DEF Derived, Shows
<1>11. CASE HandshakeDoneState
  <2>1. /\ client.at = "active" /\ client' = [client EXCEPT !.at = "done", !.hello = NoData]
        /\ net' = client.hello /\ UNCHANGED <<outbox, wire, odd>>
    BY <1>11 DEF HandshakeDoneState, ClockSet
  <2> QED BY <1>1, <1>2, <2>1 DEF Derived, Shows
<1>12. CASE UserCall
  <2>1. PICK kind \in {"none", "mutation", "sync"} :
          client' = [client EXCEPT !.call = kind, !.calls = client.calls + 1]
    BY <1>12 DEF UserCall
  <2>2. client.calls < MaxCalls /\ UNCHANGED <<outbox, wire, net, odd>>
    BY <1>12 DEF UserCall
  <2>3. client.calls + 1 \in 0 .. MaxCalls
    BY <2>2, RpcSyncAssumption DEF Derived
  <2> QED BY <1>1, <1>2, <2>1, <2>2, <2>3 DEF Derived, Shows
<1>13. CASE MutationReply
  <2>1. client.reply.kind = "mutation" /\ UNCHANGED <<outbox, wire>>
    BY <1>13 DEF MutationReply
  <2>2. client.reply.update \in Updates(hist) /\ client.reply.own \in Data(hist)
    BY <1>4, <2>1, KindsOfMessages
  <2>3. \/ client' = [client EXCEPT !.call = "none", !.reply = None]
        \/ client' = [client EXCEPT !.call = "resync", !.reply = None, !.own = client.reply.own]
    BY <1>13 DEF MutationReply
  <2>4. \/ Matches(client.reply.update) /\ Updated(client.reply.update)
        \/ UNCHANGED <<net, odd>>
    BY <1>13 DEF MutationReply
  <2>5. Shows \/ Errs
    BY <2>2, <2>4, AcceptedStep DEF Shows
  <2>6. client' \in [conn : 0 .. MaxConns, at : {"down", "hello", "handshake", "active", "done"},
                    call : {"none", "mutation", "sync", "resync"}, calls : 0 .. MaxCalls,
                    reply : Messages(hist) \cup {None}, hello : Data(hist), own : Data(hist)]
    BY <2>2, <2>3 DEF Derived
  <2>7. client'.at = client.at /\ client'.hello = client.hello
    BY <2>3 DEF Derived
  <2>8. Derived'
    BY <1>1, <1>2, <2>1, <2>6, <2>7 DEF Derived
  <2> QED BY <1>1, <2>5, <2>8
<1>14. CASE SyncReply
  <2>1. /\ client' = [client EXCEPT !.call = "none", !.reply = None, !.own = NoData]
        /\ odd' = odd \cup (IF net' \in hist THEN {} ELSE {"torn"})
        /\ UNCHANGED <<outbox, wire>>
    BY <1>14 DEF SyncReply
  <2>2. Shows \/ Errs
    BY <2>1 DEF Shows, Errs, Excuses
  <2> QED BY <1>1, <1>2, <2>1, <2>2 DEF Derived
<1> QED BY <1>5, <1>6, <1>7, <1>8, <1>9, <1>10, <1>11, <1>12, <1>13, <1>14 DEF Client

-----------------------------------------------------------------------------
(* Theorems *)

LEMMA SourceKeepsDerived ==
  ASSUME SourceInv, Derived, Source PROVE Derived' /\ UNCHANGED <<net, odd>>
<1>1. UNCHANGED <<net, odd, last, outbox, wire, client>> /\ hist \subseteq hist'
  BY SourceStep DEF Source, TxStart, TxStartOwn, TxSet, TransitionEnd, Started, push
<1>2. Data(hist) \subseteq Data(hist') /\ Messages(hist) \subseteq Messages(hist')
  BY <1>1, MoreMessages
<1>3. src \in Data(hist) /\ lock \in [by : {"none", "mutation", "addNS", "push"}, conn : 0 .. MaxConns,
               own : {"none", "queued", "running", "ran"}, data : Data(hist)]
  BY DEF Data, SourceInv, Derived
<1>4. latest' \in Data(hist)
  BY <1>3 DEF Source, TxStart, TxStartOwn, TxSet, TransitionEnd, push, Derived
<1>5. lock' \in [by : {"none", "mutation", "addNS", "push"}, conn : 0 .. MaxConns,
                 own : {"none", "queued", "running", "ran"}, data : Data(hist)]
  <2>1. CASE TxStart
    BY <1>3, <2>1 DEF TxStart
  <2>2. CASE TxStartOwn
    BY <1>3, <2>2 DEF TxStartOwn
  <2>3. CASE TxSet
    BY <1>3, <2>3 DEF TxSet
  <2>4. CASE TransitionEnd
    BY <1>3, <2>4 DEF TransitionEnd
  <2> QED BY <2>1, <2>2, <2>3, <2>4 DEF Source
<1>6. wire' \in Seq(Messages(hist'))
  BY <1>1, <1>2 DEF Derived
<1> QED BY <1>1, <1>2, <1>4, <1>5, <1>6 DEF Derived

LEMMA SyncInit == Init => SyncInv
<1> SUFFICES ASSUME Init PROVE SyncInv
  OBVIOUS
<1>1. src = [t |-> Zero, q |-> 1] /\ hist = {src} /\ net = src /\ odd = {}
  BY DEF Init
<1>2. Zero \in Times /\ src \in Clocks
  BY <1>1, RpcSyncAssumption DEF Zero, Times, Clocks
<1>3. SourceInv
  BY <1>1, <1>2, WeightNat DEF SourceInv, Ordered
<1>4. wire \in Seq(Messages(hist))
  BY DEF Init
<1>5. Derived
  BY <1>4, RpcSyncAssumption DEF Init, Derived, Data, Free, NoData
<1> QED BY <1>1, <1>3, <1>5 DEF SyncInv, Snapshot

LEMMA SyncStep ==
  ASSUME SyncInv, [Next]_vars PROVE SyncInv'
<1> USE DEF SyncInv
<1>1. CASE Source
  BY <1>1, SourceStep, SourceKeepsDerived DEF Snapshot
<1>2. CASE Server
  <2>1. Derived' /\ UNCHANGED <<src, hist, net, odd>>
    BY <1>2, ServerStep DEF source
  <2> QED BY <2>1 DEF SourceInv, Snapshot
<1>3. CASE Client
  <2>1. Derived' /\ UNCHANGED <<src, hist>> /\ (Shows \/ Errs)
    BY <1>3, ClientStep DEF source
  <2> QED BY <2>1 DEF SourceInv, Snapshot, Shows, Errs
<1>4. CASE UNCHANGED vars
  <2>1. UNCHANGED <<src, hist, net, odd, latest, last, lock, outbox, wire, client>>
    BY <1>4 DEF vars, source, push
  <2> QED BY <2>1 DEF SourceInv, Derived, Snapshot
<1> QED BY <1>1, <1>2, <1>3, <1>4 DEF Next

\* Whatever is lost or overtaken, a NetworkMachine shows a clock that its source has had
\* (RemoteUpdate, clientNetMachConn.Call, Sync and the handshake), unless a checksum
\* wrapped around, the difference was irregular, or a Sync was torn.
THEOREM AlwaysSnapshot == Spec => []Snapshot
<1>1. SyncInv => Snapshot
  BY DEF SyncInv
<1> QED BY <1>1, SyncInit, SyncStep, PTL DEF Spec

\* All that the server keeps and sends is made from clocks of the source.
THEOREM AlwaysDerived == Spec => []Derived
<1>1. SyncInv => Derived
  BY DEF SyncInv
<1> QED BY <1>1, SyncInit, SyncStep, PTL DEF Spec

\* aRPC implements Replica.
THEOREM Refinement == Spec => ShowsPast
<1>1. Init => Abstract!Init
  <2> SUFFICES ASSUME Init PROVE Abstract!Init
    OBVIOUS
  <2>1. SyncInv /\ odd = {}
    BY SyncInit DEF Init
  <2> QED BY <2>1 DEF Abstract!Init, SyncInv, SourceInv, Snapshot
<1>2. SyncInv /\ SyncInv' /\ [Next]_vars => [Abstract!Next]_(Abstract!replica)
  <2> SUFFICES ASSUME SyncInv, SyncInv', [Next]_vars PROVE [Abstract!Next]_(Abstract!replica)
    OBVIOUS
  <2> USE DEF SyncInv
  <2>1. CASE Source
    <3>1. UNCHANGED <<net, odd>> /\ hist \subseteq hist' /\ hist' \in SUBSET Clocks
      BY <2>1, SourceStep, SourceKeepsDerived DEF SourceInv
    <3> QED BY <3>1 DEF Abstract!Next, Abstract!Advance
  <2>2. CASE Server
    BY <2>2, ServerStep DEF source, Abstract!replica
  <2>3. CASE Client
    <3>1. hist' = hist /\ (Shows \/ Errs)
      BY <2>3, ClientStep DEF source
    <3> QED BY <3>1 DEF Shows, Errs, Abstract!Next, Abstract!Show, Abstract!Err, Abstract!replica
  <2>4. CASE UNCHANGED vars
    BY <2>4 DEF vars, source, Abstract!replica
  <2> QED BY <2>1, <2>2, <2>3, <2>4 DEF Next
<1> QED BY <1>1, <1>2, SyncInit, SyncStep, PTL DEF Spec, ShowsPast, Abstract!Spec

-----------------------------------------------------------------------------
(* Calls and their replies *)

\* The client c waits for a reply of this kind.
Awaits(c, kind) ==
  \/ c.at \in {"hello", "handshake"} /\ kind = c.at
  \/ c.at = "done" /\ c.call = "mutation" /\ kind = "mutation"
  \/ c.at = "done" /\ c.call \in {"sync", "resync"} /\ kind = "sync"

\* RemoteMutation is going to reply.
Serving == lock.by = "mutation" /\ Open(lock.conn)

\* There are only updates in w.
Quiet(w) == \A i \in 1 .. Len(w) : w[i].kind = "update"

Silent == outbox = None /\ client.reply = None /\ Quiet(wire)

\* A call is in one place at a time: requested, served, replied or received.
OneCall ==
  /\ request \notin {"none", "addNS"} => Awaits(client, request) /\ ~Serving /\ Silent
  /\ Serving => Awaits(client, "mutation") /\ Silent
  /\ outbox # None =>
       /\ Awaits(client, IF outbox.kind = "time" THEN "sync" ELSE outbox.kind)
       /\ client.reply = None /\ Quiet(wire)
  /\ \A i \in 1 .. Len(wire) : wire[i].kind # "update" =>
       /\ Awaits(client, wire[i].kind) /\ client.reply = None
       /\ \A j \in 1 .. Len(wire) : wire[j].kind # "update" => j = i
  /\ client.reply # None => Awaits(client, client.reply.kind)
  /\ lock.conn <= client.conn

\* Nothing is sent, and no mutation is taken, before sourceTracer is active.
Untraced ==
  lock = Free /\ Silent /\ server.client = 0 /\ client.at \in {"down", "hello"}

Traced ==
  /\ server \in [id : Nat, client : Nat, tracing : BOOLEAN, connected : BOOLEAN, done : BOOLEAN]
  /\ request = "addNS" => client.at = "done"
  /\ server.tracing \/ Untraced

\* The steps that neither call nor reply.
LEMMA OneCallKept ==
  ASSUME OneCall, UNCHANGED <<request, outbox, wire, client>>, Serving' => Serving,
         lock'.conn \in {0, lock.conn}, lock.conn \in Nat, client.conn \in Nat
  PROVE  OneCall'
BY DEF OneCall, Awaits, Silent, Quiet

\* An update that joins the wire is not a reply.
LEMMA QuietAppend ==
  ASSUME NEW S, NEW w \in Seq(S), NEW m
  PROVE  /\ Len(Append(w, m)) = Len(w) + 1 /\ Append(w, m)[Len(w) + 1] = m
         /\ \A i \in 1 .. Len(w) : Append(w, m)[i] = w[i]
         /\ 1 .. Len(w) + 1 = (1 .. Len(w)) \cup {Len(w) + 1}
         /\ Len(w) + 1 \notin 1 .. Len(w)
OBVIOUS

LEMMA QuietTail ==
  ASSUME NEW S, NEW w \in Seq(S), w # <<>>
  PROVE  /\ 1 \in 1 .. Len(w) /\ w[1] = Head(w)
         /\ \A i \in 1 .. Len(Tail(w)) : i + 1 \in 1 .. Len(w) /\ i + 1 # 1 /\ Tail(w)[i] = w[i + 1]
         /\ \A i, j \in 1 .. Len(Tail(w)) : i + 1 = j + 1 => i = j
OBVIOUS

LEMMA SourceOneCall ==
  ASSUME Derived, OneCall, Source
  PROVE  OneCall'
<1>1. /\ lock'.by = lock.by /\ lock'.conn = lock.conn
      /\ UNCHANGED <<request, outbox, wire, client, closed>>
  <2>1. CASE TxStart
    BY <2>1 DEF TxStart, conns
  <2>2. CASE TxStartOwn
    BY <2>2 DEF TxStartOwn, Derived, conns
  <2>3. CASE TxSet
    BY <2>3 DEF TxSet, conns
  <2>4. CASE TransitionEnd
    BY <2>4 DEF TransitionEnd, Derived, conns
  <2> QED BY <2>1, <2>2, <2>3, <2>4 DEF Source
<1>2. Serving' => Serving
  BY <1>1 DEF Serving, Open
<1>3. lock.conn \in Nat /\ client.conn \in Nat
  BY RpcSyncAssumption DEF Derived
<1> QED BY <1>1, <1>2, <1>3, OneCallKept

LEMMA ServerOneCall ==
  ASSUME Derived, OneCall, Server
  PROVE  OneCall'
<1>1. client' = client /\ closed \subseteq closed'
  BY DEF Server, RemoteHello, RemoteHandshake, RemoteMutation, RemoteAddNS, NewMsgMutation,
         RemoteSync, RemoteSyncTick, Reply, PushClient, StoreLastPush, OnDisconnect,
         HandshakeDoneEnd, conns
<1>2. lock.conn \in Nat /\ client.conn \in Nat /\ wire \in Seq(Messages(hist))
  BY RpcSyncAssumption DEF Derived
<1>4. ASSUME lock' = lock PROVE (Serving' => Serving) /\ lock'.conn <= client'.conn
  BY <1>1, <1>4 DEF Serving, Open, OneCall
<1>5. ASSUME lock' = Free \/ lock' = [by |-> "push", conn |-> 0, own |-> "none", data |-> latest]
      PROVE  ~Serving' /\ lock'.conn = 0 /\ lock'.conn <= client'.conn
  BY <1>1, <1>2, <1>5 DEF Serving, Free
\* A request is answered at once, with the outbox.
<1>6. ASSUME NEW kind \in {"hello", "handshake", "sync"}, request = kind, request' = "none",
             lock' = lock, wire' = wire, outbox' # None,
             outbox'.kind = kind \/ (kind = "sync" /\ outbox'.kind = "time")
      PROVE  OneCall'
  <2>1. Awaits(client, kind) /\ ~Serving /\ Silent
    BY <1>6 DEF OneCall
  <2>2. Awaits(client, IF outbox'.kind = "time" THEN "sync" ELSE outbox'.kind)
    BY <1>6, <2>1
  <2>3. ~Serving' /\ lock'.conn <= client'.conn
    BY <1>4, <1>6, <2>1
  <2> QED BY <1>1, <1>6, <2>1, <2>2, <2>3 DEF OneCall, Silent, Quiet
<1>7. CASE RemoteHello
  <2>1. outbox' = [kind |-> "hello", clock |-> src] /\ outbox'.kind = "hello"
        /\ request = "hello" /\ request' = "none" /\ UNCHANGED <<lock, wire>>
    BY <1>7 DEF RemoteHello
  <2> QED BY <1>6, <2>1 DEF None
<1>8. CASE RemoteHandshake
  <2>1. outbox' = [kind |-> "handshake"] /\ outbox'.kind = "handshake"
        /\ request = "handshake" /\ request' = "none" /\ UNCHANGED <<lock, wire>>
    BY <1>8 DEF RemoteHandshake
  <2> QED BY <1>6, <2>1 DEF None
<1>9. CASE RemoteMutation
  <2>1. /\ request \in {"mutation", "addNS"} /\ request' = "none" /\ UNCHANGED <<outbox, wire>>
        /\ lock'.by = request /\ lock'.conn = client.conn
    BY <1>9 DEF RemoteMutation, Free
  <2>2. Serving' => Awaits(client, "mutation") /\ Silent'
    BY <1>1, <2>1 DEF OneCall, Serving, Silent, Quiet
  <2> QED BY <1>1, <1>2, <2>1, <2>2 DEF OneCall, Quiet
<1>10. CASE RemoteAddNS \/ StoreLastPush
  <2>1. lock' = Free /\ UNCHANGED <<request, outbox, wire>>
    BY <1>10 DEF RemoteAddNS, StoreLastPush
  <2> QED BY <1>1, <1>2, <1>5, <2>1, OneCallKept
<1>11. CASE NewMsgMutation
  <2>1. /\ lock.by = "mutation" /\ lock' = Free /\ UNCHANGED <<request, wire>>
        /\ IF Open(lock.conn) THEN outbox' # None /\ outbox'.kind = "mutation" ELSE outbox' = outbox
    BY <1>11 DEF NewMsgMutation, None
  <2>2. CASE Serving
    <3>1. Awaits(client, "mutation") /\ Silent /\ request \in {"none", "addNS"}
      BY <2>2 DEF OneCall
    <3> QED BY <1>1, <1>5, <2>1, <3>1 DEF OneCall, Silent, Quiet
  <2>3. CASE ~Serving
    <3>1. outbox' = outbox
      BY <2>1, <2>3 DEF Serving
    <3> QED BY <1>1, <1>2, <1>5, <2>1, <3>1, OneCallKept
  <2> QED BY <2>2, <2>3
<1>12. CASE RemoteSync
  <2>1. outbox' = [kind |-> "time", t |-> src.t] /\ outbox'.kind = "time"
        /\ request = "sync" /\ request' = "none" /\ UNCHANGED <<lock, wire>>
    BY <1>12 DEF RemoteSync
  <2> QED BY <1>6, <2>1 DEF None
<1>13. CASE RemoteSyncTick
  <2>1. /\ outbox.kind = "time" /\ outbox # None /\ UNCHANGED <<request, lock, wire>>
        /\ outbox'.kind = "sync" /\ outbox' # None
    BY <1>13 DEF RemoteSyncTick, None
  <2>2. Awaits(client, "sync") /\ client.reply = None /\ Quiet(wire) /\ request \in {"none", "addNS"}
        /\ ~Serving
    BY <2>1 DEF OneCall, Silent
  <2> QED BY <1>1, <1>4, <2>1, <2>2 DEF OneCall, Quiet
<1>14. CASE Reply
  <2>1. /\ outbox.kind \notin {"none", "time"} /\ outbox # None /\ outbox' = None
        /\ UNCHANGED <<request, lock>> /\ wire' \in {wire, Append(wire, outbox)}
    BY <1>14 DEF Reply, None
  <2>2. Awaits(client, outbox.kind) /\ client.reply = None /\ Quiet(wire) /\ request \in {"none", "addNS"}
        /\ ~Serving
    BY <2>1 DEF OneCall, Silent
  <2>3. \A i \in 1 .. Len(wire') : wire'[i].kind # "update" =>
          /\ Awaits(client, wire'[i].kind)
          /\ \A j \in 1 .. Len(wire') : wire'[j].kind # "update" => j = i
    <3>1. CASE wire' = wire
      BY <2>2, <3>1 DEF Quiet
    <3>2. CASE wire' = Append(wire, outbox)
      <4>1. \A i \in 1 .. Len(wire') : wire'[i].kind # "update" => i = Len(wire) + 1 /\ wire'[i] = outbox
        BY <1>2, <2>2, <3>2, QuietAppend DEF Quiet
      <4> QED BY <2>2, <4>1
    <3> QED BY <2>1, <3>1, <3>2
  <2> QED BY <1>1, <1>4, <2>1, <2>2, <2>3 DEF OneCall
<1>15. CASE PushClient
  <2> DEFINE u == CalcUpdate(latest, last)
  <2>1. /\ UNCHANGED <<request, outbox>> /\ wire' \in {wire, Append(wire, u)}
        /\ lock' = lock \/ lock' = [by |-> "push", conn |-> 0, own |-> "none", data |-> latest]
    BY <1>15 DEF PushClient, PushUpdateLatest, Free
  <2>2. u.kind = "update"
    BY DEF CalcUpdate
  <2> HIDE DEF u
  <2>3. \A i \in 1 .. Len(wire') : wire'[i].kind # "update" => i \in 1 .. Len(wire) /\ wire'[i] = wire[i]
    BY <1>2, <2>1, <2>2, QuietAppend
  <2>4. Quiet(wire) => Quiet(wire')
    BY <2>3 DEF Quiet
  <2>5. (Serving' => Serving) /\ lock'.conn <= client'.conn
    BY <1>4, <1>5, <2>1
  <2>6. Silent => Silent'
    BY <1>1, <2>1, <2>4 DEF Silent
  <2> QED BY <1>1, <2>1, <2>3, <2>4, <2>5, <2>6 DEF OneCall
<1>16. CASE OnDisconnect
  BY <1>1, <1>2, <1>4, <1>16, OneCallKept DEF OnDisconnect
<1> QED BY <1>7, <1>8, <1>9, <1>10, <1>11, <1>12, <1>13, <1>14, <1>15, <1>16 DEF Server

LEMMA ClientOneCall ==
  ASSUME Derived, OneCall, Client
  PROVE  OneCall'
<1>1. lock' = lock /\ closed \subseteq closed'
  BY DEF Client, Connect, Disconnect, ReceiveReply, RemoteUpdate, UpdateStatesSchema, Handshaken,
         HandshakeDoneState, UserCall, MutationReply, SyncReply, conns
<1>2. lock.conn \in Nat /\ client.conn \in Nat /\ wire \in Seq(Messages(hist))
  BY RpcSyncAssumption DEF Derived
<1>3. ASSUME client'.conn = client.conn, client'.at = client.at \/ client.at # "down"
      PROVE  (Serving' => Serving) /\ lock'.conn <= client'.conn
  BY <1>1, <1>3 DEF Serving, Open, OneCall
\* The call is nowhere else when its reply was received, or when there is no call.
<1>4. ASSUME client.reply # None \/ \A kind : ~Awaits(client, kind)
      PROVE  outbox = None /\ Quiet(wire) /\ request \in {"none", "addNS"} /\ ~Serving
  BY <1>4 DEF OneCall, Silent, Quiet
<1>5. ASSUME outbox' = outbox, wire' = wire, outbox = None, Quiet(wire), client'.reply = None,
             ~Serving', lock'.conn <= client'.conn,
             request' \in {"none", "addNS"} \/ Awaits(client', request')
      PROVE  OneCall'
  BY <1>5 DEF OneCall, Silent, Quiet
<1>6. CASE Connect
  <2>1. /\ client' = [client EXCEPT !.conn = client.conn + 1, !.at = "hello"] /\ client.at = "down"
        /\ request' = "hello" /\ UNCHANGED <<outbox, wire>>
    BY <1>6 DEF Connect
  <2>2. client'.conn = client.conn + 1 /\ client'.at = "hello" /\ client'.reply = client.reply
    BY <2>1 DEF Derived
  <2>3. \A kind : ~Awaits(client, kind)
    BY <2>1 DEF Awaits
  <2>4. client.reply = None
    BY <2>3 DEF OneCall
  <2>5. ~Serving' /\ lock'.conn <= client'.conn
    BY <1>1, <1>2, <2>2 DEF Serving, Open, OneCall
  <2>6. Awaits(client', request')
    BY <2>1, <2>2 DEF Awaits
  <2> QED BY <1>4, <1>5, <2>1, <2>2, <2>3, <2>4, <2>5, <2>6
<1>7. CASE Disconnect
  <2>1. /\ client' = [client EXCEPT !.at = "down", !.call = "none", !.reply = None,
                                    !.hello = NoData, !.own = NoData]
        /\ request' = "none" /\ outbox' = None /\ wire' = <<>>
    BY <1>7 DEF Disconnect
  <2>2. client'.conn = client.conn /\ client'.at = "down" /\ client'.reply = None
    BY <2>1 DEF Derived
  <2>3. ~Serving' /\ lock'.conn <= client'.conn
    BY <1>1, <2>2 DEF Serving, Open, OneCall
  <2> QED BY <2>1, <2>2, <2>3 DEF OneCall
<1>8. CASE ReceiveReply
  <2>1. /\ client' = [client EXCEPT !.reply = Head(wire)] /\ client.reply = None
        /\ wire # <<>> /\ Head(wire).kind # "update" /\ wire' = Tail(wire)
        /\ UNCHANGED <<request, outbox>>
    BY <1>8 DEF ReceiveReply
  <2>2. /\ client'.conn = client.conn /\ client'.at = client.at /\ client'.call = client.call
        /\ client'.reply = Head(wire)
    BY <2>1 DEF Derived
  <2>3. Awaits(client, Head(wire).kind) /\ \A j \in 1 .. Len(wire) : wire[j].kind # "update" => j = 1
    BY <1>2, <2>1, QuietTail DEF OneCall
  <2>4. Awaits(client', client'.reply.kind)
    BY <2>2, <2>3 DEF Awaits
  <2>5. Quiet(wire') /\ ~Quiet(wire)
    BY <1>2, <2>1, <2>3, QuietTail DEF Quiet
  <2>6. outbox = None /\ request \in {"none", "addNS"} /\ ~Serving
    BY <2>5 DEF OneCall, Silent
  <2> QED BY <1>3, <2>1, <2>2, <2>4, <2>5, <2>6 DEF OneCall, Quiet
<1>9. CASE RemoteUpdate
  <2>1. wire # <<>> /\ wire' = Tail(wire) /\ UNCHANGED <<request, outbox, client>>
    BY <1>9 DEF RemoteUpdate
  <2>2. \A i \in 1 .. Len(wire') : i + 1 \in 1 .. Len(wire) /\ wire'[i] = wire[i + 1]
    BY <1>2, <2>1, QuietTail
  <2>3. Quiet(wire) => Quiet(wire')
    BY <2>2 DEF Quiet
  <2>4. Silent => Silent'
    BY <2>1, <2>3 DEF Silent
  <2>5. \A i \in 1 .. Len(wire') : wire'[i].kind # "update" =>
          /\ Awaits(client, wire'[i].kind) /\ client.reply = None
          /\ \A j \in 1 .. Len(wire') : wire'[j].kind # "update" => j = i
    <3> SUFFICES ASSUME NEW i \in 1 .. Len(wire'), wire'[i].kind # "update"
                 PROVE  /\ Awaits(client, wire'[i].kind) /\ client.reply = None
                        /\ \A j \in 1 .. Len(wire') : wire'[j].kind # "update" => j = i
      OBVIOUS
    <3>1. /\ Awaits(client, wire[i + 1].kind) /\ client.reply = None
          /\ \A j \in 1 .. Len(wire') : wire[j + 1].kind # "update" => j + 1 = i + 1
      BY <2>2 DEF OneCall
    <3> QED BY <1>2, <2>1, <2>2, <3>1, QuietTail
  <2> QED BY <1>3, <2>1, <2>3, <2>4, <2>5 DEF OneCall
<1>10. CASE UpdateStatesSchema
  <2>1. /\ client.reply.kind = "hello" /\ request' = "handshake" /\ UNCHANGED <<outbox, wire>>
        /\ client' = [client EXCEPT !.at = "handshake", !.hello = client.reply.clock, !.reply = None]
        /\ client.at = "hello"
    BY <1>10 DEF UpdateStatesSchema
  <2>2. client'.conn = client.conn /\ client'.at = "handshake" /\ client'.reply = None
    BY <2>1 DEF Derived
  <2>3. client.reply # None /\ Awaits(client', request')
    BY <2>1, <2>2 DEF None, Awaits
  <2> QED BY <1>3, <1>4, <1>5, <2>1, <2>2, <2>3
<1>11. CASE Handshaken
  <2>1. /\ client.reply.kind = "handshake" /\ UNCHANGED <<request, outbox, wire>>
        /\ client' = [client EXCEPT !.at = "active", !.reply = None] /\ client.at = "handshake"
    BY <1>11 DEF Handshaken
  <2>2. client'.conn = client.conn /\ client'.reply = None /\ client.reply # None
    BY <2>1 DEF Derived, None
  <2> QED BY <1>3, <1>4, <1>5, <2>1, <2>2
<1>12. CASE HandshakeDoneState
  <2>1. /\ client.at = "active" /\ UNCHANGED <<request, outbox, wire>>
        /\ client' = [client EXCEPT !.at = "done", !.hello = NoData]
    BY <1>12 DEF HandshakeDoneState
  <2>2. \A kind : ~Awaits(client, kind)
    BY <2>1 DEF Awaits
  <2>3. client'.conn = client.conn /\ client'.reply = client.reply /\ client.reply = None
    BY <2>1, <2>2 DEF Derived, OneCall
  <2> QED BY <1>3, <1>4, <1>5, <2>1, <2>2, <2>3
<1>13. CASE UserCall
  <2>1. PICK kind \in {"mutation", "addNS", "sync"} :
          /\ client' = [client EXCEPT !.call = IF kind = "addNS" THEN "none" ELSE kind,
                                      !.calls = client.calls + 1]
          /\ request' = kind
    BY <1>13 DEF UserCall
  <2>2. client.at = "done" /\ client.call = "none" /\ UNCHANGED <<outbox, wire>>
    BY <1>13 DEF UserCall
  <2>3. \A k : ~Awaits(client, k)
    BY <2>2 DEF Awaits
  <2>4. /\ client'.conn = client.conn /\ client'.at = "done" /\ client'.reply = client.reply
        /\ client.reply = None /\ client'.call = IF kind = "addNS" THEN "none" ELSE kind
    BY <2>1, <2>2, <2>3 DEF Derived, OneCall
  <2>5. request' \in {"none", "addNS"} \/ Awaits(client', request')
    BY <2>1, <2>4 DEF Awaits
  <2> QED BY <1>3, <1>4, <1>5, <2>2, <2>3, <2>4, <2>5
<1>14. CASE MutationReply
  <2>1. /\ client.reply.kind = "mutation" /\ UNCHANGED <<outbox, wire>>
        /\ \/ client' = [client EXCEPT !.call = "none", !.reply = None] /\ request' = request
           \/ /\ client' = [client EXCEPT !.call = "resync", !.reply = None, !.own = client.reply.own]
              /\ request' = "sync"
    BY <1>14 DEF MutationReply
  <2>2. client'.conn = client.conn /\ client'.reply = None /\ client'.at = client.at
    BY <2>1 DEF Derived
  <2>3. client.reply # None /\ client.at = "done"
    BY <2>1 DEF None, OneCall, Awaits
  <2>4. request' = request \/ Awaits(client', request')
    <3>1. ASSUME client' = [client EXCEPT !.call = "resync", !.reply = None, !.own = client.reply.own],
                 request' = "sync"
          PROVE  Awaits(client', request')
      <4>1. client'.call = "resync"
        BY <3>1 DEF Derived
      <4> QED BY <2>2, <2>3, <3>1, <4>1 DEF Awaits
    <3> QED BY <2>1, <3>1
  <2> QED BY <1>3, <1>4, <1>5, <2>1, <2>2, <2>3, <2>4
<1>15. CASE SyncReply
  <2>1. /\ client.reply.kind = "sync" /\ UNCHANGED <<request, outbox, wire>>
        /\ client' = [client EXCEPT !.call = "none", !.reply = None, !.own = NoData]
    BY <1>15 DEF SyncReply
  <2>2. client.reply # None /\ client'.conn = client.conn /\ client'.reply = None
        /\ client'.at = client.at
    BY <2>1 DEF Derived, None
  <2> QED BY <1>3, <1>4, <1>5, <2>1, <2>2
<1> QED BY <1>6, <1>7, <1>8, <1>9, <1>10, <1>11, <1>12, <1>13, <1>14, <1>15 DEF Client

LEMMA TracedStep ==
  ASSUME Derived, OneCall, Traced, Next
  PROVE  Traced'
<1>1. client.conn \in Nat /\ wire \in Seq(Messages(hist))
  BY RpcSyncAssumption DEF Derived
\* What Untraced rules out.
<1>2. ASSUME Untraced
      PROVE  /\ ~RemoteHandshake /\ ~RemoteMutation /\ ~RemoteAddNS /\ ~NewMsgMutation
             /\ ~RemoteSync /\ ~RemoteSyncTick /\ ~Reply /\ ~PushClient /\ ~StoreLastPush
  <2>1. request \notin {"handshake", "mutation", "sync", "addNS"}
    BY <1>2 DEF Untraced, OneCall, Awaits, Traced
  <2>2. lock.by = "none" /\ outbox.kind = "none" /\ server.client = 0
    BY <1>2 DEF Untraced, Silent, Free, None
  <2> QED BY <2>1, <2>2 DEF RemoteHandshake, RemoteMutation, RemoteAddNS, NewMsgMutation,
             RemoteSync, RemoteSyncTick, Reply, PushClient, StoreLastPush
<1>3. ASSUME Untraced
      PROVE  /\ ~ReceiveReply /\ ~UpdateStatesSchema /\ ~Handshaken /\ ~HandshakeDoneState
             /\ ~UserCall /\ ~MutationReply /\ ~SyncReply /\ ~TxStartOwn
  <2>1. lock.own = "none" /\ client.reply.kind = "none" /\ client.at \in {"down", "hello"}
    BY <1>3 DEF Untraced, Silent, Free, None
  <2>2. ~ReceiveReply
    BY <1>1, <1>3, QuietTail DEF ReceiveReply, Untraced, Silent, Quiet
  <2> QED BY <2>1, <2>2 DEF UpdateStatesSchema, Handshaken, HandshakeDoneState, UserCall,
             MutationReply, SyncReply, TxStartOwn
<1>4. CASE Source
  <2>1. UNCHANGED <<server, request, client, outbox, wire>>
    BY <1>4 DEF Source, TxStart, TxStartOwn, TxSet, TransitionEnd
  <2>2. ASSUME Untraced PROVE lock' = Free
    <3>1. CASE TxStart \/ TxSet
      BY <2>2, <3>1 DEF TxStart, TxSet, Untraced
    <3>2. CASE TransitionEnd
      <4>1. lock = [by |-> "none", conn |-> 0, own |-> "none", data |-> NoData]
        BY <2>2 DEF Untraced, Free
      <4> QED BY <3>2, <4>1 DEF TransitionEnd, Free
    <3> QED BY <1>3, <1>4, <2>2, <3>1, <3>2 DEF Source
  <2>3. Untraced => Untraced'
    BY <2>1, <2>2 DEF Untraced, Silent
  <2> QED BY <2>1, <2>3 DEF Traced
<1>5. CASE RemoteHello
  <2>1. /\ server' = [server EXCEPT !.id = client.conn, !.done = FALSE, !.tracing = TRUE]
        /\ request' = "none"
    BY <1>5 DEF RemoteHello
  <2> QED BY <1>1, <2>1 DEF Traced
<1>6. CASE OnDisconnect
  <2>1. server' = [server EXCEPT !.connected = FALSE, !.done = FALSE]
        /\ UNCHANGED <<request, client, outbox, wire, lock>>
    BY <1>6 DEF OnDisconnect
  <2>2. Untraced => Untraced'
    BY <2>1 DEF Untraced, Silent, Traced
  <2> QED BY <2>1, <2>2 DEF Traced
<1>7. CASE RemoteHandshake
  <2>1. /\ server' = [server EXCEPT !.client = client.conn, !.done = server.connected]
        /\ request' = "none"
    BY <1>7 DEF RemoteHandshake
  <2> QED BY <1>1, <1>2, <1>7, <2>1 DEF Traced
<1>8. CASE PushClient
  <2>1. /\ server' = server \/ server' = [server EXCEPT !.connected = FALSE, !.done = FALSE]
        /\ UNCHANGED <<request, client>>
    BY <1>8 DEF PushClient
  <2> QED BY <1>2, <1>8, <2>1 DEF Traced
<1>9. CASE RemoteMutation \/ RemoteAddNS \/ NewMsgMutation \/ RemoteSync \/ RemoteSyncTick
           \/ Reply \/ StoreLastPush
  <2>1. UNCHANGED <<server, client>> /\ request' \in {request, "none"}
    BY <1>9 DEF RemoteMutation, RemoteAddNS, NewMsgMutation, RemoteSync, RemoteSyncTick, Reply,
                StoreLastPush
  <2> QED BY <1>2, <1>9, <2>1 DEF Traced
<1>10. CASE Connect
  <2>1. /\ client' = [client EXCEPT !.conn = client.conn + 1, !.at = "hello"]
        /\ server' = [server EXCEPT !.connected = TRUE]
        /\ request' = "hello" /\ UNCHANGED <<lock, outbox, wire>>
    BY <1>10 DEF Connect
  <2>2. client'.at = "hello" /\ client'.reply = client.reply
    BY <2>1 DEF Derived
  <2>3. Untraced => Untraced'
    BY <2>1, <2>2 DEF Untraced, Silent, Traced
  <2> QED BY <2>1, <2>3 DEF Traced
<1>11. CASE Disconnect
  <2>1. /\ client' = [client EXCEPT !.at = "down", !.call = "none", !.reply = None,
                                    !.hello = NoData, !.own = NoData]
        /\ request' = "none" /\ outbox' = None /\ wire' = <<>> /\ UNCHANGED <<lock, server>>
    BY <1>11 DEF Disconnect
  <2>2. client'.at = "down" /\ client'.reply = None
    BY <2>1 DEF Derived
  <2>3. Untraced => Untraced'
    BY <2>1, <2>2 DEF Untraced, Silent, Quiet
  <2> QED BY <2>1, <2>3 DEF Traced
<1>12. CASE RemoteUpdate
  <2>1. wire # <<>> /\ wire' = Tail(wire) /\ UNCHANGED <<request, outbox, client, lock, server>>
    BY <1>12 DEF RemoteUpdate
  <2>2. Quiet(wire) => Quiet(wire')
    BY <1>1, <2>1, QuietTail DEF Quiet
  <2>3. Untraced => Untraced'
    BY <2>1, <2>2 DEF Untraced, Silent
  <2> QED BY <2>1, <2>3 DEF Traced
<1>13. CASE ReceiveReply \/ MutationReply \/ SyncReply
  <2>1. server' = server /\ client'.at = client.at /\ request' \in {request, "sync"}
    BY <1>13 DEF ReceiveReply, MutationReply, SyncReply, Derived
  <2> QED BY <1>3, <1>13, <2>1 DEF Traced
<1>14. CASE UpdateStatesSchema \/ Handshaken \/ HandshakeDoneState
  <2>1. server' = server /\ client.at # "done" /\ request' \in {request, "handshake"}
    BY <1>14 DEF UpdateStatesSchema, Handshaken, HandshakeDoneState
  <2> QED BY <1>3, <1>14, <2>1 DEF Traced
<1>15. CASE UserCall
  <2>1. server' = server /\ client'.at = "done"
    BY <1>15 DEF UserCall, Derived
  <2> QED BY <1>3, <1>15, <2>1 DEF Traced
<1> QED BY <1>4, <1>5, <1>6, <1>7, <1>8, <1>9, <1>10, <1>11, <1>12, <1>13, <1>14, <1>15
        DEF Next, Server, Client

-----------------------------------------------------------------------------
(* Reading one's writes *)

\* The message m is as late as what the client c has written: the difference in the result
\* of a mutation covers the mutation, and the Sync after it was served after it.
Fulfils(c, m) ==
  /\ m.kind = "mutation" /\ m.own.t # NoTime
       => m.update.data.t # NoTime /\ Before(m.own.t, m.update.data.t)
  /\ c.call = "resync" /\ c.own.t # NoTime
       => (m.kind = "time" => Before(c.own.t, m.t)) /\ (m.kind = "sync" => Before(c.own.t, m.clock.t))

\* No clock of the source is later than the present one, and sourceTracer has seen the
\* mutation that is served.
InOrder ==
  /\ \A c \in hist : Before(c.t, src.t)
  /\ lock.by = "mutation" /\ lock.data.t # NoTime
       => latest.t # NoTime /\ Before(lock.data.t, latest.t)

Fulfilling ==
  /\ Fulfils(client, outbox) /\ Fulfils(client, client.reply)
  /\ \A i \in 1 .. Len(wire) : Fulfils(client, wire[i])

LEMMA InOrderStep ==
  ASSUME SourceInv, Derived, Traced, InOrder, Next
  PROVE  InOrder'
<1>1. src \in Clocks /\ src.t \in Times /\ src.q \in Nat /\ hist \subseteq Clocks /\ src \in hist
  BY DEF SourceInv, Clocks
<1>2. lock \in [by : {"none", "mutation", "addNS", "push"}, conn : 0 .. MaxConns,
                own : {"none", "queued", "running", "ran"}, data : Data(hist)]
  BY DEF Derived
<1>3. ASSUME UNCHANGED <<hist, src, latest>>,
             lock' = lock \/ lock'.by # "mutation" \/ lock'.data = NoData
      PROVE  InOrder'
  BY <1>3 DEF InOrder, NoData
<1>4. CASE Source
  <2>1. ASSUME NEW q, Started(q), UNCHANGED latest, lock'.by = lock.by, lock'.data = lock.data
        PROVE  InOrder'
    <3>1. src'.t = src.t /\ hist' = hist \cup {src'}
      BY <1>1, <2>1 DEF Started, Clocks
    <3>2. Before(src'.t, src.t)
      BY <1>1, <3>1 DEF Times
    <3> QED BY <2>1, <3>1, <3>2 DEF InOrder
  <2>2. CASE TxStart
    BY <2>1, <2>2 DEF TxStart, push
  <2>3. CASE TxStartOwn
    <3>1. lock'.by = lock.by /\ lock'.data = lock.data
      BY <1>2, <2>3 DEF TxStartOwn
    <3> QED BY <2>1, <2>3, <3>1 DEF TxStartOwn, push
  <2>4. CASE TxSet
    <3>1. PICK t \in Times : /\ \A s \in States : t[s] - src.t[s] \in 0 .. 1
                             /\ src' = [src EXCEPT !.t = t]
      BY <2>4 DEF TxSet
    <3>2. src'.t = t /\ hist' = hist \cup {src'} /\ UNCHANGED <<lock, latest>>
      BY <1>1, <2>4, <3>1 DEF TxSet, Clocks, push
    <3>3. ASSUME NEW c \in hist PROVE Before(c.t, t)
      <4>1. ASSUME NEW s \in States PROVE c.t[s] <= t[s]
        <5>1. c.t[s] \in 0 .. MaxTick /\ src.t[s] \in 0 .. MaxTick /\ t[s] \in 0 .. MaxTick
          BY <1>1, <3>3 DEF Clocks, Times
        <5>2. c.t[s] <= src.t[s] /\ t[s] - src.t[s] \in 0 .. 1
          BY <3>1, <3>3 DEF InOrder
        <5> QED BY <5>1, <5>2, RpcSyncAssumption
      <4> QED BY <4>1
    <3>4. Before(t, t)
      BY DEF Times
    <3> QED BY <3>2, <3>3, <3>4 DEF InOrder
  <2>5. CASE TransitionEnd
    <3>1. UNCHANGED <<hist, src>> /\ lock'.by = lock.by /\ lock'.data \in {src, lock.data}
      BY <1>2, <2>5 DEF TransitionEnd
    <3>2. ASSUME lock.by = "mutation" PROVE latest' = src
      <4>1. server.tracing
        BY <3>2 DEF Traced, Untraced, Free
      <4> QED BY <2>5, <4>1 DEF TransitionEnd
    <3>3. ASSUME lock'.data.t # NoTime PROVE Before(lock'.data.t, src.t)
      <4>1. lock'.data \in hist
        BY <1>1, <1>2, <3>1, <3>3, NoTimeIsNone
      <4> QED BY <4>1 DEF InOrder
    <3>4. src.t # NoTime \/ lock'.data.t = NoTime
      <4>1. CASE lock'.data.t # NoTime /\ src.t = NoTime
        <5>1. lock'.data \in hist
          BY <1>1, <1>2, <3>1, <4>1, NoTimeIsNone
        <5>2. lock'.data.t \in Times
          BY <1>1, <5>1 DEF Clocks
        <5>3. DOMAIN src.t = States /\ DOMAIN lock'.data.t = States
          BY <1>1, <5>2 DEF Times
        <5>4. States = {}
          BY <4>1, <5>3 DEF NoTime
        <5> QED BY <1>1, <4>1, <5>2, <5>4 DEF Times
      <4> QED BY <4>1
    <3> QED BY <3>1, <3>2, <3>3, <3>4 DEF InOrder
  <2> QED BY <1>4, <2>2, <2>3, <2>4, <2>5 DEF Source
<1>5. CASE Server
  <2>1. UNCHANGED <<hist, src, latest>>
    BY <1>5 DEF Server, RemoteHello, RemoteHandshake, RemoteMutation, RemoteAddNS, NewMsgMutation,
         RemoteSync, RemoteSyncTick, Reply, PushClient, StoreLastPush, OnDisconnect, source, push
  <2>2. lock' = lock \/ lock'.by # "mutation" \/ lock'.data = NoData
    <3>1. CASE RemoteMutation
      BY <3>1 DEF RemoteMutation, Free
    <3>2. CASE PushClient
      <4>1. lock' = lock \/ lock' = [by |-> "push", conn |-> 0, own |-> "none", data |-> latest]
        BY <3>2 DEF PushClient, Free
      <4> QED BY <4>1
    <3>3. CASE RemoteAddNS \/ NewMsgMutation \/ StoreLastPush
      BY <3>3 DEF RemoteAddNS, NewMsgMutation, StoreLastPush, Free
    <3> QED BY <1>5, <3>1, <3>2, <3>3 DEF Server, RemoteHello, RemoteHandshake, RemoteSync,
               RemoteSyncTick, Reply, OnDisconnect
  <2> QED BY <1>3, <2>1, <2>2
<1>6. CASE Client
  <2>1. UNCHANGED <<hist, src, latest, lock>>
    BY <1>6 DEF Client, Connect, Disconnect, ReceiveReply, RemoteUpdate, UpdateStatesSchema,
         Handshaken, HandshakeDoneState, UserCall, MutationReply, SyncReply, source, push
  <2> QED BY <1>3, <2>1
<1> QED BY <1>4, <1>5, <1>6 DEF Next

LEMMA FulfillingStep ==
  ASSUME SourceInv, Derived, OneCall, InOrder, Fulfilling, Next
  PROVE  Fulfilling'
<1>1. \A c : Fulfils(c, None)
  BY DEF Fulfils, None
<1>2. wire \in Seq(Messages(hist)) /\ hist \subseteq Clocks
  BY DEF Derived, SourceInv
\* What the client c has waited for is what d waits for.
<1>3. ASSUME NEW c, NEW d, d.call = "resync" => c.call = "resync" /\ c.own = d.own,
             NEW m, Fulfils(c, m)
      PROVE  Fulfils(d, m)
  BY <1>3 DEF Fulfils
<1>4. ASSUME client'.call = "resync" => client.call = "resync" /\ client.own = client'.own,
             outbox' \in {outbox, None} \/ Fulfils(client', outbox'),
             client'.reply \in {client.reply, None} \/ Fulfils(client', client'.reply),
             \A i \in 1 .. Len(wire') : Fulfils(client, wire'[i])
      PROVE  Fulfilling'
  <2>1. \A m : Fulfils(client, m) => Fulfils(client', m)
    BY <1>3, <1>4
  <2> HIDE DEF Fulfilling
  <2>2. Fulfils(client, outbox) /\ Fulfils(client, client.reply)
    BY DEF Fulfilling
  <2>3. Fulfils(client', outbox') /\ Fulfils(client', client'.reply)
    BY <1>1, <1>4, <2>1, <2>2
  <2> QED BY <1>4, <2>1, <2>3 DEF Fulfilling
<1>5. \A i \in 1 .. Len(wire) : Fulfils(client, wire[i])
  BY DEF Fulfilling
<1>6. ASSUME NEW m, Fulfils(client, m), wire' \in {wire, Append(wire, m)}
      PROVE  \A i \in 1 .. Len(wire') : Fulfils(client, wire'[i])
  BY <1>2, <1>5, <1>6, QuietAppend
<1>7. ASSUME wire # <<>>, wire' = Tail(wire)
      PROVE  Fulfils(client, Head(wire)) /\ \A i \in 1 .. Len(wire') : Fulfils(client, wire'[i])
  BY <1>2, <1>5, <1>7, QuietTail
<1>8. CASE Source
  <2>1. UNCHANGED <<client, outbox, wire>>
    BY <1>8 DEF Source, TxStart, TxStartOwn, TxSet, TransitionEnd
  <2> QED BY <2>1 DEF Fulfilling
<1>9. CASE RemoteHello \/ RemoteHandshake
  <2>1. UNCHANGED <<client, wire>> /\ outbox'.kind \in {"hello", "handshake"}
    BY <1>9 DEF RemoteHello, RemoteHandshake
  <2>2. Fulfils(client', outbox')
    BY <2>1 DEF Fulfils
  <2> QED BY <1>4, <1>5, <2>1, <2>2
<1>10. CASE RemoteMutation \/ RemoteAddNS \/ StoreLastPush \/ OnDisconnect
  <2>1. UNCHANGED <<client, outbox, wire>>
    BY <1>10 DEF RemoteMutation, RemoteAddNS, StoreLastPush, OnDisconnect
  <2> QED BY <2>1 DEF Fulfilling
\* The reply is calculated from dataLatest.
<1>11. CASE NewMsgMutation
  <2>1. UNCHANGED <<client, wire>> /\ lock.by = "mutation"
        /\ outbox' \in {None, [kind |-> "mutation", update |-> CalcUpdate(latest, last),
                               own |-> lock.data]}
    BY <1>11 DEF NewMsgMutation
  <2>2. CASE outbox' = None
    BY <1>4, <1>5, <2>1, <2>2
  <2>3. CASE outbox' # None
    <3>1. outbox'.kind = "mutation" /\ outbox'.own = lock.data /\ outbox'.update.data = latest
      BY <2>1, <2>3 DEF CalcUpdate
    <3>2. Fulfils(client', outbox')
      BY <2>1, <3>1 DEF Fulfils, InOrder
    <3> QED BY <1>4, <1>5, <2>1, <3>2
  <2> QED BY <2>2, <2>3
\* The time is that of the present.
<1>12. CASE RemoteSync
  <2>1. UNCHANGED <<client, wire>> /\ outbox' = [kind |-> "time", t |-> src.t]
    BY <1>12 DEF RemoteSync
  <2>2. client.own.t # NoTime => Before(client.own.t, src.t)
    <3>1. client.own \in Data(hist)
      BY DEF Derived
    <3> QED BY <1>2, <3>1, NoTimeIsNone DEF InOrder
  <2>3. Fulfils(client', outbox')
    BY <2>1, <2>2 DEF Fulfils
  <2> QED BY <1>4, <1>5, <2>1, <2>3
<1>13. CASE RemoteSyncTick
  <2>1. /\ UNCHANGED <<client, wire>> /\ outbox.kind = "time"
        /\ outbox'.kind = "sync" /\ outbox'.clock.t = outbox.t
    BY <1>13 DEF RemoteSyncTick
  <2>2. Fulfils(client', outbox')
    BY <2>1 DEF Fulfils, Fulfilling
  <2> QED BY <1>4, <1>5, <2>1, <2>2
<1>14. CASE Reply
  <2>1. client' = client /\ outbox' = None /\ wire' \in {wire, Append(wire, outbox)}
    BY <1>14 DEF Reply
  <2>2. Fulfils(client, outbox)
    BY DEF Fulfilling
  <2> QED BY <1>4, <1>6, <2>1, <2>2
<1>15. CASE PushClient
  <2> DEFINE u == CalcUpdate(latest, last)
  <2>1. UNCHANGED <<client, outbox>> /\ wire' \in {wire, Append(wire, u)}
    BY <1>15 DEF PushClient, PushUpdateLatest
  <2>2. Fulfils(client, u)
    BY DEF Fulfils, CalcUpdate
  <2> HIDE DEF u
  <2> QED BY <1>4, <1>6, <2>1, <2>2
<1>16. CASE Connect \/ Handshaken \/ HandshakeDoneState \/ UpdateStatesSchema
  <2>1. /\ UNCHANGED <<outbox, wire>> /\ client'.call = client.call /\ client'.own = client.own
        /\ client'.reply \in {client.reply, None}
    BY <1>16 DEF Connect, Handshaken, HandshakeDoneState, UpdateStatesSchema, Derived
  <2> QED BY <1>4, <1>5, <2>1
<1>17. CASE Disconnect
  <2>1. wire' = <<>> /\ outbox' = None /\ client'.call = "none" /\ client'.reply = None
    BY <1>17 DEF Disconnect, Derived
  <2> QED BY <1>4, <2>1
<1>18. CASE ReceiveReply
  <2>1. /\ wire # <<>> /\ wire' = Tail(wire) /\ outbox' = outbox
        /\ client'.call = client.call /\ client'.own = client.own /\ client'.reply = Head(wire)
    BY <1>18 DEF ReceiveReply, Derived
  <2>2. Fulfils(client', client'.reply)
    BY <1>3, <1>7, <2>1
  <2> QED BY <1>4, <1>7, <2>1, <2>2
<1>19. CASE RemoteUpdate
  <2>1. wire # <<>> /\ wire' = Tail(wire) /\ UNCHANGED <<outbox, client>>
    BY <1>19 DEF RemoteUpdate
  <2> QED BY <1>4, <1>7, <2>1
<1>20. CASE UserCall \/ SyncReply
  <2>1. /\ UNCHANGED <<outbox, wire>> /\ client'.call # "resync"
        /\ client'.reply \in {client.reply, None}
    BY <1>20 DEF UserCall, SyncReply, Derived
  <2> QED BY <1>4, <1>5, <2>1
\* Nothing that the Sync after a mutation could be mistaken for is on its way.
<1>21. CASE MutationReply
  <2>1. client.reply.kind = "mutation" /\ UNCHANGED <<outbox, wire>> /\ client'.reply = None
    BY <1>21 DEF MutationReply, Derived
  <2>2. outbox = None /\ Quiet(wire)
    BY <2>1 DEF OneCall, Quiet, None
  <2>3. \A i \in 1 .. Len(wire') : Fulfils(client', wire'[i])
    BY <2>1, <2>2 DEF Fulfils, Quiet
  <2> QED BY <1>1, <2>1, <2>2, <2>3 DEF Fulfilling
<1> QED BY <1>8, <1>9, <1>10, <1>11, <1>12, <1>13, <1>14, <1>15, <1>16, <1>17, <1>18, <1>19,
           <1>20, <1>21 DEF Next, Server, Client

CallInv == SyncInv /\ OneCall /\ Traced /\ InOrder /\ Fulfilling

LEMMA CallInit == Init => CallInv
<1> SUFFICES ASSUME Init PROVE CallInv
  OBVIOUS
<1>1. SyncInv
  BY SyncInit
<1>2. /\ wire = <<>> /\ outbox = None /\ client.reply = None /\ request = "none" /\ lock = Free
      /\ client.at = "down" /\ client.call = "none" /\ client.conn = 0
  BY DEF Init
<1>3. Quiet(wire) /\ Silent
  BY <1>2 DEF Quiet, Silent
<1>4. OneCall
  BY <1>2, <1>3 DEF OneCall, Serving, Free
<1>5. Traced
  BY <1>2, <1>3 DEF Init, Traced, Untraced
<1>6. Zero \in Times
  BY RpcSyncAssumption DEF Zero, Times
<1>7. InOrder
  <2>1. src.t = Zero /\ hist = {src}
    BY DEF Init, Clock
  <2>2. Before(Zero, Zero)
    BY DEF Before, Zero
  <2>3. lock.by = "none"
    BY <1>2 DEF Free
  <2> QED BY <2>1, <2>2, <2>3 DEF InOrder
<1>8. Fulfilling
  BY <1>2 DEF Fulfilling, Fulfils, None
<1> QED BY <1>1, <1>4, <1>5, <1>7, <1>8 DEF CallInv

LEMMA CallStep ==
  ASSUME CallInv, [Next]_vars PROVE CallInv'
<1> USE DEF CallInv
<1>1. SyncInv'
  BY SyncStep
<1>2. CASE Next
  <2>1. SourceInv /\ Derived
    BY DEF SyncInv
  <2>2. OneCall'
    BY <1>2, <2>1, SourceOneCall, ServerOneCall, ClientOneCall DEF Next
  <2> QED BY <1>1, <1>2, <2>1, <2>2, TracedStep, InOrderStep, FulfillingStep
<1>3. CASE UNCHANGED vars
  <2>1. UNCHANGED <<src, hist, latest, server, lock, closed, request, outbox, wire, client>>
    BY <1>3 DEF vars, source, push, conns
  <2>2. OneCall'
    BY <2>1 DEF OneCall, Serving, Open, Silent
  <2>3. Traced'
    BY <2>1 DEF Traced, Untraced, Silent
  <2> QED BY <1>1, <2>1, <2>2, <2>3 DEF InOrder, Fulfilling
<1> QED BY <1>2, <1>3

\* A call that ends with a reply leaves the NetworkMachine with what it was about.
LEMMA CallEnds ==
  ASSUME CallInv, Next, client.call \in {"mutation", "resync"}, client'.call = "none",
         client'.at = "done", odd' = {}
  PROVE  LET own == IF client.call = "mutation" THEN client.reply.own ELSE client.own
         IN  own.t # NoTime => Before(own.t, net'.t)
<1> USE DEF CallInv
<1>1. Derived /\ SourceInv /\ Snapshot
  BY DEF SyncInv
<1>2. MutationReply \/ SyncReply
  <2>1. ~Source /\ ~Server
    BY DEF Source, TxStart, TxStartOwn, TxSet, TransitionEnd, Server, RemoteHello,
       RemoteHandshake, RemoteMutation, RemoteAddNS, NewMsgMutation, RemoteSync, RemoteSyncTick,
       Reply, PushClient, StoreLastPush, OnDisconnect
  <2>2. ~Disconnect
    BY <1>1 DEF Disconnect, Derived
  <2>3. ~Connect /\ ~ReceiveReply /\ ~RemoteUpdate /\ ~UpdateStatesSchema /\ ~Handshaken
        /\ ~HandshakeDoneState /\ ~UserCall
    BY <1>1 DEF Connect, ReceiveReply, RemoteUpdate, UpdateStatesSchema, Handshaken,
       HandshakeDoneState, UserCall, Derived
  <2> QED BY <2>1, <2>2, <2>3 DEF Next, Client
<1>3. CASE MutationReply
  <2> DEFINE u == client.reply.update
  <2>1. client.reply.kind = "mutation" /\ client.reply # None
    BY <1>3 DEF MutationReply, None
  <2>2. client.call = "mutation"
    BY <2>1 DEF OneCall, Awaits
  <2>3. Matches(u) /\ Updated(u)
    BY <1>1, <1>3 DEF MutationReply, Derived
  <2>4. u \in Updates(hist)
    BY <1>1, <2>1, KindsOfMessages DEF Derived
  <2>5. PICK data \in Data(hist), prev \in Data(hist) : u = CalcUpdate(data, prev)
    BY <2>4 DEF Updates
  <2> HIDE DEF u
  <2>6. u.data = data /\ u.prev = prev
    BY <2>5 DEF CalcUpdate
  <2>7. odd = {} /\ Regular(u) /\ Near(net, prev)
    BY <2>3, <2>6 DEF Updated
  <2>8. net \in hist
    BY <1>1, <2>7 DEF Snapshot
  <2>9. net' = data
    BY <1>1, <2>3, <2>5, <2>7, <2>8, AcceptedIsData DEF Matches, Updated, SourceInv
  <2> QED BY <2>1, <2>2, <2>6, <2>9 DEF Fulfilling, Fulfils, u
<1>4. CASE SyncReply
  <2>1. client.reply.kind = "sync" /\ client.reply # None /\ net' = client.reply.clock
    BY <1>4 DEF SyncReply, None, ClockSet
  <2>2. client.call = "resync"
    BY <2>1 DEF OneCall, Awaits
  <2> QED BY <2>1, <2>2 DEF Fulfilling, Fulfils
<1> QED BY <1>2, <1>3, <1>4

\* Once NetworkMachine.Add, Remove or Set returns from a mutation that was executed, the
\* NetworkMachine shows it: either its difference was accepted, and sourceTracer had seen the
\* mutation when newMsgMutation calculated it, or the Sync that follows was served after it.
THEOREM WritesAreRead == Spec => ReadYourWrites
<1>1. CallInv /\ [Next]_vars =>
        [/\ client.call \in {"mutation", "resync"} /\ client'.call = "none" /\ client'.at = "done"
         /\ odd' = {}
         => LET own == IF client.call = "mutation" THEN client.reply.own ELSE client.own
            IN  own.t # NoTime => Before(own.t, net'.t)]_vars
  BY CallEnds
<1> QED BY <1>1, CallInit, CallStep, PTL DEF Spec, ReadYourWrites
=============================================================================
