------------------------ MODULE SubscriptionsProofs ------------------------
(***************************************************************************)
(* Proofs about subscriptions, for any states, requests and contexts.      *)
(***************************************************************************)
EXTENDS SubscriptionsFacts

LEMMA SubInit == Init => SubInv
<1> SUFFICES ASSUME Init PROVE SubInv
  OBVIOUS
<1>1. TypeOK
  BY FS_EmptySet DEF Init, TypeOK
<1>2. \A r : ~Contains(whenTimeSum, r)
  BY DEF Init, Contains
<1>3. Listing
  BY <1>2 DEF Init, Listing
<1>4. Moving /\ Waits /\ Sums /\ Gone
  BY DEF Init, Moving, Waits, Sums, Gone, Ascending
<1> QED BY <1>1, <1>3, <1>4 DEF SubInv

\* A binding waits on when nothing it is about changes.
LEMMA WaitsOn ==
  ASSUME NEW r, Waiting(r), bind'[r] = bind[r],
         UNCHANGED <<clock, phase, missed, activated, deactivated>>
  PROVE  Waiting(r)'
BY DEF Waiting, Told, TimePassed, Active, Complete, Counted, Hits

LEMMA NewChannelStep ==
  ASSUME SubInv, NEW r \in Requests, NewChannel(r)
  PROVE  SubInv'
<1>1. /\ InService /\ r \notin open /\ open' = open \cup {r}
      /\ byCtx' = (IF r.ctx = "nil" THEN byCtx ELSE byCtx \cup {r})
      /\ UNCHANGED <<clock, phase, before, activated, deactivated, expired, missed, skipped>>
  BY DEF NewChannel, Subscribe, tvars, hvars
<1>2. TypeOK /\ Moving /\ Listing /\ Waits /\ Sums /\ Gone
  BY DEF SubInv
<1>3. /\ clock' \in [States -> Nat] /\ before' \in [States -> Nat]
      /\ phase' \in {"idle", "ctx", "finals", "crashed", "disposed"}
      /\ activated' \subseteq States /\ deactivated' \subseteq States
      /\ byCtx' \subseteq Requests /\ open' \subseteq Requests
      /\ IsFiniteSet(byCtx') /\ IsFiniteSet(open')
  BY <1>1, <1>2, FS_AddElement, Zenon DEF TypeOK
<1>4. InService' /\ Moving' /\ Gone'
  BY <1>1, <1>2 DEF InService, Moving, Gone, Active
<1>5. QueryExpired => QueryExpired'
  BY <1>1 DEF QueryExpired
<1>6. \A x \in Requests : /\ x \in open' /\ x.ctx # "nil" => x \in byCtx'
                          /\ x \in byCtx' /\ x.op \in Lists \cup {"time"} => x \in open'
  BY <1>1, <1>2 DEF Listing
<1>7. ClockSum' = ClockSum /\ Active' = Active
  BY <1>1 DEF ClockSum, Active
<1>8. ASSUME \A x \in open : bind'[x] = bind[x], Waiting(r)'
      PROVE  Waits'
  BY <1>1, <1>2, <1>4, <1>8, WaitsOn DEF Waits
<1>9. CASE BindWhen(r)
  <2> DEFINE Hit == IF r.op = "when" THEN Active ELSE States \ Active
  <2>1. /\ r.op \in Lists /\ ~Met(r) /\ NewBinding(r, Active, Hit)
        /\ when' = [s \in States |-> IF s \in StatesOf(r) THEN when[s] \cup {r} ELSE when[s]]
        /\ UNCHANGED <<whenTime, whenTimeSum, whenQuery>>
    BY <1>9 DEF BindWhen
  <2>2. \A s \in StatesOf(r) : s \in Hit <=> (s \in Active <=> r.op # "whenNot")
    BY <2>1, RequestType DEF Lists
  <2>3. StatesOf(r) \subseteq Hit <=> Met(r)
    <3>1. CASE r.op = "when"
      BY <3>1 DEF Met
    <3>2. CASE r.op = "whenNot"
      BY <3>2, RequestType DEF Met
    <3> QED BY <2>1, <3>1, <3>2 DEF Lists
  <2> HIDE DEF Hit
  <2>4. /\ bind' = [x \in Requests |-> bind'[x]]
        /\ \A x \in Requests : x # r => bind'[x] = bind[x]
        /\ \A s \in StatesOf(r) : bind'[r].on[s] <=> s \in Active
        /\ Counted(r, bind'[r]) /\ ~Complete(r, bind'[r])
    BY <1>2, <2>1, <2>2, <2>3, NewBindingFacts
  <2>5. TypeOK'
    BY <1>2, <1>3, <2>1, <2>4 DEF TypeOK
  <2>6. Listing'
    BY <1>1, <1>2, <1>5, <1>6, <2>1, Zenon DEF Listing, TypeOK, Lists, Contains
  <2>7. Waiting(r)'
    BY <1>7, <2>1, <2>4 DEF Waiting, Lists
  <2>8. Waits'
    BY <1>1, <1>2, <1>8, <2>4, <2>7 DEF TypeOK
  <2>9. Sums'
    BY <1>1, <1>2, <1>7, <2>1 DEF Sums, Lists
  <2> QED BY <1>4, <2>5, <2>6, <2>8, <2>9 DEF SubInv
<1>10. CASE BindTime(r)
  <2> DEFINE passed == {s \in StatesOf(r) : TimePassed(r, s)}
  <2>1. /\ r.op = "time" /\ ~Met(r) /\ NewBinding(r, passed, passed)
        /\ whenTime' = [s \in States |-> IF s \in StatesOf(r) THEN whenTime[s] \cup {r} ELSE whenTime[s]]
        /\ UNCHANGED <<when, whenTimeSum, whenQuery>>
    BY <1>10 DEF BindTime
  <2>2. \A s \in StatesOf(r) : s \in passed <=> (s \in passed <=> r.op # "whenNot")
    BY <2>1
  <2>3. StatesOf(r) \subseteq passed <=> Met(r)
    BY <2>1 DEF Met
  <2>4. \A s \in StatesOf(r) : s \in passed <=> TimePassed(r, s)'
    BY <1>1 DEF TimePassed
  <2> HIDE DEF passed
  <2>5. /\ bind' = [x \in Requests |-> bind'[x]]
        /\ \A x \in Requests : x # r => bind'[x] = bind[x]
        /\ \A s \in StatesOf(r) : bind'[r].on[s] <=> s \in passed
        /\ Counted(r, bind'[r]) /\ ~Complete(r, bind'[r])
    BY <1>2, <2>1, <2>2, <2>3, NewBindingFacts
  <2>6. TypeOK'
    BY <1>2, <1>3, <2>1, <2>5 DEF TypeOK
  <2>7. Listing'
    BY <1>1, <1>2, <1>5, <1>6, <2>1 DEF Listing, TypeOK, Lists, Contains
  <2>8. Waiting(r)'
    BY <2>1, <2>4, <2>5 DEF Waiting, Lists
  <2>9. Waits'
    BY <1>1, <1>2, <1>8, <2>5, <2>8 DEF TypeOK
  <2>10. Sums'
    BY <1>1, <1>2, <1>7, <2>1 DEF Sums
  <2> QED BY <1>4, <2>6, <2>7, <2>9, <2>10 DEF SubInv
<1>11. CASE BindTimeSum(r)
  <2>1. /\ r.op = "sum" /\ ~Met(r) /\ whenTimeSum' = InsertSum(r)
        /\ UNCHANGED <<when, whenTime, whenQuery, bind>>
    BY <1>11 DEF BindTimeSum
  <2>2. /\ whenTimeSum' \in Seq(Requests) /\ Ascending(whenTimeSum')
        /\ \A x : Contains(whenTimeSum', x) <=> Contains(whenTimeSum, x) \/ x = r
    BY <1>2, <2>1, InsertSumFacts DEF TypeOK, Sums
  <2>3. TypeOK'
    BY <1>2, <1>3, <2>1, <2>2 DEF TypeOK
  <2>4. Listing'
    BY <1>1, <1>2, <1>5, <1>6, <2>1, <2>2 DEF Listing, TypeOK, Lists
  <2>5. Waiting(r)'
    BY <2>1 DEF Waiting, Lists
  <2>6. Waits'
    BY <1>8, <2>1, <2>5
  <2>7. ~(ClockSum >= r.sum)
    BY <2>1 DEF Met
  <2>8. Sums'
    BY <1>1, <1>2, <1>7, <2>2, <2>7 DEF Sums
  <2> QED BY <1>4, <2>3, <2>4, <2>6, <2>8 DEF SubInv
<1>12. CASE BindQuery(r)
  <2>1. /\ r.op = "query" /\ whenQuery' = whenQuery \cup {r}
        /\ UNCHANGED <<when, whenTime, whenTimeSum, bind>>
    BY <1>12 DEF BindQuery
  <2>2. TypeOK'
    BY <1>2, <1>3, <2>1 DEF TypeOK
  <2>3. Listing'
    BY <1>1, <1>2, <1>5, <1>6, <2>1 DEF Listing, TypeOK, Lists, Contains
  <2>4. Waiting(r)'
    BY <2>1 DEF Waiting, Lists
  <2>5. Waits'
    BY <1>8, <2>1, <2>4
  <2>6. Sums'
    BY <1>1, <1>2, <1>7, <2>1 DEF Sums
  <2> QED BY <1>4, <2>2, <2>3, <2>5, <2>6 DEF SubInv
<1> QED BY <1>9, <1>10, <1>11, <1>12 DEF NewChannel

\* Steps that move a transition on, or let contexts expire.
LEMMA Frame ==
  ASSUME SubInv, expired \subseteq expired',
         UNCHANGED <<clock, before, activated, deactivated, index, bind, open, missed, skipped>>,
         phase' = phase \/ (phase = "ctx" /\ phase' = "finals") \/ phase' = "crashed"
  PROVE  SubInv'
<1>1. TypeOK /\ Moving /\ Listing /\ Waits /\ Sums /\ Gone
  BY DEF SubInv
<1>2. UNCHANGED <<when, whenTime, whenTimeSum, whenQuery, byCtx>>
  BY DEF index
<1>3. TypeOK'
  BY <1>1, <1>2 DEF TypeOK
<1>4. Moving'
  BY <1>1 DEF Moving, Active
<1>5. InService' => InService
  BY DEF InService
<1>6. QueryExpired => QueryExpired'
  BY <1>2 DEF QueryExpired
<1>7. Listing'
  BY <1>1, <1>2, <1>5, <1>6 DEF Listing, Contains
<1>8. ASSUME NEW r \in open, InService' PROVE Waiting(r)'
  <2>1. Waiting(r)
    BY <1>1, <1>5, <1>8 DEF Waits
  <2>2. \A s : Told(s)' => Told(s)
    BY <1>8 DEF Told, InService
  <2>3. Active' = Active /\ \A s \in StatesOf(r) : TimePassed(r, s)' <=> TimePassed(r, s)
    BY DEF Active, TimePassed
  <2> QED BY <2>1, <2>2, <2>3 DEF Waiting, Complete, Counted, Hits
<1>9. Waits'
  BY <1>8 DEF Waits
<1>10. Sums'
  BY <1>1, <1>2 DEF Sums, Ascending, ClockSum
<1>11. Gone'
  BY <1>1 DEF Gone
<1> QED BY <1>3, <1>4, <1>7, <1>9, <1>10, <1>11 DEF SubInv

\* A transition sets states: bindings are yet to be told of the changes.
LEMMA SetActiveStatesStep ==
  ASSUME SubInv, NEW to \in SUBSET States, NEW M \in SUBSET Multi, SetActiveStates(to, M)
  PROVE  SubInv'
<1>1. TypeOK /\ Moving /\ Listing /\ Waits /\ Sums /\ Gone
  BY DEF SubInv
<1>2. /\ phase = "idle" /\ phase' = "ctx" /\ before' = clock /\ M \subseteq to \cap Active
      /\ activated' = (to \ Active) \cup M /\ deactivated' = Active \ to
      /\ clock' = [s \in States |-> CASE s \in M -> clock[s] + 2
                                      [] (s \in to) # (s \in Active) -> clock[s] + 1
                                      [] OTHER -> clock[s]]
      /\ UNCHANGED <<when, whenTime, whenTimeSum, whenQuery, byCtx, bind, expired, open, missed, skipped>>
  BY DEF SetActiveStates, index, hvars
<1>3. clock \in [States -> Nat] /\ Active \subseteq States
  BY <1>1 DEF TypeOK, Active
<1>4. ASSUME NEW s \in States
      PROVE  /\ clock'[s] \in Nat /\ clock'[s] >= clock[s]
             /\ clock'[s] # clock[s] <=> s \in activated' \cup deactivated'
             /\ s \in activated' => s \in Active'
             /\ s \in deactivated' => s \notin Active'
             /\ s \notin activated' \cup deactivated' => (s \in Active' <=> s \in Active)
  <2>0. s \in Active <=> clock[s] % 2 = 1
    BY DEF Active
  <2>1. s \in Active' <=> clock'[s] % 2 = 1
    BY DEF Active
  <2>2. CASE s \in M
    <3>1. s \in Active /\ s \in to /\ clock'[s] = clock[s] + 2
      BY <1>2, <2>2
    <3> QED BY <1>2, <1>3, <2>0, <2>1, <2>2, <3>1
  <2>3. CASE s \notin M /\ s \in to /\ s \notin Active
    <3>1. clock'[s] = clock[s] + 1
      BY <1>2, <2>3
    <3> QED BY <1>2, <1>3, <2>0, <2>1, <2>3, <3>1
  <2>4. CASE s \notin M /\ s \notin to /\ s \in Active
    <3>1. clock'[s] = clock[s] + 1
      BY <1>2, <2>4
    <3> QED BY <1>2, <1>3, <2>0, <2>1, <2>4, <3>1
  <2>5. CASE s \notin M /\ (s \in to <=> s \in Active)
    <3>1. clock'[s] = clock[s]
      BY <1>2, <2>5
    <3> QED BY <1>2, <1>3, <2>0, <2>1, <2>5, <3>1
  <2> QED BY <2>2, <2>3, <2>4, <2>5
<1>5. TypeOK'
  <2>1. clock' \in [States -> Nat]
    BY <1>2, <1>4
  <2>2. activated' \subseteq States /\ deactivated' \subseteq States
    BY <1>2, <1>3
  <2> QED BY <1>1, <1>2, <2>1, <2>2 DEF TypeOK
<1>6. Moving'
  BY <1>2, <1>4 DEF Moving
<1>7. InService /\ InService'
  BY <1>2 DEF InService
<1>8. Listing'
  BY <1>1, <1>2, <1>7 DEF Listing, Contains, QueryExpired
<1>9. ASSUME NEW r \in open PROVE Waiting(r)'
  <2>1. Waiting(r) /\ r \in Requests
    BY <1>1, <1>7 DEF Waits, TypeOK
  <2>2. \A s \in StatesOf(r) : s \in States /\ r.want[s] \in Nat
    BY <2>1, RequestType
  <2>3. \A s : Told(s)' => Told(s) /\ s \notin activated' \cup deactivated'
    BY <1>2 DEF Told
  <2>4. \A s \in StatesOf(r) : TimePassed(r, s) => TimePassed(r, s)'
    BY <1>3, <1>4, <2>2 DEF TimePassed
  <2>5. \A s \in StatesOf(r) : Told(s)' => clock'[s] = clock[s]
    BY <1>4, <2>2, <2>3
  <2>6. \A s \in StatesOf(r) : Told(s)' /\ TimePassed(r, s)' => TimePassed(r, s)
    BY <2>5 DEF TimePassed
  <2>7. \A s \in StatesOf(r) : Told(s)' => (s \in Active' <=> s \in Active)
    BY <1>4, <2>2, <2>3
  <2>8. bind' = bind
    BY <1>2
  <2> QED BY <2>1, <2>3, <2>4, <2>6, <2>7, <2>8 DEF Waiting, Complete, Counted, Hits
<1>10. Waits' /\ Sums' /\ Gone'
  BY <1>1, <1>2, <1>9 DEF Waits, Sums, Gone, Ascending
<1> QED BY <1>5, <1>6, <1>8, <1>10 DEF SubInv

\* A failed transition: bindings are told nothing, and have the states it changed to learn.
LEMMA FinalsFailedStep ==
  ASSUME SubInv, NEW n \in 0 .. 2, NEW Dropped \in SUBSET States, NEW Again \in SUBSET States,
         FinalsFailed(n, Dropped, Again)
  PROVE  SubInv'
<1>1. TypeOK /\ Moving /\ Listing /\ Waits /\ Sums /\ Gone
  BY DEF SubInv
<1>2. /\ phase = "finals" /\ phase' = "idle" /\ before' = clock' /\ skipped' = TRUE
      /\ activated' = {} /\ deactivated' = {} /\ missed' = missed \cup activated \cup deactivated
      /\ Dropped \subseteq activated /\ Again \subseteq activated \ Dropped
      /\ clock' = [s \in States |-> CASE s \in Dropped -> clock[s] + 1
                                      [] s \in Again   -> clock[s] + 2 * n
                                      [] OTHER -> clock[s]]
      /\ UNCHANGED <<when, whenTime, whenTimeSum, whenQuery, byCtx, bind, expired, open>>
  BY DEF FinalsFailed, CleanCache, index
<1>3. clock \in [States -> Nat]
  BY <1>1 DEF TypeOK
<1>4. ASSUME NEW s \in States
      PROVE  /\ clock'[s] \in Nat /\ clock'[s] >= clock[s]
             /\ s \notin activated => clock'[s] = clock[s]
  <2>1. CASE s \in Dropped
    <3>1. clock'[s] = clock[s] + 1
      BY <1>2, <2>1
    <3> QED BY <1>2, <1>3, <2>1, <3>1
  <2>2. CASE s \in Again
    <3>1. clock'[s] = clock[s] + 2 * n
      BY <1>2, <2>2
    <3> QED BY <1>2, <1>3, <2>2, <3>1
  <2>3. CASE s \notin Dropped \cup Again
    <3>1. clock'[s] = clock[s]
      BY <1>2, <2>3
    <3> QED BY <1>3, <3>1
  <2> QED BY <2>1, <2>2, <2>3
<1>5. TypeOK' /\ Moving'
  <2>1. clock' \in [States -> Nat]
    BY <1>2, <1>4
  <2> QED BY <1>1, <1>2, <2>1 DEF TypeOK, Moving
<1>6. InService /\ InService'
  BY <1>2 DEF InService
<1>7. Listing'
  BY <1>1, <1>2, <1>6 DEF Listing, Contains, QueryExpired
<1>8. ASSUME NEW r \in open PROVE Waiting(r)'
  <2>1. Waiting(r) /\ r \in Requests
    BY <1>1, <1>6 DEF Waits, TypeOK
  <2>2. \A s \in StatesOf(r) : s \in States /\ r.want[s] \in Nat
    BY <2>1, RequestType
  <2>3. \A s : Told(s)' => Told(s) /\ s \notin activated
    BY <1>2 DEF Told
  <2>4. \A s \in StatesOf(r) : TimePassed(r, s) => TimePassed(r, s)'
    BY <1>3, <1>4, <2>2 DEF TimePassed
  <2>5. \A s \in StatesOf(r) : Told(s)' => clock'[s] = clock[s]
    BY <1>4, <2>2, <2>3
  <2>6. \A s \in StatesOf(r) : Told(s)' /\ TimePassed(r, s)' => TimePassed(r, s)
    BY <2>5 DEF TimePassed
  <2>7. \A s \in StatesOf(r) : Told(s)' => (s \in Active' <=> s \in Active)
    BY <2>2, <2>5 DEF Active
  <2>8. bind' = bind
    BY <1>2
  <2> QED BY <2>1, <2>3, <2>4, <2>6, <2>7, <2>8 DEF Waiting, Complete, Counted, Hits
<1>9. Waits' /\ Sums' /\ Gone'
  BY <1>1, <1>2, <1>8 DEF Waits, Sums, Gone, Ascending
<1> QED BY <1>5, <1>7, <1>9 DEF SubInv

\* A disposed machine: whoever waits for states or times is in the list of one, as a
\* request without states has nothing to wait for.
LEMMA DisposeStep ==
  ASSUME SubInv, Dispose
  PROVE  SubInv'
<1>1. TypeOK /\ Moving /\ Listing /\ Waits /\ Sums /\ Gone
  BY DEF SubInv
<1>2. /\ phase = "idle" /\ phase' = "disposed"
      /\ open' = open \ (UNION {when[s] \cup whenTime[s] : s \in States})
      /\ UNCHANGED <<clock, before, activated, deactivated, when, whenTime, whenTimeSum, whenQuery,
                     byCtx, bind, expired, missed, skipped>>
  BY DEF Dispose, index, hvars
<1>3. TypeOK'
  <2>1. open' \subseteq Requests /\ IsFiniteSet(open')
    BY <1>1, <1>2, FS_Subset DEF TypeOK
  <2> QED BY <1>1, <1>2, <2>1 DEF TypeOK
<1>4. ASSUME NEW r \in open' PROVE r.op \in {"sum", "query"}
  <2>1. r \in open /\ r \in Requests
    BY <1>1, <1>2 DEF TypeOK
  <2>2. Waiting(r) /\ InService
    BY <1>1, <1>2, <2>1 DEF Waits, InService
  <2>3. SUFFICES ASSUME r.op \in Lists \cup {"time"} PROVE FALSE
    BY <2>1, RequestType DEF Lists
  <2>4. Hits(r, bind[r]) # StatesOf(r)
    BY <2>1, <2>2, <2>3, NotComplete DEF Waiting
  <2>5. PICK s \in StatesOf(r) : TRUE
    BY <2>4 DEF Hits
  <2>6. s \in States
    BY <2>1, RequestType
  <2>7. r \in when[s] \/ r \in whenTime[s]
    BY <1>1, <2>1, <2>2, <2>3, <2>6 DEF Listing
  <2> QED BY <1>2, <2>6, <2>7
<1>5. Moving' /\ Listing' /\ Waits' /\ Sums' /\ Gone'
  BY <1>1, <1>2, <1>4 DEF Moving, Listing, Waits, Sums, Ascending, Gone, InService
<1> QED BY <1>3, <1>5 DEF SubInv

-----------------------------------------------------------------------------
(* Processing subscriptions *)

\* What gets closed, for each kind of channel, and that it was open.
LEMMA ClosedFacts ==
  ASSUME SubInv, phase = "finals",
         NEW order \in SetToSeqs(ExpiredOf({"query"})), AfterQueryCtx(order).ok
  PROVE  /\ \A r \in Touched : r \in open /\ r \in Requests /\ r.op \in Lists
         /\ \A r \in Ticked : r \in open /\ r \in Requests /\ r.op = "time"
         /\ \A r \in DoneSum : r \in open /\ r \in Requests /\ r.op = "sum" /\ ClockSum >= r.sum
         /\ AfterQueryCtx(order).list \subseteq whenQuery
         /\ AfterQueryCtx(order).list \cap ExpiredOf({"query"}) = {}
         /\ ~QueryExpired => AfterQueryCtx(order).list = whenQuery /\ ExpiredOf({"query"}) = {}
         /\ \A r \in DoneQuery(order) : r \in Requests /\ r.op = "query"
<1>1. TypeOK /\ Listing /\ Sums /\ InService
  BY DEF SubInv, InService
<1>2. ASSUME NEW r \in Touched PROVE r \in open /\ r \in Requests /\ r.op \in Lists
  <2>1. PICK s \in activated \cup deactivated : r \in when[s]
    BY DEF Touched
  <2>2. s \in States /\ r \in Requests
    BY <1>1, <2>1 DEF TypeOK
  <2> QED BY <1>1, <2>1, <2>2 DEF Listing
<1>3. ASSUME NEW r \in Ticked PROVE r \in open /\ r \in Requests /\ r.op = "time"
  <2>1. PICK s \in States : r \in whenTime[s]
    BY DEF Ticked
  <2>2. r \in Requests
    BY <1>1, <2>1 DEF TypeOK
  <2> QED BY <1>1, <2>1, <2>2 DEF Listing
<1>4. ASSUME NEW r \in DoneSum
      PROVE  r \in open /\ r \in Requests /\ r.op = "sum" /\ ClockSum >= r.sum
  <2>1. r \in SumReached /\ r \notin ExpiredOf({"sum"})
    BY DEF DoneSum
  <2>2. r \in Requests /\ Contains(whenTimeSum, r)
    BY <1>1, <2>1, SumReachedFacts DEF Sums
  <2>3. ClockSum >= r.sum
    BY <1>1, <2>1, <2>2, SumReachedFacts DEF Sums
  <2> QED BY <1>1, <2>2, <2>3 DEF Listing
<1>5. IsFiniteSet(ExpiredOf({"query"}))
  BY <1>1, FS_Subset DEF ExpiredOf, TypeOK
<1>6. /\ order \in Seq(ExpiredOf({"query"})) /\ Len(order) = Cardinality(ExpiredOf({"query"}))
      /\ \A x \in ExpiredOf({"query"}) : \E i \in 1 .. Len(order) : order[i] = x
  BY <1>5, SetToSeqsFacts
<1>7. /\ AfterQueryCtx(order).list \subseteq whenQuery
      /\ \A i \in 1 .. Len(order) : order[i] \notin AfterQueryCtx(order).list
      /\ Len(order) = 0 => AfterQueryCtx(order).list = whenQuery
  BY <1>6, AfterQueryCtxFacts
<1>8. ~QueryExpired => ExpiredOf({"query"}) = {}
  BY DEF QueryExpired, ExpiredOf
<1>9. ExpiredOf({"query"}) = {} => Len(order) = 0
  BY <1>6, FS_EmptySet
<1>10. ASSUME NEW r \in DoneQuery(order) PROVE r \in Requests /\ r.op = "query"
  <2>1. r \in whenQuery /\ r \in Requests
    BY <1>1, <1>7 DEF DoneQuery, TypeOK
  <2> QED BY <1>1, <2>1 DEF Listing
<1>11. AfterQueryCtx(order).list \cap ExpiredOf({"query"}) = {}
  BY <1>6, <1>7
<1> QED BY <1>2, <1>3, <1>4, <1>7, <1>8, <1>9, <1>10, <1>11

\* After an accepted transition every binding has been told, those which are complete
\* by it are closed, and the others wait on.
LEMMA ProcessSubscriptionsStep ==
  ASSUME SubInv, NEW order \in SetToSeqs(ExpiredOf({"query"})), ProcessSubscriptions(order)
  PROVE  SubInv'
<1>1. TypeOK /\ Moving /\ Listing /\ Waits /\ Sums /\ Gone
  BY DEF SubInv
<1>2. PICK q : q = AfterQueryCtx(order).list
  OBVIOUS
<1>3. /\ phase = "finals" /\ phase' = "idle" /\ AfterQueryCtx(order).ok
      /\ clock' = clock /\ before' = clock' /\ activated' = {} /\ deactivated' = {}
      /\ missed' = missed \ (activated \cup deactivated) /\ expired' = expired
      /\ open' = open \ Closed(order)
      /\ byCtx' = byCtx \ (ExpiredOf(Lists) \cup ExpiredOf({"time"})
                            \cup DoneWhen \cup DoneTime \cup DoneSum \cup DoneQuery(order))
      /\ whenQuery' = q \ DoneQuery(order)
  BY <1>2 DEF ProcessSubscriptions, CleanCache
<1>4. /\ when' = GcLists(when, ExpiredOf(Lists) \cup DoneWhen)
      /\ whenTime' = GcLists(whenTime, ExpiredOf({"time"}) \cup DoneTime)
      /\ whenTimeSum' = SlicesWithout(whenTimeSum, ExpiredOf({"sum"}) \cup DoneSum)
      /\ bind' = [r \in Requests |-> CASE r \in Closed(order)           -> NoBinding
                                       [] r \in Touched \ Closed(order) -> Marked(r)
                                       [] r \in Ticked \ Closed(order)  -> Passed(r)
                                       [] OTHER -> bind[r]]
  BY DEF ProcessSubscriptions
<1>5. /\ \A r \in Touched : r \in open /\ r \in Requests /\ r.op \in Lists
      /\ \A r \in Ticked : r \in open /\ r \in Requests /\ r.op = "time"
      /\ \A r \in DoneSum : r \in open /\ r \in Requests /\ r.op = "sum" /\ ClockSum >= r.sum
      /\ q \subseteq whenQuery /\ q \cap ExpiredOf({"query"}) = {}
      /\ ~QueryExpired => q = whenQuery /\ ExpiredOf({"query"}) = {}
      /\ \A r \in DoneQuery(order) : r \in Requests /\ r.op = "query"
  BY <1>2, <1>3, ClosedFacts
<1>6. InService /\ InService'
  BY <1>3 DEF InService
<1>7. DoneWhen \subseteq Touched /\ DoneTime \subseteq Ticked /\ DoneQuery(order) \subseteq q
  BY <1>2 DEF DoneWhen, DoneTime, DoneQuery
<1>8. \A r : /\ r \in ExpiredOf(Lists) => r \in byCtx /\ r.op \in Lists
             /\ r \in ExpiredOf({"time"}) => r \in byCtx /\ r.op = "time"
             /\ r \in ExpiredOf({"sum"}) => r \in byCtx /\ r.op = "sum"
             /\ r \in ExpiredOf({"query"}) => r \in byCtx /\ r.op = "query"
  BY DEF ExpiredOf
<1>9. ASSUME NEW r \in Requests
      PROVE  /\ r.op \in Lists => (r \in Closed(order) <=> r \in ExpiredOf(Lists) \cup DoneWhen)
             /\ r.op = "time" => (r \in Closed(order) <=> r \in ExpiredOf({"time"}) \cup DoneTime)
             /\ r.op = "sum" => (r \in Closed(order) <=> r \in ExpiredOf({"sum"}) \cup DoneSum)
             /\ r.op = "query" => (r \in Closed(order) <=> r \in ExpiredOf({"query"}) \cup DoneQuery(order))
  BY <1>5, <1>7, <1>8 DEF Closed, Lists
<1>10. /\ when' \in [States -> SUBSET Requests]
       /\ \A s \in States : when'[s] = when[s] \ (ExpiredOf(Lists) \cup DoneWhen)
  <2>1. \A r \in ExpiredOf(Lists) \cup DoneWhen : r \in Requests /\ r \in open /\ r.op \in Lists
    BY <1>1, <1>5, <1>6, <1>7, <1>8 DEF TypeOK, Listing
  <2>2. /\ when \in [States -> SUBSET Requests] /\ IsFiniteSet(open)
        /\ \A s \in States : \A r \in Requests :
             r \in when[s] <=> r \in open /\ r.op \in Lists /\ s \in StatesOf(r)
    BY <1>1, <1>6 DEF TypeOK, Listing
  <2> QED BY <1>4, <2>1, <2>2, GcListsFacts, Zenon
<1>11. /\ whenTime' \in [States -> SUBSET Requests]
       /\ \A s \in States : whenTime'[s] = whenTime[s] \ (ExpiredOf({"time"}) \cup DoneTime)
  <2>1. \A r \in ExpiredOf({"time"}) \cup DoneTime : r \in Requests /\ r \in open /\ r.op \in {"time"}
    BY <1>1, <1>5, <1>6, <1>7, <1>8 DEF TypeOK, Listing
  <2>2. /\ whenTime \in [States -> SUBSET Requests] /\ IsFiniteSet(open)
        /\ \A s \in States : \A r \in Requests :
             r \in whenTime[s] <=> r \in open /\ r.op \in {"time"} /\ s \in StatesOf(r)
    BY <1>1, <1>6 DEF TypeOK, Listing
  <2> QED BY <1>4, <2>1, <2>2, GcListsFacts, Zenon
<1>12. /\ whenTimeSum' \in Seq(Requests) /\ Ascending(whenTimeSum')
       /\ \A r : Contains(whenTimeSum', r) <=>
                   Contains(whenTimeSum, r) /\ r \notin ExpiredOf({"sum"}) \cup DoneSum
  <2>1. whenTimeSum \in Seq(Requests) /\ Ascending(whenTimeSum) /\ \A r \in Requests : r.sum \in Nat
    BY <1>1, RequestType DEF TypeOK, Sums
  <2> QED BY <1>4, <2>1, WithoutFacts
<1>13. TypeOK'
  <2>1. bind' = [r \in Requests |-> bind'[r]]
    BY <1>4
  <2>2. byCtx' \subseteq Requests /\ IsFiniteSet(byCtx') /\ open' \subseteq Requests /\ IsFiniteSet(open')
    BY <1>1, <1>3, FS_Subset DEF TypeOK
  <2>3. whenQuery' \subseteq Requests
    BY <1>1, <1>3, <1>5 DEF TypeOK
  <2>4. /\ clock' \in [States -> Nat] /\ before' \in [States -> Nat] /\ phase' = "idle"
        /\ activated' \subseteq States /\ deactivated' \subseteq States
    BY <1>1, <1>3 DEF TypeOK
  <2> QED BY <1>10, <1>11, <1>12, <2>1, <2>2, <2>3, <2>4 DEF TypeOK
<1>14. Moving' /\ Gone'
  BY <1>3 DEF Moving, Gone
<1>15. QueryExpired => QueryExpired'
  <2>1. SUFFICES ASSUME NEW x \in byCtx, x.op = "query", x.ctx \in expired
                 PROVE  x \in byCtx'
    BY <1>3 DEF QueryExpired
  <2>2. x \in ExpiredOf({"query"})
    BY <2>1 DEF ExpiredOf
  <2> QED BY <1>3, <1>5, <1>7, <1>8, <2>1, <2>2 DEF Lists
<1>16. Listing'
  <2>1. ASSUME NEW s \in States, NEW r \in Requests
        PROVE  /\ r \in when'[s]     <=> r \in open' /\ r.op \in Lists /\ s \in StatesOf(r)
               /\ r \in whenTime'[s] <=> r \in open' /\ r.op = "time" /\ s \in StatesOf(r)
    <3>1. /\ r \in when[s]     <=> r \in open /\ r.op \in Lists /\ s \in StatesOf(r)
          /\ r \in whenTime[s] <=> r \in open /\ r.op = "time" /\ s \in StatesOf(r)
      BY <1>1, <1>6 DEF Listing
    <3> QED BY <1>3, <1>9, <1>10, <1>11, <3>1
  <2>2. ASSUME NEW r \in Requests
        PROVE  /\ Contains(whenTimeSum', r) <=> r \in open' /\ r.op = "sum"
               /\ r \in whenQuery' => r.op = "query"
               /\ QueryExpired' \/ (r \in whenQuery' <=> r \in open' /\ r.op = "query")
    <3>1. /\ Contains(whenTimeSum, r) <=> r \in open /\ r.op = "sum"
          /\ r \in whenQuery => r.op = "query"
          /\ QueryExpired \/ (r \in whenQuery <=> r \in open /\ r.op = "query")
      BY <1>1, <1>6 DEF Listing
    <3>2. Contains(whenTimeSum', r) <=> r \in open' /\ r.op = "sum"
      BY <1>3, <1>9, <1>12, <3>1
    <3>3. r \in whenQuery' => r.op = "query"
      BY <1>3, <1>5, <3>1
    <3>4. ASSUME ~QueryExpired PROVE r \in whenQuery' <=> r \in open' /\ r.op = "query"
      BY <1>3, <1>5, <1>9, <3>1, <3>4
    <3> QED BY <1>15, <3>2, <3>3, <3>4
  <2>3. ASSUME NEW r \in Requests
        PROVE  /\ r \in open' /\ r.ctx # "nil" => r \in byCtx'
               /\ r \in byCtx' /\ r.op \in Lists \cup {"time"} => r \in open'
    <3>1. /\ r \in open /\ r.ctx # "nil" => r \in byCtx
          /\ r \in byCtx /\ r.op \in Lists \cup {"time"} => r \in open
      BY <1>1, <1>6 DEF Listing
    <3>2. r \in open' /\ r.ctx # "nil" => r \in byCtx'
      BY <1>3, <3>1 DEF Closed
    <3>3. r \in byCtx' /\ r.op \in Lists \cup {"time"} => r \in open'
      BY <1>3, <1>9, <3>1
    <3> QED BY <3>2, <3>3
  <2> QED BY <2>1, <2>2, <2>3 DEF Listing
<1>17. ASSUME NEW r \in open' PROVE Waiting(r)'
  <2>1. r \in open /\ r \in Requests /\ r \notin Closed(order)
    BY <1>1, <1>3 DEF TypeOK
  <2>2. Waiting(r) /\ StatesOf(r) \subseteq States
    BY <1>1, <1>6, <2>1, RequestType DEF Waits
  <2>3. activated \subseteq States /\ deactivated \subseteq States /\ activated \cap deactivated = {}
    BY <1>1, <1>3 DEF TypeOK, Moving
  <2>4. \A s \in States : /\ s \in activated => s \in Active
                          /\ s \in deactivated => s \notin Active
                          /\ clock[s] # before[s] <=> s \in activated \cup deactivated
    BY <1>1, <1>3 DEF Moving
  <2>5. \A s : Told(s)' => s \in activated \cup deactivated \/ Told(s)
    BY <1>3 DEF Told
  <2>6. Active' = Active /\ \A s \in StatesOf(r) : TimePassed(r, s)' <=> TimePassed(r, s)
    BY <1>3 DEF Active, TimePassed
  <2>7. CASE r.op \in Lists
    <3>1. Counted(r, bind[r]) /\ ~Complete(r, bind[r])
          /\ \A s \in StatesOf(r) : Told(s) => (bind[r].on[s] <=> s \in Active)
      BY <2>2, <2>7 DEF Waiting
    <3>2. CASE r \in Touched
      <4>1. bind'[r] = Marked(r)
        BY <1>4, <1>5, <2>1, <2>7, <3>2 DEF Lists
      <4>2. ~Complete(r, Marked(r))
        BY <1>9, <2>1, <2>7, <3>2 DEF DoneWhen
      <4>3. /\ Counted(r, Marked(r))
            /\ \A s \in StatesOf(r) \ (activated \cup deactivated) : Marked(r).on[s] = bind[r].on[s]
            /\ \A s \in StatesOf(r) \cap (activated \cup deactivated) : Marked(r).on[s] <=> s \in activated
        BY <2>1, <2>3, <2>7, <3>1, <4>2, MarkedFacts
      <4>4. ASSUME NEW s \in StatesOf(r), Told(s)' PROVE bind'[r].on[s] <=> s \in Active
        <5>1. CASE s \in activated \cup deactivated
          BY <2>2, <2>4, <4>1, <4>3, <5>1
        <5>2. CASE s \notin activated \cup deactivated
          BY <2>5, <3>1, <4>1, <4>3, <4>4, <5>2
        <5> QED BY <5>1, <5>2
      <4>5. Counted(r, bind'[r]) /\ ~Complete(r, bind'[r])
        BY <4>1, <4>2, <4>3
      <4> QED BY <2>6, <2>7, <4>4, <4>5 DEF Waiting, Lists, Counted, Complete, Hits
    <3>3. CASE r \notin Touched
      <4>1. bind'[r] = bind[r]
        BY <1>4, <1>5, <2>1, <2>7, <3>3 DEF Lists
      <4>2. ASSUME NEW s \in StatesOf(r) PROVE s \notin activated \cup deactivated
        <5>1. r \in when[s]
          BY <1>1, <1>6, <2>1, <2>2, <2>7 DEF Listing
        <5> QED BY <1>9, <2>1, <2>7, <3>3, <5>1 DEF Touched
      <4>3. \A s \in StatesOf(r) : Told(s)' => (bind'[r].on[s] <=> s \in Active)
        BY <2>5, <3>1, <4>1, <4>2
      <4> QED BY <2>6, <2>7, <3>1, <4>1, <4>3 DEF Waiting, Lists, Counted, Complete, Hits
    <3> QED BY <3>2, <3>3
  <2>8. CASE r.op = "time"
    <3>1. Counted(r, bind[r]) /\ ~Complete(r, bind[r])
          /\ \A s \in StatesOf(r) : /\ bind[r].on[s] => TimePassed(r, s)
                                    /\ Told(s) /\ TimePassed(r, s) => bind[r].on[s]
      BY <2>2, <2>8 DEF Waiting
    <3>2. CASE r \in Ticked
      <4>1. bind'[r] = Passed(r)
        BY <1>4, <1>5, <2>1, <2>8, <3>2 DEF Lists
      <4>2. ~Complete(r, Passed(r))
        BY <1>9, <2>1, <2>8, <3>2 DEF DoneTime
      <4>3. /\ Counted(r, Passed(r))
            /\ \A s \in StatesOf(r) :
                 Passed(r).on[s] <=> bind[r].on[s] \/ (clock[s] # before[s] /\ TimePassed(r, s))
        BY <2>1, <2>8, <3>1, PassedFacts
      <4>4. \A s \in StatesOf(r) : /\ bind'[r].on[s] => TimePassed(r, s)
                                   /\ Told(s)' /\ TimePassed(r, s) => bind'[r].on[s]
        BY <2>2, <2>4, <2>5, <3>1, <4>1, <4>3
      <4>5. Counted(r, bind'[r]) /\ ~Complete(r, bind'[r])
        BY <4>1, <4>2, <4>3
      <4> QED BY <2>6, <2>8, <4>4, <4>5 DEF Waiting, Lists, Counted, Complete, Hits
    <3>3. CASE r \notin Ticked
      <4>1. bind'[r] = bind[r]
        BY <1>4, <1>5, <2>1, <2>8, <3>3 DEF Lists
      <4>2. ASSUME NEW s \in StatesOf(r) PROVE s \notin activated \cup deactivated
        <5>1. r \in whenTime[s] /\ s \in States
          BY <1>1, <1>6, <2>1, <2>2, <2>8 DEF Listing
        <5>2. clock[s] = before[s]
          BY <1>9, <2>1, <2>8, <3>3, <5>1 DEF Ticked
        <5> QED BY <2>4, <5>1, <5>2
      <4>3. \A s \in StatesOf(r) : /\ bind'[r].on[s] => TimePassed(r, s)
                                   /\ Told(s)' /\ TimePassed(r, s) => bind'[r].on[s]
        BY <2>5, <3>1, <4>1, <4>2
      <4> QED BY <2>6, <2>8, <3>1, <4>1, <4>3 DEF Waiting, Lists, Counted, Complete, Hits
    <3> QED BY <3>2, <3>3
  <2>9. CASE r.op \notin Lists \cup {"time"}
    BY <2>9 DEF Waiting
  <2> QED BY <2>7, <2>8, <2>9
<1>18. Sums'
  <2>1. ASSUME NEW r \in open', r.op = "sum" PROVE ~(ClockSum >= r.sum)
    <3>1. r \in open /\ r \in Requests /\ r \notin Closed(order)
      BY <1>1, <1>3 DEF TypeOK
    <3>2. Contains(whenTimeSum, r) /\ r \notin ExpiredOf({"sum"}) /\ r \notin DoneSum
      BY <1>1, <1>6, <1>9, <2>1, <3>1 DEF Listing
    <3>3. r \notin SumReached
      BY <3>2 DEF DoneSum
    <3>4. Ascending(whenTimeSum)
      BY <1>1 DEF Sums
    <3> QED BY <1>1, <3>1, <3>2, <3>3, <3>4, SumReachedFacts
  <2>2. ClockSum' = ClockSum
    BY <1>3 DEF ClockSum
  <2>3. Ascending(whenTimeSum)'
    BY <1>12 DEF Ascending
  <2> QED BY <2>1, <2>2, <2>3 DEF Sums
<1>19. Waits'
  BY <1>17 DEF Waits
<1> QED BY <1>13, <1>14, <1>16, <1>18, <1>19 DEF SubInv

LEMMA SubStep ==
  ASSUME SubInv, [Next]_vars
  PROVE  SubInv'
<1>1. CASE \E r \in Requests : NewChannel(r)
  BY <1>1, NewChannelStep
<1>2. CASE \E s \in States : NewStateCtx(s)
  <2>1. /\ UNCHANGED <<clock, before, activated, deactivated, index, bind, open, missed, skipped>>
        /\ phase' = phase /\ expired' = expired
    BY <1>2 DEF NewStateCtx, tvars, hvars
  <2> QED BY <2>1, Frame
<1>3. CASE \E c \in Ctxs : Expire(c)
  <2>1. /\ UNCHANGED <<clock, before, activated, deactivated, index, bind, open, missed, skipped>>
        /\ phase' = phase /\ expired \subseteq expired'
    BY <1>3 DEF Expire, tvars, hvars
  <2> QED BY <2>1, Frame
<1>4. CASE \E to \in SUBSET States, M \in SUBSET Multi : SetActiveStates(to, M)
  BY <1>4, SetActiveStatesStep
<1>5. CASE ProcessStateCtx
  <2>1. /\ UNCHANGED <<clock, before, activated, deactivated, index, bind, open, missed, skipped>>
        /\ phase = "ctx" /\ phase' = "finals" /\ expired' = expired
    BY <1>5 DEF ProcessStateCtx, hvars
  <2> QED BY <2>1, Frame
<1>6. CASE \E n \in 0 .. 2, Dropped, Again \in SUBSET States : FinalsFailed(n, Dropped, Again)
  BY <1>6, FinalsFailedStep
<1>7. CASE \E order \in SetToSeqs(ExpiredOf({"query"})) : ProcessSubscriptions(order)
  BY <1>7, ProcessSubscriptionsStep
<1>8. CASE \E order \in SetToSeqs(ExpiredOf({"query"})) : QueryPanic(order)
  <2>1. /\ UNCHANGED <<clock, before, activated, deactivated, index, bind, open, missed, skipped>>
        /\ phase' = "crashed" /\ expired' = expired
    BY <1>8 DEF QueryPanic, hvars
  <2> QED BY <2>1, Frame
<1>9. CASE Dispose
  BY <1>9, DisposeStep
<1>10. CASE UNCHANGED vars
  <2>1. /\ UNCHANGED <<clock, before, activated, deactivated, index, bind, open, missed, skipped>>
        /\ phase' = phase /\ expired' = expired
    BY <1>10 DEF vars, tvars, hvars
  <2> QED BY <2>1, Frame
<1> QED BY <1>1, <1>2, <1>3, <1>4, <1>5, <1>6, <1>7, <1>8, <1>9, <1>10 DEF Next

\* Every binding is in the lists of all its states, in those of its operation and in that
\* of its context, and closed ones are in none: gcWhenBinding, gcWhenTimeBinding and
\* slicesWithout remove all that ProcessWhen, ProcessWhenTime and ProcessWhenTimeSum close.
THEOREM AllIndexed == Spec => []Indexed
<1>1. SubInv => Indexed
  BY DEF SubInv, Listing, Indexed
<1> QED BY <1>1, SubInit, SubStep, PTL DEF Spec

\* The counters that ProcessWhen moves by one for each change are those of the states.
THEOREM CountsStayExact == Spec => []CountsExact
<1>1. SubInv => CountsExact
  <2> SUFFICES ASSUME SubInv, phase = "idle", NEW r \in open, r.op \in Lists
               PROVE  /\ \A s \in StatesOf(r) \ missed : bind[r].on[s] <=> s \in Active
                      /\ bind[r].matched = Cardinality({s \in StatesOf(r) : bind[r].on[s] = (r.op = "when")})
    BY DEF CountsExact
  <2>1. Waiting(r)
    BY DEF SubInv, Waits, InService
  <2>2. \A s \in StatesOf(r) \ missed : bind[r].on[s] <=> s \in Active
    BY <2>1 DEF Waiting, Told
  <2>3. bind[r].on \in [StatesOf(r) -> BOOLEAN] /\ bind[r].matched = Cardinality(Hits(r, bind[r]))
    BY <2>1 DEF Waiting, Counted
  <2>4. ASSUME NEW s \in StatesOf(r)
        PROVE  (bind[r].on[s] <=> r.op # "whenNot") <=> bind[r].on[s] = (r.op = "when")
    <3>1. PICK v \in BOOLEAN : v = bind[r].on[s]
      BY <2>3
    <3>2. r.op # "whenNot" <=> r.op = "when"
      BY DEF Lists
    <3> QED BY <3>1, <3>2
  <2>5. Hits(r, bind[r]) = {s \in StatesOf(r) : bind[r].on[s] = (r.op = "when")}
    BY <2>4, Zenon DEF Hits
  <2> QED BY <2>2, <2>3, <2>5
<1> QED BY <1>1, SubInit, SubStep, PTL DEF Spec

\* Nobody is left waiting for what is the case: When, WhenNot, WhenTime and WhenTimeSum
\* look before they bind, and processSubscriptions closes all that a transition made true.
THEOREM NobodyMissed == Spec => []NoMissedWakeup
<1>1. SubInv => NoMissedWakeup
  <2> SUFFICES ASSUME SubInv PROVE NoMissedWakeup
    OBVIOUS
  <2>1. phase = "disposed" => \A r \in open : r.op \in {"sum", "query"}
    BY DEF SubInv, Gone
  <2>2. ASSUME phase = "idle", NEW r \in open, r.op = "sum", Met(r) PROVE skipped
    BY <2>2 DEF SubInv, Sums, Met
  <2>3. ASSUME phase = "idle", NEW r \in open, r.op \in Lists \cup {"time"}, Met(r),
               StatesOf(r) \cap missed = {}
        PROVE  FALSE
    <3>1. Waiting(r) /\ r \in Requests
      BY <2>3 DEF SubInv, Waits, InService, TypeOK
    <3>2. Counted(r, bind[r]) /\ ~Complete(r, bind[r]) /\ \A s \in StatesOf(r) : Told(s)
      BY <2>3, <3>1 DEF Waiting, Told
    <3>3. ASSUME NEW s \in StatesOf(r) PROVE bind[r].on[s] <=> r.op # "whenNot"
      <4>1. CASE r.op = "when"
        BY <2>3, <3>1, <3>2, <4>1 DEF Waiting, Met, Lists
      <4>2. CASE r.op = "whenNot"
        BY <2>3, <3>1, <3>2, <4>2 DEF Waiting, Met, Lists
      <4>3. CASE r.op = "time"
        BY <2>3, <3>1, <3>2, <4>3 DEF Waiting, Met
      <4> QED BY <2>3, <4>1, <4>2, <4>3 DEF Lists
    <3>4. Hits(r, bind[r]) = StatesOf(r)
      BY <3>3 DEF Hits
    <3> QED BY <3>1, <3>2, <3>4, NotComplete
  <2>4. \A r \in open : r.op \in Lists \cup {"time", "sum", "query"}
    BY RequestType DEF SubInv, TypeOK, Lists
  <2>5. ASSUME phase = "idle", NEW r \in open, r.op # "query", Met(r)
        PROVE  IF r.op = "sum" THEN skipped ELSE StatesOf(r) \cap missed # {}
    BY <2>2, <2>3, <2>4, <2>5
  <2> QED BY <2>1, <2>5 DEF NoMissedWakeup
<1> QED BY <1>1, SubInit, SubStep, PTL DEF Spec

\* What processSubscriptions closes is either expired or has come true; When counts the
\* states a transition activates before those it deactivates.
LEMMA ClosedIsMet ==
  ASSUME SubInv, NEW order \in SetToSeqs(ExpiredOf({"query"})), ProcessSubscriptions(order),
         NEW r \in open \ open'
  PROVE  \/ r.ctx \in expired
         \/ Met(r)
         \/ r.op \in Lists /\ StatesOf(r) \cap missed # {}
         \/ r.op = "when" /\ StatesOf(r) \subseteq Active \cup deactivated
<1>1. TypeOK /\ Moving /\ Waits
  BY DEF SubInv
<1>2. phase = "finals" /\ AfterQueryCtx(order).ok /\ r \in Closed(order)
  BY DEF ProcessSubscriptions
<1>3. r \in Requests /\ Waiting(r) /\ StatesOf(r) \subseteq States
  BY <1>1, <1>2, RequestType DEF TypeOK, Waits, InService
<1>4. SUFFICES ASSUME r.ctx \notin expired, ~(r.op \in Lists /\ StatesOf(r) \cap missed # {})
               PROVE  Met(r) \/ (r.op = "when" /\ StatesOf(r) \subseteq Active \cup deactivated)
  OBVIOUS
<1>5. r \in DoneWhen \cup DoneTime \cup DoneSum \cup DoneQuery(order)
  BY <1>2, <1>4 DEF Closed, ExpiredOf
<1>6. /\ activated \subseteq States /\ deactivated \subseteq States /\ activated \cap deactivated = {}
      /\ \A s \in States : /\ s \in activated => s \in Active
                           /\ s \in deactivated => s \notin Active
  BY <1>1, <1>2 DEF TypeOK, Moving
<1>7. CASE r \in DoneWhen
  <2>1. r.op \in Lists /\ Complete(r, Marked(r))
    BY <1>2, <1>7, ClosedFacts DEF DoneWhen
  <2>2. /\ Counted(r, bind[r]) /\ ~Complete(r, bind[r])
        /\ \A s \in StatesOf(r) : Told(s) => (bind[r].on[s] <=> s \in Active)
    BY <1>3, <2>1 DEF Waiting
  <2>3. /\ Counted(r, Marked(r))
        /\ \A s \in StatesOf(r) \ (activated \cup deactivated) : Marked(r).on[s] = bind[r].on[s]
        /\ r.op = "whenNot" => \A s \in StatesOf(r) \cap activated : Marked(r).on[s]
    BY <1>3, <1>6, <2>1, <2>2, MarkedFacts
  <2>4. \A s \in StatesOf(r) : Marked(r).on[s] <=> r.op # "whenNot"
    BY <1>3, <2>1, <2>3, NotComplete DEF Hits
  <2>5. \A s \in StatesOf(r) \ (activated \cup deactivated) : bind[r].on[s] <=> s \in Active
    BY <1>4, <2>1, <2>2 DEF Told
  <2>6. CASE r.op = "when"
    <3>1. \A s \in StatesOf(r) : s \in Active \cup deactivated
      BY <1>3, <1>6, <2>3, <2>4, <2>5, <2>6
    <3> QED BY <2>6, <3>1
  <2>7. CASE r.op = "whenNot"
    <3>1. \A s \in StatesOf(r) : s \notin Active
      BY <1>3, <1>6, <2>3, <2>4, <2>5, <2>7
    <3> QED BY <2>7, <3>1 DEF Met
  <2> QED BY <2>1, <2>6, <2>7 DEF Lists
<1>8. CASE r \in DoneTime
  <2>1. r.op = "time" /\ Complete(r, Passed(r))
    BY <1>2, <1>8, ClosedFacts DEF DoneTime
  <2>2. Counted(r, bind[r]) /\ \A s \in StatesOf(r) : bind[r].on[s] => TimePassed(r, s)
    BY <1>3, <2>1 DEF Waiting
  <2>3. /\ Counted(r, Passed(r))
        /\ \A s \in StatesOf(r) :
             Passed(r).on[s] <=> bind[r].on[s] \/ (clock[s] # before[s] /\ TimePassed(r, s))
    BY <1>3, <2>1, <2>2, PassedFacts, Zenon
  <2>4. \A s \in StatesOf(r) : Passed(r).on[s]
    BY <1>3, <2>1, <2>3, NotComplete DEF Hits
  <2> QED BY <2>1, <2>2, <2>3, <2>4 DEF Met
<1>9. CASE r \in DoneSum
  BY <1>2, <1>9, ClosedFacts, Zenon DEF Met
<1>10. CASE r \in DoneQuery(order)
  BY <1>10 DEF DoneQuery
<1> QED BY <1>5, <1>7, <1>8, <1>9, <1>10

\* No channel is closed by a transition unless its condition holds or its context is done.
THEOREM NoneEarly == Spec => ClosedWhenMet
<1> DEFINE Due(r) == \/ r.ctx \in expired
                     \/ Met(r)
                     \/ r.op \in Lists /\ StatesOf(r) \cap missed # {}
                     \/ r.op = "when" /\ StatesOf(r) \subseteq Active \cup deactivated
<1>1. ASSUME SubInv, [Next]_vars, phase' = "idle", NEW r \in open \ open' PROVE Due(r)
  <2>1. ASSUME NEW order \in SetToSeqs(ExpiredOf({"query"})), ProcessSubscriptions(order)
        PROVE  Due(r)
    BY <1>1, <2>1, ClosedIsMet
  <2>2. \E order \in SetToSeqs(ExpiredOf({"query"})) : ProcessSubscriptions(order)
    BY <1>1 DEF Next, NewChannel, Subscribe, NewStateCtx, Expire, SetActiveStates, ProcessStateCtx,
                FinalsFailed, QueryPanic, Dispose, vars
  <2> HIDE DEF Due
  <2> QED BY <2>1, <2>2
<1>2. SubInv /\ [Next]_vars => [phase' = "idle" => \A r \in open \ open' : Due(r)]_vars
  BY <1>1
<1> QED BY <1>2, SubInit, SubStep, PTL DEF Spec, ClosedWhenMet

-----------------------------------------------------------------------------
(* State contexts *)

Current(s) == stateCtx[s] \in {NoTick, clock[s]}

\* StateCtxCurrent, with what a transition has changed and not processed yet.
CtxInv ==
  /\ clock \in [States -> Nat] /\ stateCtx \in [States -> Int]
  /\ phase = "ctx" => \A s \in States \ (missed \cup ToCancel) : Current(s)
  /\ phase = "finals" => \A s \in States \ missed : Current(s)
  /\ phase = "finals" => \A s \in ToCancel \cap States : stateCtx[s] \in {NoTick, clock[s]}
  /\ phase \notin {"ctx", "finals"} => \A s \in States \ missed : Current(s)

LEMMA CtxInit == Init => CtxInv
BY DEF Init, CtxInv, Current, NoTick

LEMMA CtxStep ==
  ASSUME CtxInv, [Next]_vars
  PROVE  CtxInv'
<1>1. ASSUME UNCHANGED <<clock, stateCtx, phase, missed, activated, deactivated>>
      PROVE  CtxInv'
  BY <1>1 DEF CtxInv, Current, ToCancel
<1>2. ASSUME NEW r \in Requests, NewChannel(r)
      PROVE  CtxInv'
  BY <1>1, <1>2 DEF NewChannel, Subscribe, tvars, hvars
<1>3. ASSUME NEW s \in States, NewStateCtx(s)
      PROVE  CtxInv'
  BY <1>3 DEF NewStateCtx, tvars, hvars, CtxInv, Current, ToCancel
<1>4. ASSUME NEW c \in Ctxs, Expire(c)
      PROVE  CtxInv'
  BY <1>1, <1>4 DEF Expire, tvars, hvars
<1>5. ASSUME NEW to \in SUBSET States, NEW M \in SUBSET Multi, SetActiveStates(to, M)
      PROVE  CtxInv'
  BY <1>5 DEF SetActiveStates, hvars, CtxInv, Current, ToCancel
<1>6. CASE ProcessStateCtx
  BY <1>6 DEF ProcessStateCtx, hvars, CtxInv, Current, ToCancel, NoTick
<1>7. ASSUME NEW n \in 0 .. 2, NEW Dropped \in SUBSET States, NEW Again \in SUBSET States,
             FinalsFailed(n, Dropped, Again)
      PROVE  CtxInv'
  BY <1>7 DEF FinalsFailed, CtxInv, Current, ToCancel
<1>8. ASSUME NEW order, ProcessSubscriptions(order)
      PROVE  CtxInv'
  <2>1. /\ phase = "finals" /\ phase' = "idle" /\ UNCHANGED <<clock, stateCtx>>
        /\ missed' = missed \ (activated \cup deactivated)
    BY <1>8 DEF ProcessSubscriptions
  <2> QED BY <2>1 DEF CtxInv, Current, ToCancel
<1>9. ASSUME NEW order, QueryPanic(order)
      PROVE  CtxInv'
  BY <1>9 DEF QueryPanic, hvars, CtxInv, Current, ToCancel
<1>10. CASE Dispose
  BY <1>10 DEF Dispose, hvars, CtxInv, Current, ToCancel, NoTick
<1>11. CASE UNCHANGED vars
  BY <1>1, <1>11 DEF vars, tvars, hvars
<1> QED BY <1>2, <1>3, <1>4, <1>5, <1>6, <1>7, <1>8, <1>9, <1>10, <1>11 DEF Next

\* A state context which is not canceled has the tick its state has now, whatever was
\* called between the steps of transitions, but for states of a failed transition.
THEOREM CtxsCurrent == Spec => []StateCtxCurrent
<1>1. CtxInv => StateCtxCurrent
  BY DEF CtxInv, StateCtxCurrent, Current
<1> QED BY <1>1, CtxInit, CtxStep, PTL DEF Spec
=============================================================================
