--------------------------- MODULE ResolverProofs ---------------------------
(***************************************************************************)
(* Theorems about Resolver, for every set of names, addresses and tasks,   *)
(* every lifetime and all bounds.                                          *)
(***************************************************************************)
EXTENDS Resolver, TLAPS

(* The invariant behind BypassEnds.  That the table is accounted for holds *)
(* whatever the clock says; that what the map holds is not expired holds   *)
(* from one eviction to the next tick, because a query that waits for the  *)
(* lock carries an expiry of the current interval.                         *)
Accounted == {ip \in Addresses : bypass[ip] # None}
                \cup Recording \cup stale \cup refused
Unexpired == \A ip \in Addresses : bypass[ip] # None => now < bypass[ip]
RecordsAhead == \A w \in Workers : query[w].pc = "record" => now < query[w].expiry

BypassInv == /\ TypeOK
             /\ table \subseteq Accounted
             /\ "evict" \in loops /\ ~tickDue => Unexpired
             /\ RecordsAhead

-----------------------------------------------------------------------------
(* Every state the program can be in has its types: one step per action. *)
LEMMA NoQueryType == NoQuery \in QueryState
BY DEF NoQuery, QueryState

(* It starts with its types, *)
LEMMA InitType == Init => TypeOK
<1> SUFFICES ASSUME Init PROVE TypeOK
    OBVIOUS
<1>1. query \in [Workers -> QueryState]
    BY NoQueryType DEF Init
<1>2. bypass \in [Addresses -> Nat \cup {None}]
    BY DEF Init
<1> QED
    BY <1>1, <1>2 DEF Init, TypeOK

(* A query that moves on has a state of a query. *)
LEMMA GoType ==
    ASSUME TypeOK, NEW w \in Workers, NEW q \in QueryState, Go(w, q)
    PROVE  query' \in [Workers -> QueryState]
BY DEF Go, TypeOK

(* An answer that is about to be sent is a query state. *)
LEMMA AnswerType ==
    ASSUME TypeOK, NEW w \in Workers, NEW ips \in SUBSET Addresses, Answer(w, ips)
    PROVE  query' \in [Workers -> QueryState]
<1> DEFINE q == [query[w] EXCEPT !.pc = "answer", !.ips = ips]
<1>1. query[w] \in QueryState
    BY DEF TypeOK
<1>2. q \in QueryState
    BY <1>1 DEF QueryState
<1>3. Go(w, q)
    BY DEF Answer
<1> QED
    BY <1>2, <1>3, GoType

(* and no step breaks them. *)
LEMMA TypeStep == TypeOK /\ [Next]_vars => TypeOK'
<1> SUFFICES ASSUME TypeOK, [Next]_vars PROVE TypeOK'
    OBVIOUS
<1> USE ResolverAssumption
<1>1. ASSUME NEW w \in Workers, Ask(w) PROVE TypeOK'
  <2>1. /\ [NoQuery EXCEPT !.pc = "vpn"] \in QueryState
        /\ [NoQuery EXCEPT !.pc = "wan"] \in QueryState
      BY DEF NoQuery, QueryState
  <2>2. query' \in [Workers -> QueryState]
      BY <1>1, <2>1, GoType, AnswerType DEF Ask
  <2> QED
      BY <1>1, <2>2 DEF Ask, TypeOK, appVars, clockVars
<1>2. ASSUME NEW w \in Workers, Accept(w) \/ Hangup(w) PROVE TypeOK'
  <2>1. [NoQuery EXCEPT !.pc = "open"] \in QueryState
      BY DEF NoQuery, QueryState
  <2>2. query' \in [Workers -> QueryState]
      BY <1>2, <2>1, NoQueryType, GoType DEF Accept, Hangup
  <2> QED
      BY <1>2, <2>2 DEF Accept, Hangup, TypeOK, appVars, clockVars
<1>3. ASSUME NEW w \in Workers, Serve(w) PROVE TypeOK'
  <2>1. query[w] \in QueryState
      BY DEF TypeOK
  <2>2. CASE VpnAnswers(w)
    <3>1. query' \in [Workers -> QueryState]
        BY <2>2, AnswerType DEF VpnAnswers
    <3> QED
        BY <2>2, <3>1 DEF VpnAnswers, TypeOK, appVars, clockVars
  <2>3. CASE WanAnswers(w)
    <3>1. PICK ips \in SUBSET Addresses :
             /\ table' = table \cup ips
             /\ \/ Answer(w, {})
                \/ Go(w, [pc |-> "record", ips |-> ips, expiry |-> now + BYPASS_TTL])
        BY <2>3 DEF WanAnswers
    <3>2. now + BYPASS_TTL \in Nat
        BY DEF TypeOK
    <3>3. [pc |-> "record", ips |-> ips, expiry |-> now + BYPASS_TTL] \in QueryState
        BY <3>2 DEF QueryState
    <3>4. query' \in [Workers -> QueryState]
        BY <3>1, <3>3, AnswerType, GoType
    <3> QED
        BY <2>3, <3>1, <3>4 DEF WanAnswers, TypeOK, appVars, clockVars
  <2>4. CASE WanFails(w)
    <3>1. query' \in [Workers -> QueryState]
        BY <2>4, AnswerType DEF WanFails
    <3> QED
        BY <2>4, <3>1 DEF WanFails, TypeOK, appVars, clockVars
  <2>5. CASE Record(w)
    <3>1. query[w].ips \in SUBSET Addresses /\ query[w].expiry \in Nat
        BY <2>1 DEF QueryState
    <3>2. query' \in [Workers -> QueryState]
        BY <2>5, <3>1, AnswerType DEF Record
    <3>3. bypass' \in [Addresses -> Nat \cup {None}]
        BY <2>5, <3>1 DEF Record, TypeOK
    <3> QED
        BY <2>5, <3>2, <3>3 DEF Record, TypeOK, appVars, clockVars
  <2>6. CASE Send(w)
    <3>1. query' \in [Workers -> QueryState]
        BY <2>6, NoQueryType, GoType DEF Send
    <3> QED
        BY <2>6, <3>1 DEF Send, TypeOK, appVars, clockVars
  <2> QED
      BY <1>3, <2>2, <2>3, <2>4, <2>5, <2>6 DEF Serve
<1>4. CASE EvictTake
    BY <1>4 DEF EvictTake, Expired, TypeOK, appVars
<1>5. CASE EvictDelete
    BY <1>5 DEF EvictDelete, TypeOK, appVars, clockVars
<1>6. CASE EvictDeleteFails
    BY <1>6 DEF EvictDeleteFails, TypeOK, appVars, clockVars
<1>7. ASSUME NEW loop \in Loops, LeaveLoop(loop) PROVE TypeOK'
    BY <1>7 DEF LeaveLoop, TypeOK, appVars, clockVars
<1>8. CASE PushLists
    BY <1>8 DEF PushLists, TypeOK, clockVars
<1>9. CASE AttachWan
    BY <1>9 DEF AttachWan, TypeOK, clockVars
<1>10. CASE TableFlush
    BY <1>10 DEF TableFlush, TypeOK, clockVars
<1>11. CASE Shutdown
    BY <1>11 DEF Shutdown, TypeOK, clockVars
<1>12. CASE Tick
    BY <1>12 DEF Tick, TypeOK, appVars
<1>13. CASE UNCHANGED vars
    BY <1>13 DEF vars, TypeOK, appVars, clockVars
<1> QED
    BY <1>1, <1>3, <1>4, <1>5, <1>6, <1>7, <1>8, <1>9, <1>10, <1>11, <1>12, <1>13,
       <1>2 DEF Next, Evict

(* Every variable of the resolver keeps its type. *)
THEOREM TypeCorrect == Spec => []TypeOK
BY InitType, TypeStep, PTL DEF Spec

-----------------------------------------------------------------------------
(* A step of a query that holds no record keeps what the others hold. *)
LEMMA RecordingKept ==
    ASSUME TypeOK, NEW w \in Workers, NEW q \in QueryState, Go(w, q),
           query[w].pc # "record"
    PROVE  Recording \subseteq Recording'
<1> SUFFICES ASSUME NEW ip \in Recording PROVE ip \in Recording'
    OBVIOUS
<1>1. PICK v \in Workers : query[v].pc = "record" /\ ip \in query[v].ips
    BY DEF Recording
<1>2. v # w /\ query'[v] = query[v]
    BY <1>1 DEF Go, TypeOK
<1> QED
    BY <1>1, <1>2 DEF Recording

(* One that does not begin a record carries no new expiry. *)
LEMMA AheadKept ==
    ASSUME TypeOK, RecordsAhead, NEW w \in Workers, NEW q \in QueryState, Go(w, q),
           q.pc = "record" => now < q.expiry, now' = now
    PROVE  RecordsAhead'
<1> SUFFICES ASSUME NEW v \in Workers, query'[v].pc = "record"
             PROVE  now' < query'[v].expiry
    BY DEF RecordsAhead
<1>1. CASE v = w
    BY <1>1 DEF Go, TypeOK
<1>2. CASE v # w
    BY <1>2 DEF Go, TypeOK, RecordsAhead
<1> QED
    BY <1>1, <1>2

(* Steps of a query that install and record nothing. *)
LEMMA QuietQueryStep ==
    ASSUME BypassInv, TypeOK', NEW w \in Workers, NEW q \in QueryState, Go(w, q),
           query[w].pc # "record", q.pc # "record",
           UNCHANGED <<loops, bypass, stale, table, refused, tickDue, now>>
    PROVE  BypassInv'
<1>1. table' \subseteq Accounted'
    BY RecordingKept DEF BypassInv, Accounted
<1>2. RecordsAhead'
    BY AheadKept DEF BypassInv
<1>3. ("evict" \in loops /\ ~tickDue => Unexpired)'
    BY DEF BypassInv, Unexpired
<1> QED
    BY <1>1, <1>2, <1>3 DEF BypassInv

(* And it is one that records nothing. *)
LEMMA AnswerIsQuiet ==
    ASSUME TypeOK, NEW w \in Workers, NEW ips \in SUBSET Addresses
    PROVE  /\ [query[w] EXCEPT !.pc = "answer", !.ips = ips] \in QueryState
           /\ [query[w] EXCEPT !.pc = "answer", !.ips = ips].pc # "record"
<1>1. query[w] \in QueryState
    BY DEF TypeOK
<1> QED
    BY <1>1 DEF QueryState

(* Such an answer leaves the account of the bypass as it is. *)
LEMMA QuietAnswerStep ==
    ASSUME BypassInv, TypeOK', NEW w \in Workers, NEW ips \in SUBSET Addresses,
           Answer(w, ips), query[w].pc # "record",
           UNCHANGED <<loops, bypass, stale, table, refused, tickDue, now>>
    PROVE  BypassInv'
<1> DEFINE q == [query[w] EXCEPT !.pc = "answer", !.ips = ips]
<1>1. q \in QueryState /\ q.pc # "record"
    BY AnswerIsQuiet DEF BypassInv
<1>2. Go(w, q)
    BY DEF Answer
<1> HIDE DEF q
<1> QED
    BY <1>1, <1>2, QuietQueryStep

(* What is installed is recorded later, by the query that installed it. *)
LEMMA InstallStep ==
    ASSUME BypassInv, TypeOK', NEW w \in Workers, WanAnswers(w)
    PROVE  BypassInv'
<1> USE ResolverAssumption
<1>1. PICK ips \in SUBSET Addresses :
         /\ table' = table \cup ips
         /\ \/ ips = {} /\ Answer(w, {})
            \/ Go(w, [pc |-> "record", ips |-> ips, expiry |-> now + BYPASS_TTL])
    BY DEF WanAnswers
<1>2. /\ query[w].pc = "wan"
      /\ UNCHANGED <<loops, bypass, stale, refused, tickDue, now>>
    BY DEF WanAnswers, clockVars
<1>3. CASE ips = {} /\ Answer(w, {})
    BY <1>1, <1>2, <1>3, QuietAnswerStep
<1> DEFINE q == [pc |-> "record", ips |-> ips, expiry |-> now + BYPASS_TTL]
<1>4. CASE Go(w, q)
  <2>1. now + BYPASS_TTL \in Nat /\ now < now + BYPASS_TTL
      BY DEF BypassInv, TypeOK
  <2>2. q \in QueryState /\ q.pc = "record" /\ q.ips = ips /\ now < q.expiry
      BY <2>1 DEF QueryState
  <2> HIDE DEF q
  <2>3. Recording \subseteq Recording'
      BY <1>2, <1>4, <2>2, RecordingKept DEF BypassInv
  <2>4. ips \subseteq Recording'
    <3>1. query'[w] = q
        BY <1>4 DEF Go, BypassInv, TypeOK
    <3> QED
        BY <2>2, <3>1 DEF Recording
  <2>5. table' \subseteq Accounted'
      BY <1>1, <1>2, <2>3, <2>4 DEF BypassInv, Accounted
  <2>6. RecordsAhead'
      BY <1>2, <1>4, <2>2, AheadKept DEF BypassInv
  <2>7. ("evict" \in loops /\ ~tickDue => Unexpired)'
      BY <1>2 DEF BypassInv, Unexpired
  <2> QED
      BY <2>5, <2>6, <2>7 DEF BypassInv
<1> QED
    BY <1>1, <1>3, <1>4

(* What a query records is in the map from then on, and not expired. *)
LEMMA RecordStep ==
    ASSUME BypassInv, TypeOK', NEW w \in Workers, Record(w)
    PROVE  BypassInv'
<1> USE ResolverAssumption
<1> DEFINE q == [query[w] EXCEPT !.pc = "answer", !.ips = query[w].ips]
<1>1. /\ TypeOK /\ query[w] \in QueryState /\ query[w].pc = "record"
      /\ query[w].expiry \in Nat /\ query[w].ips \in SUBSET Addresses
      /\ now < query[w].expiry
    BY DEF BypassInv, TypeOK, Record, QueryState, RecordsAhead
<1>2. /\ UNCHANGED <<loops, stale, table, refused, tickDue, now>>
      /\ bypass' = [ip \in Addresses |->
                      IF ip \in query[w].ips THEN query[w].expiry ELSE bypass[ip]]
    BY DEF Record, clockVars
<1>3. Go(w, q) /\ q \in QueryState /\ q.pc # "record"
    BY <1>1, AnswerIsQuiet DEF Record, Answer
<1> HIDE DEF q
<1>4. Recording \subseteq Recording' \cup query[w].ips
  <2> SUFFICES ASSUME NEW ip \in Recording, ip \notin query[w].ips
               PROVE  ip \in Recording'
      OBVIOUS
  <2>1. PICK v \in Workers : query[v].pc = "record" /\ ip \in query[v].ips
      BY DEF Recording
  <2>2. v # w /\ query'[v] = query[v]
      BY <1>1, <1>3, <2>1 DEF Go, TypeOK
  <2> QED
      BY <2>1, <2>2 DEF Recording
<1>5. \A ip \in Addresses : /\ ip \in query[w].ips => bypass'[ip] # None
                            /\ bypass[ip] # None => bypass'[ip] # None
    BY <1>1, <1>2
<1>6. table' \subseteq Accounted'
    BY <1>1, <1>2, <1>4, <1>5 DEF BypassInv, Accounted
<1>7. RecordsAhead'
    BY <1>1, <1>2, <1>3, AheadKept DEF BypassInv
<1>8. ("evict" \in loops /\ ~tickDue => Unexpired)'
  <2> SUFFICES ASSUME "evict" \in loops, ~tickDue, NEW ip \in Addresses,
                      bypass'[ip] # None
               PROVE  now < bypass'[ip]
      BY <1>2 DEF Unexpired
  <2>1. bypass[ip] # None => now < bypass[ip]
      BY DEF BypassInv, Unexpired
  <2> QED
      BY <1>1, <1>2, <2>1
<1> QED
    BY <1>6, <1>7, <1>8 DEF BypassInv

(* The account holds at the start, *)
LEMMA InvInit == Init => BypassInv
<1> SUFFICES ASSUME Init PROVE BypassInv
    OBVIOUS
<1>1. TypeOK
    BY InitType
<1>2. table \subseteq Accounted
    BY DEF Init
<1>3. Unexpired
    BY DEF Init, Unexpired
<1>4. RecordsAhead
    BY DEF Init, RecordsAhead, NoQuery
<1> QED
    BY <1>1, <1>2, <1>3, <1>4 DEF BypassInv

(* every step keeps it, *)
LEMMA InvStep == BypassInv /\ [Next]_vars => BypassInv'
<1> SUFFICES ASSUME BypassInv, [Next]_vars PROVE BypassInv'
    OBVIOUS
<1> USE ResolverAssumption
<1>0. TypeOK /\ TypeOK'
    BY TypeStep DEF BypassInv
<1>1. ASSUME NEW w \in Workers, Ask(w) PROVE BypassInv'
  <2> DEFINE vpn == [NoQuery EXCEPT !.pc = "vpn"]
             onWan == [NoQuery EXCEPT !.pc = "wan"]
  <2>1. /\ vpn \in QueryState /\ vpn.pc # "record"
        /\ onWan \in QueryState /\ onWan.pc # "record"
      BY DEF NoQuery, QueryState
  <2>2. /\ Go(w, vpn) \/ Go(w, onWan) \/ Answer(w, {})
        /\ query[w].pc # "record"
        /\ UNCHANGED <<loops, bypass, stale, table, refused, tickDue, now>>
      BY <1>1 DEF Ask, clockVars
  <2> HIDE DEF vpn, onWan
  <2> QED
      BY <1>0, <2>1, <2>2, QuietQueryStep, QuietAnswerStep
<1>2. ASSUME NEW w \in Workers, Accept(w) \/ Hangup(w) PROVE BypassInv'
  <2> DEFINE open == [NoQuery EXCEPT !.pc = "open"]
  <2>1. /\ open \in QueryState /\ open.pc # "record"
        /\ NoQuery \in QueryState /\ NoQuery.pc # "record"
      BY DEF NoQuery, QueryState
  <2>2. /\ Go(w, open) \/ Go(w, NoQuery)
        /\ query[w].pc # "record"
        /\ UNCHANGED <<loops, bypass, stale, table, refused, tickDue, now>>
      BY <1>2 DEF Accept, Hangup, clockVars
  <2> HIDE DEF open
  <2> QED
      BY <1>0, <2>1, <2>2, QuietQueryStep
<1>3. ASSUME NEW w \in Workers, Serve(w) PROVE BypassInv'
  <2>1. CASE VpnAnswers(w)
      BY <1>0, <2>1, QuietAnswerStep DEF VpnAnswers, clockVars
  <2>2. CASE WanAnswers(w)
      BY <1>0, <2>2, InstallStep
  <2>3. CASE WanFails(w)
      BY <1>0, <2>3, QuietAnswerStep DEF WanFails, clockVars
  <2>4. CASE Record(w)
      BY <1>0, <2>4, RecordStep
  <2>5. CASE Send(w)
    <3>1. NoQuery \in QueryState /\ NoQuery.pc # "record"
        BY NoQueryType DEF NoQuery
    <3> QED
        BY <1>0, <2>5, <3>1, QuietQueryStep DEF Send, clockVars
  <2> QED
      BY <1>3, <2>1, <2>2, <2>3, <2>4, <2>5 DEF Serve
<1>4. CASE EvictTake
  <2>1. /\ stale = {} /\ stale' = Expired
        /\ bypass' = [ip \in Addresses |-> IF ip \in Expired THEN None ELSE bypass[ip]]
        /\ UNCHANGED <<loops, query, table, refused, now>>
      BY <1>4 DEF EvictTake
  <2>2. Recording' = Recording
      BY <2>1 DEF Recording
  <2>3. table' \subseteq Accounted'
      BY <1>0, <2>1, <2>2 DEF BypassInv, Accounted
  <2>4. Unexpired'
    <3> SUFFICES ASSUME NEW ip \in Addresses, bypass'[ip] # None
                 PROVE  now < bypass'[ip]
        BY <2>1 DEF Unexpired
    <3>1. ip \notin Expired /\ bypass'[ip] = bypass[ip]
        BY <2>1
    <3>2. bypass[ip] \in Nat /\ now \in Nat
        BY <1>0, <3>1 DEF TypeOK
    <3> QED
        BY <3>1, <3>2 DEF Expired
  <2>5. RecordsAhead'
      BY <2>1 DEF BypassInv, RecordsAhead
  <2> QED
      BY <1>0, <2>3, <2>4, <2>5 DEF BypassInv
<1>5. CASE EvictDelete
    BY <1>0, <1>5 DEF EvictDelete, BypassInv, Accounted, Recording, Unexpired,
       RecordsAhead, clockVars
<1>6. CASE EvictDeleteFails
    BY <1>0, <1>6 DEF EvictDeleteFails, BypassInv, Accounted, Recording,
       Unexpired, RecordsAhead, clockVars
<1>7. ASSUME NEW loop \in Loops, LeaveLoop(loop) PROVE BypassInv'
    BY <1>0, <1>7 DEF LeaveLoop, BypassInv, Accounted, Recording, Unexpired,
       RecordsAhead, clockVars
<1>8. CASE PushLists \/ AttachWan \/ Shutdown \/ UNCHANGED vars
  <2>1. UNCHANGED <<loops, query, bypass, stale, table, refused, tickDue, now>>
      BY <1>8 DEF PushLists, AttachWan, Shutdown, vars, clockVars
  <2> QED
      BY <1>0, <2>1 DEF BypassInv, Accounted, Recording, Unexpired, RecordsAhead
<1>9. CASE TableFlush
    BY <1>0, <1>9 DEF TableFlush, BypassInv, Accounted, Recording, Unexpired,
       RecordsAhead, clockVars
<1>10. CASE Tick
  <2>1. /\ tickDue' = ("evict" \in loops)
        /\ \A w \in Workers : query[w].pc # "record"
        /\ UNCHANGED <<loops, query, bypass, stale, table, refused>>
      BY <1>10 DEF Tick
  <2>2. table' \subseteq Accounted'
      BY <2>1 DEF BypassInv, Accounted, Recording
  <2>3. RecordsAhead'
      BY <2>1 DEF RecordsAhead
  <2>4. ("evict" \in loops /\ ~tickDue => Unexpired)'
      BY <2>1
  <2> QED
      BY <1>0, <2>2, <2>3, <2>4 DEF BypassInv
<1> QED
    BY <1>1, <1>3, <1>4, <1>5, <1>6, <1>7, <1>8, <1>9, <1>10, <1>2
    DEF Next, Evict

(* and it says that no bypass outlives its time. *)
LEMMA InvIsEnough == BypassInv => BypassEnds
BY DEF BypassInv, BypassEnds, Accounted, Unexpired, Recorded

(* No address bypasses the tunnel for longer than its time, whatever the   *)
(* App does to lists and table while queries and evictions are under way.  *)
THEOREM BypassIsBounded == Spec => []BypassEnds
<1>1. Spec => []BypassInv
    BY InvInit, InvStep, PTL DEF Spec
<1> QED
    BY <1>1, InvIsEnough, PTL
=============================================================================
