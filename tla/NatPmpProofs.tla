---------------------------- MODULE NatPmpProofs ----------------------------
(* The safety properties of NatPmp, for any number of clients, ports and    *)
(* protocols and for any number of requests, restarts and refusals of pf.   *)
EXTENDS NatPmp, WellFoundedInduction, TLAPS

(* The lesser-than relation, as WellFoundedInduction wants it. *)
Less == {p \in Nat \X Nat : p[1] < p[2]}

(* A set of natural numbers that is not empty has a least one: what        *)
(* find_external_port returns when it goes through the ports from below.   *)
LEMMA MinIsLeast ==
    ASSUME NEW S \in SUBSET Nat, S # {}
    PROVE  Min(S) \in S /\ \A y \in S : Min(S) <= y
<1>1. IsWellFoundedOn(Less, Nat)
    BY NatLessThanWellFounded DEF OpToRel, Less
<1>2. PICK x \in S : \A y \in S : <<y, x>> \notin Less
    BY <1>1, WFMin
<1>3. \A y \in S : x <= y
  <2> SUFFICES ASSUME NEW y \in S, ~(x <= y) PROVE FALSE
    OBVIOUS
  <2>1. <<y, x>> \in Nat \X Nat /\ y < x
    OBVIOUS
  <2>2. <<y, x>> \in Less
    BY <2>1 DEF Less
  <2> QED
    BY <1>2, <2>2
<1> QED
    BY <1>3 DEF Min

-----------------------------------------------------------------------------
(* The inductive invariant, in parts.                                      *)

\* A request is being handled from its first change to its answer.
Handling == /\ request # None => pc \in {"reload", "send"}
            /\ pc = "send" => request # None

\* Between two events the table is in pf; when there is no server nothing is,
\* so that a port is bound when the server before it has flushed for the last
\* time.
Written ==
    /\ pc \in {"select", "send"} /\ session = "held" /\ fresh => anchor = Rules
    /\ pc = "off" /\ fresh => anchor = {}

\* What the answer to a request will say holds of the table from the moment
\* it is changed.
Promised(r) ==
    /\ r.lifetime > 0 /\ external # 0
         => /\ <<r.protocol, external>> \in Mapped
            /\ mappings[<<r.protocol, external>>].client = r.client
            /\ mappings[<<r.protocol, external>>].internal = r.internal
    /\ r.lifetime = 0 /\ r.internal = 0 => OfClient(r.client) = {}
    /\ r.lifetime = 0 /\ r.suggested = 0 /\ r.internal # 0 => Named(r) = {}

Kept == request # None => Promised(request)

\* Nothing in the table has expired, unless the sweep is due.
Swept == pc # "off" /\ ~sweepDue => \A k \in Mapped : now < mappings[k].expires

IInv == TypeOK /\ Handling /\ Written /\ Kept /\ Swept

-----------------------------------------------------------------------------
(* Requests.                                                               *)

(* A port is granted only if it is free or the client's own.               *)
LEMMA ExternalPortIsGranted ==
    ASSUME TypeOK, NEW r \in Requests
    PROVE  /\ ExternalPort(r) \in {0} \cup Ports
           /\ ExternalPort(r) # 0 =>
                /\ <<r.protocol, ExternalPort(r)>> \in Keys
                /\ Grantable(<<r.protocol, ExternalPort(r)>>, r.client)
<1> DEFINE free == Free(r.protocol)
<1>1. r.suggested \in {0} \cup Ports /\ r.protocol \in Protocols
    BY DEF Requests
<1>2. free \in SUBSET Nat /\ free \subseteq Ports
    BY NatPmpAssumption DEF Free, Ports, MIN_ALLOWED_PORT
<1>3. CASE r.suggested # 0 /\ Grantable(<<r.protocol, r.suggested>>, r.client)
    BY <1>1, <1>3 DEF ExternalPort, Keys
<1>4. CASE ~(r.suggested # 0 /\ Grantable(<<r.protocol, r.suggested>>, r.client))
  <2>1. CASE free = {}
    BY <1>4, <2>1 DEF ExternalPort
  <2>2. CASE free # {}
    <3>1. Min(free) \in free /\ ExternalPort(r) = Min(free)
      BY <1>2, <1>4, <2>2, MinIsLeast DEF ExternalPort
    <3>2. mappings[<<r.protocol, Min(free)>>] = None
      BY <3>1 DEF Free
    <3> QED
      BY <1>1, <1>2, <3>1, <3>2 DEF Keys, Grantable
  <2> QED
    BY <2>1, <2>2
<1> QED
    BY <1>3, <1>4

(* A granted lifetime is not over before it begins. *)
LEMMA LifetimeLasts ==
    ASSUME NEW r \in Requests, r.lifetime > 0
    PROVE  Min({r.lifetime, MaxLifetime}) \in Nat \ {0}
<1>1. {r.lifetime, MaxLifetime} \in SUBSET (Nat \ {0})
    BY NatPmpAssumption DEF Requests
<1> QED
    BY <1>1, MinIsLeast

\* What a request does to the table.
Handled(r) ==
    /\ request' = r /\ pc' \in {"reload", "send"}
    /\ pc' = "send" => mappings' = mappings
    /\ mappings' \in [Keys -> Mapping \cup {None}]
    /\ external' \in {0} \cup Ports
    /\ Promised(r)'
    /\ \A k \in Mapped : mappings'[k] # mappings[k]
                           => r.client = mappings[k].client
    /\ \A k \in Keys : \/ mappings'[k] \in {mappings[k], None}
                       \/ now < mappings'[k].expires

(* What is taken out of the table is gone, and nothing else has changed. *)
LEMMA TakenOut ==
    ASSUME TypeOK, NEW gone \in SUBSET Keys, mappings' = Without(gone)
    PROVE  /\ mappings' \in [Keys -> Mapping \cup {None}]
           /\ Mapped' = Mapped \ gone
           /\ \A k \in Keys \ gone : mappings'[k] = mappings[k]
           /\ \A k \in Keys : mappings'[k] \in {mappings[k], None}
BY DEF TypeOK, Without, Mapped

(* A deletion. *)
LEMMA DeletionHandled ==
    ASSUME TypeOK, NEW r \in Requests, r.lifetime = 0,
           DeleteAll(r) \/ DeleteNamed(r) \/ DeletePort(r)
    PROVE  Handled(r)
<1>1. OfClient(r.client) \subseteq Keys /\ Named(r) \subseteq OfClient(r.client)
    BY DEF OfClient, Named, Mapped
<1>2. ASSUME NEW gone \in SUBSET Keys, NEW port \in {0} \cup Ports,
             Change(r, Without(gone), port),
             \A k \in gone \cap Mapped : mappings[k].client = r.client,
             r.internal = 0 => OfClient(r.client) \subseteq gone,
             r.internal # 0 /\ r.suggested = 0 => Named(r) \subseteq gone
      PROVE  Handled(r)
  <2>1. /\ mappings' = Without(gone) /\ external' = port /\ request' = r
        /\ pc' = "reload"
    BY <1>2 DEF Change
  <2>2. /\ mappings' \in [Keys -> Mapping \cup {None}]
        /\ Mapped' = Mapped \ gone
        /\ \A k \in Keys \ gone : mappings'[k] = mappings[k]
        /\ \A k \in Keys : mappings'[k] \in {mappings[k], None}
    BY <2>1, TakenOut
  <2>3. r.internal = 0 => OfClient(r.client)' = {}
    BY <1>2, <2>2 DEF OfClient, Mapped
  <2>4. r.internal # 0 /\ r.suggested = 0 => Named(r)' = {}
    BY <1>2, <2>2 DEF Named, OfClient, Mapped
  <2>5. Promised(r)'
    BY <2>3, <2>4 DEF Promised
  <2>6. \A k \in Mapped : mappings'[k] # mappings[k]
                            => r.client = mappings[k].client
    BY <1>2, <2>2 DEF Mapped
  <2> QED
    BY <1>2, <2>1, <2>2, <2>5, <2>6 DEF Handled
<1>3. ASSUME Answer(r, 0),
             r.internal = 0 => OfClient(r.client) = {},
             r.internal # 0 /\ r.suggested = 0 => Named(r) = {}
      PROVE  Handled(r)
  <2>1. /\ mappings' = mappings /\ external' = 0 /\ request' = r
        /\ pc' = "send"
    BY <1>3 DEF Answer
  <2>2. Promised(r)'
    BY <1>3, <2>1 DEF Promised, OfClient, Named, Mapped
  <2> QED
    BY <2>1, <2>2 DEF Handled, TypeOK
<1>4. CASE DeleteAll(r)
  <2>1. r.internal = 0
    BY <1>4 DEF DeleteAll
  <2>2. \A k \in OfClient(r.client) : mappings[k].client = r.client
    BY DEF OfClient
  <2> QED
    BY <1>1, <1>2, <1>3, <1>4, <2>1, <2>2 DEF DeleteAll
<1>5. CASE DeleteNamed(r)
  <2>1. r.internal # 0
    BY <1>5 DEF DeleteNamed
  <2>2. \A k \in Named(r) : mappings[k].client = r.client
    BY DEF Named, OfClient
  <2>3. Named(r) \in SUBSET Keys
    BY <1>1
  <2> QED
    BY <1>2, <1>3, <1>5, <2>1, <2>2, <2>3 DEF DeleteNamed
<1>6. CASE DeletePort(r)
  <2> DEFINE port == ExternalPort(r)
             key == <<r.protocol, port>>
  <2>1. r.internal # 0 /\ r.suggested # 0
    BY <1>6 DEF DeletePort
  <2>2. CASE port = 0
    BY <1>3, <1>6, <2>1, <2>2 DEF DeletePort
  <2>3. CASE port # 0
    <3>1. /\ port \in {0} \cup Ports /\ key \in Keys
          /\ mappings[key] = None \/ mappings[key].client = r.client
      BY <2>3, ExternalPortIsGranted DEF Grantable
    <3>2. Change(r, Without({key}), port)
      BY <1>6, <2>3 DEF DeletePort
    <3>3. \A k \in {key} \cap Mapped : mappings[k].client = r.client
      BY <3>1 DEF Mapped
    <3>4. {key} \in SUBSET Keys
      BY <3>1
    <3> HIDE DEF port, key
    <3> QED
      BY <1>2, <2>1, <3>1, <3>2, <3>3, <3>4
  <2> QED
    BY <2>2, <2>3
<1> QED
    BY <1>4, <1>5, <1>6

(* A mapping, made or renewed. *)
LEMMA MapHandled ==
    ASSUME TypeOK, NEW r \in Requests, Map(r)
    PROVE  Handled(r)
<1> DEFINE port == ExternalPort(r)
           key == <<r.protocol, port>>
           span == Min({r.lifetime, MaxLifetime})
           mapping == [client |-> r.client, internal |-> r.internal,
                       expires |-> now + span]
<1>1. r.lifetime > 0
    BY DEF Map
<1>2. CASE port = 0
  <2>1. /\ mappings' = mappings /\ external' = 0 /\ request' = r
        /\ pc' = "send"
    BY <1>2 DEF Map, Answer
  <2>2. Promised(r)'
    BY <1>1, <2>1 DEF Promised, Requests
  <2> QED
    BY <2>1, <2>2 DEF Handled, TypeOK
<1>3. CASE port # 0
  <2>1. /\ mappings' = [mappings EXCEPT ![key] = mapping]
        /\ external' = port /\ request' = r /\ pc' = "reload"
    BY <1>3 DEF Map, Change
  <2>2. /\ port \in Ports /\ key \in Keys
        /\ mappings[key] = None \/ mappings[key].client = r.client
    BY <1>3, ExternalPortIsGranted DEF Grantable
  <2>3. span \in Nat \ {0}
    BY <1>1, LifetimeLasts
  <2>4. /\ mapping \in Mapping /\ mapping # None /\ now < mapping.expires
        /\ mapping.client = r.client /\ mapping.internal = r.internal
    <3> HIDE DEF span
    <3>1. now \in Nat
      BY DEF TypeOK
    <3>2. mapping \in Mapping
      BY <2>3, <3>1 DEF Requests, Mapping
    <3> QED
      BY <2>3, <3>1, <3>2, NatPmpAssumption
  <2> HIDE DEF span, mapping, key, port
  <2>5. /\ mappings' \in [Keys -> Mapping \cup {None}]
        /\ mappings'[key] = mapping
        /\ \A k \in Keys : k # key => mappings'[k] = mappings[k]
    BY <2>1, <2>2, <2>4 DEF TypeOK
  <2>6. key \in Mapped'
    BY <2>2, <2>4, <2>5 DEF Mapped
  <2>7. Promised(r)'
    <3>1. <<r.protocol, external'>> = key
      BY <2>1 DEF key
    <3> QED
      BY <1>1, <2>4, <2>5, <2>6, <3>1 DEF Promised, Requests
  <2>8. \A k \in Mapped : mappings'[k] # mappings[k]
                            => r.client = mappings[k].client
    BY <2>2, <2>5 DEF Mapped
  <2> QED
    BY <2>1, <2>2, <2>4, <2>5, <2>7, <2>8 DEF Handled
<1> QED
    BY <1>2, <1>3

(* Every request that changes something, or nothing. *)
LEMMA ReceiveHandled ==
    ASSUME TypeOK, Receive
    PROVE  \E r \in Requests : Handled(r)
BY DeletionHandled, MapHandled
   DEF Receive, DeleteAll, DeleteNamed, DeletePort

-----------------------------------------------------------------------------
(* The invariant.                                                          *)

(* The machine starts without a server. *)
LEMMA InitIInv == Init => IInv
<1> SUFFICES ASSUME Init PROVE IInv
    OBVIOUS
<1>1. TypeOK
    BY DEF Init, TypeOK
<1>2. Handling /\ Written /\ Kept /\ Swept
    BY DEF Init, Handling, Written, Kept, Swept
<1> QED
    BY <1>1, <1>2 DEF IInv

(* pf takes a command or refuses it, and fresh says which. *)
LEMMA CommandEffect ==
    ASSUME TypeOK, NEW rules, Accepted(rules) \/ Refused
    PROVE  /\ anchor' \in {anchor, rules}
           /\ fresh' \in BOOLEAN /\ failures' \in Nat
           /\ fresh' => anchor' = rules
<1>1. CASE Accepted(rules)
  <2>1. anchor' = rules /\ fresh' = TRUE /\ failures' = failures
    BY <1>1 DEF Accepted
  <2>2. failures' \in Nat
    BY <2>1 DEF TypeOK
  <2> QED
    BY <2>1, <2>2
<1>2. CASE Refused
  <2>1. anchor' = anchor /\ fresh' = FALSE /\ failures' = failures + 1
    BY <1>2 DEF Refused
  <2>2. failures' \in Nat
    BY <2>1 DEF TypeOK
  <2> QED
    BY <2>1, <2>2
<1> QED
    BY <1>1, <1>2

(* A flush leaves no rule that was not there, and none if pf takes it. *)
LEMMA FlushEffect ==
    ASSUME TypeOK, Flush
    PROVE  /\ anchor' \subseteq [protocol : Protocols, port : Ports,
                                client : Clients,
                                internal : {0} \cup InternalPorts]
           /\ fresh' \in BOOLEAN /\ failures' \in Nat
           /\ fresh' => anchor' = {}
<1>1. Accepted({}) \/ Refused
    BY DEF Flush
<1>2. /\ anchor' \in {anchor, {}}
      /\ fresh' \in BOOLEAN /\ failures' \in Nat
      /\ fresh' => anchor' = {}
    BY <1>1, CommandEffect
<1> QED
    BY <1>2 DEF TypeOK

(* The session's side: flushes, binding, the signal. *)
LEMMA SessionKeepsIInv ==
    ASSUME IInv, StartFlush \/ Bind \/ BindFails \/ Shutdown \/ StopFlush
    PROVE  IInv'
<1>1. TypeOK'
  <2>1. CASE StartFlush \/ StopFlush
    <3>1. Flush
      BY <2>1 DEF StartFlush, StopFlush
    <3>2. /\ UNCHANGED <<pc, mappings, request, external, stopping, now, sweepDue>>
          /\ session' \in {"flushed", "none"} /\ starts' \in Nat
      BY <2>1 DEF IInv, TypeOK, StartFlush, StopFlush, clockVars
    <3> QED
      BY <3>1, <3>2, FlushEffect DEF IInv, TypeOK
  <2>2. CASE Bind
    BY <2>2 DEF IInv, TypeOK, Bind, boundVars
  <2>3. CASE BindFails
    BY <2>3 DEF IInv, TypeOK, BindFails, serverVars, clockVars, boundVars
  <2>4. CASE Shutdown
    BY <2>4 DEF IInv, TypeOK, Shutdown, clockVars, boundVars
  <2> QED
    BY <2>1, <2>2, <2>3, <2>4
<1>2. CASE Bind
  <2>1. /\ Mapped' = {} /\ request' = None /\ pc' = "select"
        /\ fresh' => anchor' = {}
    BY <1>2 DEF Bind, IInv, Handling, Written, Mapped, boundVars
  <2>2. Rules' = {}
    BY <2>1 DEF Rules
  <2> QED
    BY <1>1, <2>1, <2>2 DEF IInv, Handling, Written, Kept, Swept
<1>3. CASE ~Bind
  <2>1. UNCHANGED <<pc, mappings, request, external, now, sweepDue>>
    BY <1>3 DEF StartFlush, BindFails, Shutdown, StopFlush, serverVars,
       clockVars
  <2>2. Mapped' = Mapped /\ Rules' = Rules
    BY <2>1 DEF Rules, Rule, Mapped
  <2>3. Handling' /\ Kept' /\ Swept'
    BY <2>1, <2>2 DEF IInv, Handling, Kept, Promised, OfClient, Named, Swept
  <2>4. CASE StartFlush \/ StopFlush
    <3>1. Flush /\ session' # "held"
      BY <2>4 DEF StartFlush, StopFlush
    <3>2. Written'
      BY <3>1, FlushEffect DEF IInv, Written
    <3> QED
      BY <1>1, <2>3, <3>2 DEF IInv
  <2>5. CASE BindFails \/ Shutdown
    <3>1. session' # "held" /\ UNCHANGED <<fresh, anchor>>
      BY <2>5 DEF BindFails, Shutdown, serverVars
    <3>2. Written'
      BY <2>1, <3>1 DEF IInv, Written
    <3> QED
      BY <1>1, <2>3, <3>2 DEF IInv
  <2> QED
    BY <1>3, <2>4, <2>5
<1> QED
    BY <1>2, <1>3

(* A request. *)
LEMMA ReceiveKeepsIInv ==
    ASSUME IInv, Receive
    PROVE  IInv'
<1>1. PICK r \in Requests : Handled(r)
    BY ReceiveHandled DEF IInv
<1>2. /\ pc = "select"
      /\ UNCHANGED <<stopping, fresh, anchor, session, now, sweepDue, starts,
                     failures>>
    BY DEF Receive, clockVars, boundVars
<1>3. TypeOK'
    BY <1>1, <1>2 DEF IInv, TypeOK, Handled
<1>4. Handling'
    BY <1>1, <1>2, NatPmpAssumption DEF Handled, Handling
<1>5. Kept'
  <2>1. Promised(request)'
    BY <1>1 DEF Handled, Promised, OfClient, Named
  <2> QED
    BY <2>1 DEF Kept
<1>6. Written'
  <2>1. pc' = "send" => Rules' = Rules
    BY <1>1 DEF Handled, Rules, Rule, Mapped
  <2> QED
    BY <1>1, <1>2, <2>1 DEF IInv, Handled, Written
<1>7. Swept'
    BY <1>1, <1>2 DEF IInv, Handled, Swept, Mapped
<1> QED
    BY <1>3, <1>4, <1>5, <1>6, <1>7 DEF IInv

(* The anchor is rewritten, or pf refuses it; the answer is sent. *)
LEMMA ReloadKeepsIInv ==
    ASSUME IInv, Reload \/ Send
    PROVE  IInv'
<1>1. UNCHANGED <<mappings, stopping, session, now, sweepDue, starts>>
    BY DEF Reload, Send, clockVars, boundVars
<1>2. Rules \subseteq [protocol : Protocols, port : Ports, client : Clients,
                       internal : {0} \cup InternalPorts]
  <2>1. \A k \in Mapped : mappings[k] \in Mapping /\ k \in Protocols \X Ports
    BY DEF IInv, TypeOK, Mapped, Keys
  <2> QED
    BY <2>1 DEF Rules, Rule, Mapping
<1>3. CASE Reload
  <2>1. Accepted(Rules) \/ Refused
    BY <1>3 DEF Reload
  <2>2. /\ anchor' \in {anchor, Rules} /\ fresh' \in BOOLEAN
        /\ failures' \in Nat
        /\ fresh' => anchor' = Rules
    BY <2>1, CommandEffect DEF IInv
  <2>3. /\ pc' \in {"select", "send"} /\ UNCHANGED <<request, external>>
        /\ request' = None <=> pc' = "select"
    BY <1>3, NatPmpAssumption DEF Reload, AfterReload
  <2>4. TypeOK'
    BY <1>1, <1>2, <2>2, <2>3 DEF IInv, TypeOK
  <2>5. Mapped' = Mapped /\ Rules' = Rules
    BY <1>1 DEF Rules, Rule, Mapped
  <2>6. Handling'
    BY <2>3 DEF Handling
  <2>7. Written'
    BY <2>2, <2>3, <2>5 DEF Written
  <2>8. Swept'
    BY <1>1, <1>3, <2>3, <2>5 DEF IInv, Swept, Reload
  <2>9. Kept'
    BY <1>1, <2>3, <2>5 DEF IInv, Kept, Promised, OfClient, Named
  <2> QED
    BY <2>4, <2>6, <2>7, <2>8, <2>9 DEF IInv
<1>4. CASE Send
  <2>1. /\ pc = "send" /\ pc' = "select" /\ request' = None /\ external' = 0
        /\ UNCHANGED <<fresh, anchor, failures>>
    BY <1>4 DEF Send, boundVars
  <2>2. TypeOK'
    BY <1>1, <2>1 DEF IInv, TypeOK
  <2>3. Mapped' = Mapped /\ Rules' = Rules
    BY <1>1 DEF Rules, Rule, Mapped
  <2>4. Handling' /\ Written' /\ Kept'
    BY <1>1, <2>1, <2>3 DEF IInv, Handling, Written, Kept
  <2>5. Swept'
    BY <1>1, <2>1, <2>3 DEF IInv, Swept
  <2> QED
    BY <2>2, <2>4, <2>5 DEF IInv
<1> QED
    BY <1>3, <1>4

(* The sweep. *)
LEMMA SweepKeepsIInv ==
    ASSUME IInv, Sweep
    PROVE  IInv'
<1>1. /\ pc = "select" /\ mappings' = Without(Expired) /\ sweepDue' = FALSE
      /\ pc' = IF Expired = {} THEN "select" ELSE "reload"
      /\ UNCHANGED <<request, external, stopping, fresh, anchor, session, now,
                     starts, failures>>
    BY DEF Sweep, boundVars
<1>2. Expired \in SUBSET Keys
    BY DEF Expired, Mapped
<1>3. /\ mappings' \in [Keys -> Mapping \cup {None}]
      /\ Mapped' = Mapped \ Expired
      /\ \A k \in Keys \ Expired : mappings'[k] = mappings[k]
    BY <1>1, <1>2, TakenOut DEF IInv
<1>4. TypeOK'
    BY <1>1, <1>3 DEF IInv, TypeOK
<1>5. request' = None
    BY <1>1 DEF IInv, Handling
<1>6. Handling' /\ Kept'
    BY <1>1, <1>5 DEF Handling, Kept
<1>7. Written'
  <2>1. Expired = {} => Rules' = Rules
    BY <1>3 DEF Rules, Rule, Mapped
  <2> QED
    BY <1>1, <2>1 DEF IInv, Written
<1>8. Swept'
  <2>1. \A k \in Mapped' : mappings'[k] \in Mapping
    BY <1>3 DEF Mapped
  <2>2. \A k \in Mapped' : k \in Mapped /\ mappings'[k] = mappings[k]
                            /\ ~(now >= mappings[k].expires)
    BY <1>3 DEF Expired, Mapped
  <2> QED
    BY <1>1, <2>1, <2>2 DEF IInv, TypeOK, Swept, Mapping
<1> QED
    BY <1>4, <1>6, <1>7, <1>8 DEF IInv

(* The end of the server, and time. *)
LEMMA RestKeepsIInv ==
    ASSUME IInv, SeeShutdown \/ Exit \/ Tick \/ UNCHANGED vars
    PROVE  IInv'
<1>1. TypeOK'
  <2>1. CASE SeeShutdown
    BY <2>1 DEF IInv, TypeOK, SeeShutdown, clockVars, boundVars
  <2>2. CASE Exit
    <3>1. Flush /\ pc' = "off" /\ UNCHANGED <<mappings, request, external, stopping,
                                           session, now, sweepDue, starts>>
      BY <2>2 DEF Exit, clockVars
    <3> QED
      BY <3>1, FlushEffect DEF IInv, TypeOK
  <2>3. CASE Tick
    BY <2>3 DEF IInv, TypeOK, Tick, serverVars, boundVars
  <2>4. CASE UNCHANGED vars
    BY <2>4 DEF IInv, TypeOK, vars, serverVars, clockVars, boundVars
  <2> QED
    BY <2>1, <2>2, <2>3, <2>4
<1>2. UNCHANGED <<mappings, request, external, session>>
    BY DEF SeeShutdown, Exit, Tick, vars, serverVars, clockVars, boundVars
<1>3. Mapped' = Mapped /\ Rules' = Rules
    BY <1>2 DEF Rules, Rule, Mapped
<1>4. Handling' /\ Kept'
    BY <1>2, <1>3 DEF IInv, Handling, Kept, Promised, OfClient, Named,
       SeeShutdown, Exit, Tick, vars, serverVars
<1>5. Written'
  <2>1. CASE Exit
    BY <2>1, FlushEffect DEF IInv, Exit, Written
  <2>2. CASE ~Exit
    BY <1>2, <1>3, <2>2 DEF IInv, Written, SeeShutdown, Tick, vars, serverVars
  <2> QED
    BY <2>1, <2>2
<1>6. Swept'
    BY <1>2, <1>3 DEF IInv, Swept, SeeShutdown, Exit, Tick, vars, serverVars,
       clockVars
<1> QED
    BY <1>1, <1>4, <1>5, <1>6 DEF IInv

(* IInv is inductive. *)
LEMMA NextKeepsIInv ==
    ASSUME IInv, [Next]_vars
    PROVE  IInv'
BY SessionKeepsIInv, ReceiveKeepsIInv, ReloadKeepsIInv, SweepKeepsIInv,
   RestKeepsIInv DEF Next, Server

(* The inductive invariant holds always. *)
LEMMA AlwaysIInv == Spec => []IInv
BY InitIInv, NextKeepsIInv, PTL DEF Spec

-----------------------------------------------------------------------------
(* What the server promises.                                               *)

(* Every variable keeps its type. *)
THEOREM TypeCorrect == Spec => []TypeOK
<1>1. IInv => TypeOK
    BY DEF IInv
<1> QED
    BY <1>1, AlwaysIInv, PTL

(* The rules in pf are the table (reload_anchor_rules, flush_anchor_async  *)
(* in NatPmpServer::start and stop): no order of a start, the end of the   *)
(* server before it, its last rewrite and its last flush leaves a server   *)
(* that serves with rules it does not know of or without its own, unless   *)
(* pf refused the last command about the anchor.                           *)
THEOREM AnchorFollowsTable == Spec => []AnchorIsTable
<1>1. IInv => AnchorIsTable
    BY DEF IInv, Written, AnchorIsTable
<1> QED
    BY <1>1, AlwaysIInv, PTL

(* The answer to a request says what is in the table when it is sent, and  *)
(* in pf if that took the reload (handle_map_request, handle_delete): a    *)
(* granted port leads to the client that asked, and nothing is left of     *)
(* what was deleted by name.                                               *)
THEOREM AnswersAreTrue == Spec => []AnswerIsTrue
<1>1. IInv => AnswerIsTrue
  <2> SUFFICES ASSUME IInv, pc = "send" PROVE AnswerIsTrue
    BY DEF AnswerIsTrue
  <2>1. Promised(request)
    BY DEF IInv, Handling, Kept
  <2>2. fresh /\ session = "held" => anchor = Rules
    BY DEF IInv, Written
  <2> QED
    BY <2>1, <2>2 DEF AnswerIsTrue, Promised, Mapped, Rules
<1> QED
    BY <1>1, AlwaysIInv, PTL

(* No redirect outlives its mapping by more than one expiry interval       *)
(* (expire_mappings), on whatever side of a request or a restart it falls, *)
(* unless pf refused the rewrite that was to close it.                     *)
THEOREM ExpiredAreClosed == Spec => []ExpiredIsClosed
<1>1. IInv => ExpiredIsClosed
  <2> SUFFICES ASSUME IInv, pc = "select", session = "held", fresh, ~sweepDue,
                      NEW rule \in anchor
               PROVE  LET mapping == mappings[<<rule.protocol, rule.port>>]
                      IN  mapping # None /\ now < mapping.expires
    BY DEF ExpiredIsClosed
  <2>1. PICK k \in Mapped : rule = Rule(k)
    BY DEF IInv, Written, Rules
  <2>2. <<rule.protocol, rule.port>> = k
    BY <2>1 DEF Rule, Mapped, Keys
  <2> QED
    BY <2>2 DEF IInv, Swept, Mapped
<1> QED
    BY <1>1, AlwaysIInv, PTL

(* No client can take, move or delete the mapping of another               *)
(* (find_external_port, handle_delete): a mapping changes by a request of  *)
(* its own client, because it has expired, or with its server.             *)
THEOREM ClientsAreIsolated == Spec => OthersAreUntouched
<1> DEFINE Untouched == \A k \in Mapped : mappings'[k] # mappings[k] =>
                             \/ request' # None
                                  /\ request'.client = mappings[k].client
                             \/ k \in Expired
                             \/ session = "flushed"
<1>1. IInv /\ [Next]_vars => [Untouched]_vars
  <2> SUFFICES ASSUME IInv, Next PROVE Untouched
    OBVIOUS
  <2>1. CASE Receive
    BY <2>1, ReceiveHandled, NatPmpAssumption DEF IInv, Handled
  <2>2. CASE Sweep
    <3>1. Expired \in SUBSET Keys /\ mappings' = Without(Expired)
      BY <2>2 DEF Expired, Mapped, Sweep
    <3> QED
      BY <3>1, TakenOut DEF IInv, Mapped
  <2>3. CASE Bind
    BY <2>3 DEF Bind
  <2>4. CASE ~Receive /\ ~Sweep /\ ~Bind
    BY <2>4 DEF Next, Server, StartFlush, BindFails, Shutdown, StopFlush,
       Reload, Send, SeeShutdown, Exit, Tick, serverVars
  <2> QED
    BY <2>1, <2>2, <2>3, <2>4
<1> QED
    BY <1>1, AlwaysIInv, PTL DEF Spec, OthersAreUntouched
=============================================================================
