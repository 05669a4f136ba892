------------------------------- MODULE NatPmp -------------------------------
(***************************************************************************)
(* The NAT-PMP server (system/natpmp.rs): one task that owns the table of  *)
(* port mappings and rewrites the rules of its pf anchor after a change,   *)
(* and the session that starts it, tells it to stop and flushes the same   *)
(* anchor.  Requests come from LAN clients; what is_lan_client refuses and *)
(* the opcodes that map nothing change no state.  A unit of time is one    *)
(* expiry interval (30 s).                                                 *)
(***************************************************************************)
EXTENDS Integers, FiniteSetsExt

CONSTANTS Clients, Protocols,
          InternalPorts,     \* ports of a client, without 0
          MaxPort,           \* the last port, 65535 in the code
          MaxLifetime,       \* MAX_LIFETIME
          MaxTime, MaxStarts,   \* bounds of an instance, and how many
          MaxFailures,          \* commands pf refuses in it
          None

MIN_ALLOWED_PORT == 1024

Ports == MIN_ALLOWED_PORT..MaxPort
Keys == Protocols \X Ports               \* MappingKey
Mapping == [client : Clients, internal : {0} \cup InternalPorts, expires : Nat]

(* A suggested port of 0 stands for every port below MIN_ALLOWED_PORT. *)
Requests == [client : Clients, protocol : Protocols,
             internal : {0} \cup InternalPorts,
             suggested : {0} \cup Ports,
             lifetime : 0..(MaxLifetime + 1)]

ASSUME NatPmpAssumption ==
    /\ 0 \notin InternalPorts /\ InternalPorts \subseteq Nat
    /\ MaxPort \in Nat /\ MIN_ALLOWED_PORT <= MaxPort
    /\ MaxLifetime \in Nat \ {0}
    /\ MaxTime \in Nat /\ MaxStarts \in Nat /\ MaxFailures \in Nat
    /\ None \notin Mapping /\ None \notin Requests

VARIABLES
    pc,         \* "off", "select", "reload", "send" or "exit": the server task
    mappings,   \* the table it owns
    request,    \* the request it is handling, or None
    external,   \* the port its answer will name; 0 in an answer to a deletion
    stopping,   \* the value of the shutdown channel
    anchor,     \* rules loaded in com.tunshare/natpmp
    fresh,      \* pf took the last command about the anchor
    session,    \* "none", "flushed", "held" or "stopping": the other side
    sweepDue,   \* the expiry interval has ticked
    now, starts, failures

serverVars == <<pc, mappings, request, external, stopping, fresh>>
clockVars  == <<now, sweepDue>>
boundVars  == <<starts, failures>>
vars == <<serverVars, anchor, session, clockVars, boundVars>>

Mapped == {k \in Keys : mappings[k] # None}

(* The rdr and pass rules of one mapping. *)
Rule(k) == [protocol |-> k[1], port |-> k[2], client |-> mappings[k].client,
            internal |-> mappings[k].internal]
Rules == {Rule(k) : k \in Mapped}

Without(gone) == [k \in Keys |-> IF k \in gone THEN None ELSE mappings[k]]

Init == /\ pc = "off" /\ mappings = [k \in Keys |-> None]
        /\ request = None /\ external = 0 /\ stopping = FALSE
        /\ anchor = {} /\ fresh = TRUE
        /\ session = "none" /\ sweepDue = FALSE
        /\ now = 0 /\ starts = 0 /\ failures = 0

-----------------------------------------------------------------------------
(* pfctl on the anchor.  Nobody looks at what it says: not the server       *)
(* (flush_anchor_rules, reload_anchor_rules), not the session (stop_sync). *)

Accepted(rules) ==
    anchor' = rules /\ fresh' = TRUE /\ UNCHANGED failures

Refused ==
    /\ failures < MaxFailures /\ failures' = failures + 1
    /\ fresh' = FALSE /\ UNCHANGED anchor

Flush == Accepted({}) \/ Refused

-----------------------------------------------------------------------------
(* The session: start is a flush and a bind; stop is a signal and a flush. *)

StartFlush ==
    /\ session = "none" /\ starts < MaxStarts
    /\ session' = "flushed" /\ starts' = starts + 1
    /\ Flush
    /\ UNCHANGED <<pc, mappings, request, external, stopping, clockVars>>

(* The socket is free once the task that had it is gone, unless another    *)
(* program has it.                                                         *)
Bind ==
    /\ session = "flushed" /\ pc = "off"
    /\ session' = "held" /\ pc' = "select"
    /\ mappings' = [k \in Keys |-> None]
    /\ stopping' = FALSE /\ sweepDue' = FALSE
    /\ UNCHANGED <<request, external, fresh, anchor, now, boundVars>>

BindFails ==
    /\ session = "flushed"
    /\ session' = "none"
    /\ UNCHANGED <<serverVars, anchor, clockVars, boundVars>>

Shutdown ==
    /\ session = "held"
    /\ session' = "stopping" /\ stopping' = TRUE
    /\ UNCHANGED <<pc, mappings, request, external, fresh, anchor, clockVars,
                   boundVars>>

StopFlush ==
    /\ session = "stopping"
    /\ session' = "none" /\ Flush
    /\ UNCHANGED <<pc, mappings, request, external, stopping, clockVars, starts>>

-----------------------------------------------------------------------------
(* handle_request: the table changes first, then the anchor is rewritten,  *)
(* then the answer is sent.                                                *)

Free(protocol) == {p \in Ports : mappings[<<protocol, p>>] = None}

(* Mutant of Grantable: whose port it is is not looked at. *)
AlwaysGrantable(k, client) == k \in Keys

Grantable(k, client) == mappings[k] = None \/ mappings[k].client = client

(* Mutant of ExternalPort: the port above the last one in use. *)
PortAboveLast(r) ==
    LET used == Ports \ Free(r.protocol)
    IN IF r.suggested # 0 /\ Grantable(<<r.protocol, r.suggested>>, r.client)
       THEN r.suggested
       ELSE IF used = {} THEN MIN_ALLOWED_PORT ELSE Max(used) + 1

(* The suggested port if the client may have it, or the first free one. *)
ExternalPort(r) ==
    IF r.suggested # 0 /\ Grantable(<<r.protocol, r.suggested>>, r.client)
    THEN r.suggested
    ELSE IF Free(r.protocol) = {} THEN 0 ELSE Min(Free(r.protocol))

OfClient(client) == {k \in Mapped : mappings[k].client = client}

(* A client may have several external ports for one of its own. *)
Named(r) == {k \in OfClient(r.client) : /\ k[1] = r.protocol
                                        /\ mappings[k].internal = r.internal}

(* Changes that rewrite the anchor, and those that found nothing to do. *)
Change(r, table, port) ==
    /\ mappings' = table /\ external' = port /\ request' = r
    /\ pc' = "reload"

Answer(r, port) ==
    /\ external' = port /\ request' = r /\ pc' = "send"
    /\ UNCHANGED mappings

DeleteAll(r) ==
    /\ r.lifetime = 0 /\ r.internal = 0
    /\ IF OfClient(r.client) # {}
       THEN Change(r, Without(OfClient(r.client)), 0)
       ELSE Answer(r, 0)

(* Mutant of DeleteNamed: the search stops at the first mapping. *)
DeleteFirstNamed(r) ==
    /\ r.lifetime = 0 /\ r.internal # 0 /\ r.suggested = 0
    /\ IF Named(r) # {}
       THEN \E k \in Named(r) : Change(r, Without({k}), 0)
       ELSE Answer(r, 0)

DeleteNamed(r) ==
    /\ r.lifetime = 0 /\ r.internal # 0 /\ r.suggested = 0
    /\ IF Named(r) # {} THEN Change(r, Without(Named(r)), 0) ELSE Answer(r, 0)

DeletePort(r) ==
    /\ r.lifetime = 0 /\ r.internal # 0 /\ r.suggested # 0
    /\ IF ExternalPort(r) = 0
       THEN Answer(r, 0)
       ELSE Change(r, Without({<<r.protocol, ExternalPort(r)>>}), ExternalPort(r))

Map(r) ==
    /\ r.lifetime > 0
    /\ LET port == ExternalPort(r)
           mapping == [client |-> r.client, internal |-> r.internal,
                       expires |-> now + Min({r.lifetime, MaxLifetime})]
       IN IF port = 0
          THEN Answer(r, 0)
          ELSE Change(r, [mappings EXCEPT ![<<r.protocol, port>>] = mapping], port)

Receive ==
    /\ pc = "select"
    /\ \E r \in Requests : DeleteAll(r) \/ DeleteNamed(r) \/ DeletePort(r) \/ Map(r)
    /\ UNCHANGED <<stopping, fresh, anchor, session, clockVars, boundVars>>

(* The end of reload_anchor_rules.                                         *)
AfterReload == pc' = IF request = None THEN "select" ELSE "send"

(* Mutant: an empty table is not written, instead of flushed. *)
ReloadNonEmpty ==
    /\ pc = "reload" /\ AfterReload
    /\ Accepted(IF Rules = {} THEN anchor ELSE Rules) \/ Refused
    /\ UNCHANGED <<mappings, request, external, stopping, session, clockVars,
                   starts>>

Reload ==
    /\ pc = "reload" /\ AfterReload
    /\ Accepted(Rules) \/ Refused
    /\ UNCHANGED <<mappings, request, external, stopping, session, clockVars,
                   starts>>

Send ==
    /\ pc = "send"
    /\ pc' = "select" /\ request' = None /\ external' = 0
    /\ UNCHANGED <<mappings, stopping, fresh, anchor, session, clockVars,
                   boundVars>>

-----------------------------------------------------------------------------
(* The other branches of the select. *)

Expired == {k \in Mapped : now >= mappings[k].expires}

(* Mutant of Sweep: what has expired stays in the rules. *)
SweepTableOnly ==
    /\ pc = "select" /\ sweepDue
    /\ sweepDue' = FALSE
    /\ mappings' = Without(Expired)
    /\ UNCHANGED <<pc, request, external, stopping, fresh, anchor, session, now,
                   boundVars>>

Sweep ==
    /\ pc = "select" /\ sweepDue
    /\ sweepDue' = FALSE
    /\ mappings' = Without(Expired)
    /\ pc' = IF Expired = {} THEN "select" ELSE "reload"
    /\ UNCHANGED <<request, external, stopping, fresh, anchor, session, now,
                   boundVars>>

SeeShutdown ==
    /\ pc = "select" /\ stopping
    /\ pc' = "exit"
    /\ UNCHANGED <<mappings, request, external, stopping, fresh, anchor, session,
                   clockVars, boundVars>>

(* Mutant of Exit: the task ends without a flush of its own. *)
ExitUnflushed ==
    /\ pc = "exit"
    /\ pc' = "off"
    /\ UNCHANGED <<mappings, request, external, stopping, fresh, anchor, session,
                   clockVars, boundVars>>

(* The last flush; the socket is closed after it. *)
Exit ==
    /\ pc = "exit"
    /\ Flush /\ pc' = "off"
    /\ UNCHANGED <<mappings, request, external, stopping, session, clockVars,
                   starts>>

(* A running server sweeps before the next interval has passed. *)
Tick ==
    /\ now < MaxTime
    /\ ~sweepDue
    /\ now' = now + 1 /\ sweepDue' = (pc # "off")
    /\ UNCHANGED <<serverVars, anchor, session, boundVars>>

Server == Receive \/ Reload \/ Send \/ Sweep \/ SeeShutdown \/ Exit

Next == \/ StartFlush \/ Bind \/ BindFails \/ Shutdown \/ StopFlush
        \/ Server \/ Tick

Spec == Init /\ [][Next]_vars

(* tokio polls the task, select takes each ready branch in the end, and a  *)
(* teardown that has begun goes on.                                        *)
FairSpec ==
    /\ Spec
    /\ WF_vars(Reload) /\ WF_vars(Send)
    /\ SF_vars(SeeShutdown) /\ WF_vars(Exit) /\ WF_vars(StopFlush)

-----------------------------------------------------------------------------
(* Every variable has its type. *)
TypeOK ==
    /\ pc \in {"off", "select", "reload", "send", "exit"}
    /\ mappings \in [Keys -> Mapping \cup {None}]
    /\ request \in Requests \cup {None}
    /\ external \in {0} \cup Ports
    /\ stopping \in BOOLEAN /\ fresh \in BOOLEAN /\ sweepDue \in BOOLEAN
    /\ anchor \subseteq [protocol : Protocols, port : Ports, client : Clients,
                         internal : {0} \cup InternalPorts]
    /\ session \in {"none", "flushed", "held", "stopping"}
    /\ now \in Nat /\ starts \in Nat /\ failures \in Nat

(* A server that is not being stopped and waits for the next event has its *)
(* table in pf, no more and no less: no flush of an earlier server or      *)
(* session comes late and takes its rules away.  Excepted is a table of    *)
(* which pf refused the last rewrite, or an anchor of which it refused the *)
(* flush before: the next rewrite that pf accepts puts either right.       *)
AnchorIsTable ==
    pc = "select" /\ session = "held" /\ fresh => anchor = Rules

(* What an answer says is true when it is sent: a granted port leads to    *)
(* the client that asked, in the table; and in pf, unless pf refused the   *)
(* reload, which the answer does not tell.  Nothing is left of what was    *)
(* deleted by name.                                                        *)
AnswerIsTrue ==
    pc = "send" =>
        /\ request.lifetime > 0 /\ external # 0
             => LET k == <<request.protocol, external>>
                IN /\ mappings[k] # None /\ mappings[k].client = request.client
                   /\ mappings[k].internal = request.internal
                   /\ fresh /\ session = "held" => Rule(k) \in anchor
        /\ request.lifetime = 0 /\ request.internal = 0
             => OfClient(request.client) = {}
        /\ request.lifetime = 0 /\ request.suggested = 0 /\ request.internal # 0
             => Named(request) = {}

(* No client can take, move or delete a mapping of another one: it lasts   *)
(* until its lifetime is over or its server ends.                          *)
OthersAreUntouched ==
    [][\A k \in Mapped :
         mappings'[k] # mappings[k] =>
            \/ request' # None /\ request'.client = mappings[k].client
            \/ k \in Expired
            \/ session = "flushed"]_vars

(* A redirect does not outlive its mapping by more than one interval,      *)
(* unless pf refused the rewrite that was to close it.                     *)
ExpiredIsClosed ==
    pc = "select" /\ session = "held" /\ fresh /\ ~sweepDue
        => \A rule \in anchor :
             LET mapping == mappings[<<rule.protocol, rule.port>>]
             IN mapping # None /\ now < mapping.expires

(* A stopped server leaves nothing behind once both sides have flushed,    *)
(* even if it rewrote the anchor after the session's flush, and even if pf *)
(* refused one of the two: only if it refuses the later one, rules stay.   *)
StopsClean ==
    stopping ~> pc = "off" /\ session # "stopping" /\ (anchor = {} \/ ~fresh)
=============================================================================
