------------------------------ MODULE Resolver ------------------------------
(***************************************************************************)
(* The LAN resolver (system/resolver.rs) and the pf table of addresses     *)
(* that bypass the tunnel.  One UDP loop answers a query after the other,  *)
(* a TCP loop spawns a task for each, a third loop evicts what is too old; *)
(* the App swaps the lists and flushes the table under their feet.  A unit *)
(* of time is EVICT_TICK (60 s).                                           *)
(***************************************************************************)
EXTENDS Integers, FiniteSets

CONSTANTS Names, Addresses,
          Tcp,               \* tasks of TCP connections
          BYPASS_TTL,        \* 60 units in the code
          MaxTime, MaxFailures, MaxFlushes, MaxLists,  \* bounds of an instance
          None

ASSUME ResolverAssumption ==
    /\ BYPASS_TTL \in Nat \ {0}
    /\ "udp" \notin Tcp /\ None \notin Nat
    /\ MaxTime \in Nat /\ MaxFailures \in Nat /\ MaxFlushes \in Nat
    /\ MaxLists \in Nat

Workers == {"udp"} \cup Tcp
Loops == {"udp", "tcp", "evict"}

(* The names that a list applies to while its switch is on. *)
ResolverLists == [block : SUBSET Names, allow : SUBSET Names]

(* A query under way and the addresses its answer will carry. *)
QueryState == [pc : {"idle", "open", "vpn", "wan", "record", "answer"},
               ips : SUBSET Addresses,
               expiry : Nat]
NoQuery == [pc |-> "idle", ips |-> {}, expiry |-> 0]

VARIABLES
    serving,    \* nobody has called shutdown
    loops,      \* the loops that still run
    lists, wan, \* what a query reads: the lists, and whether WAN DNS is there
    query,      \* of each worker
    bypass,     \* the addresses installed, with their expiry
    stale,      \* what the eviction has taken out of bypass but not of pf
    table,      \* <tunshare_bypass> in pf
    refused,    \* what pf did not delete when it was told to
    tickDue, now, failures, flushes, swaps

appVars   == <<serving, lists, wan, flushes, swaps>>
clockVars == <<tickDue, now>>
vars == <<appVars, loops, query, bypass, stale, table, refused, clockVars, failures>>

Init == /\ serving = TRUE /\ loops = Loops
        /\ lists \in ResolverLists /\ wan \in BOOLEAN
        /\ query = [w \in Workers |-> NoQuery]
        /\ bypass = [ip \in Addresses |-> None]
        /\ stale = {} /\ table = {} /\ refused = {}
        /\ tickDue = FALSE /\ now = 0
        /\ failures = 0 /\ flushes = 0 /\ swaps = 0

-----------------------------------------------------------------------------
(* handle_query. *)

Go(w, q) == query' = [query EXCEPT ![w] = q]
Answer(w, ips) == Go(w, [query[w] EXCEPT !.pc = "answer", !.ips = ips])

(* A connection is accepted while the loop runs; what comes over it, and   *)
(* when, is up to the client, who may also just close it.                  *)
Accept(w) ==
    /\ w \in Tcp /\ query[w].pc = "idle" /\ "tcp" \in loops
    /\ Go(w, [NoQuery EXCEPT !.pc = "open"])
    /\ UNCHANGED <<appVars, loops, bypass, stale, table, refused, clockVars, failures>>

Hangup(w) ==
    /\ query[w].pc = "open" /\ Go(w, NoQuery)
    /\ UNCHANGED <<appVars, loops, bypass, stale, table, refused, clockVars, failures>>

(* Block has precedence over Allow. *)
Decision(name) == CASE name \in lists.block -> "block"
                    [] name \in lists.allow \ lists.block -> "allow"
                    [] OTHER -> "vpn"

(* A blocked name, an AAAA for a name that goes out on the WAN, or a WAN   *)
(* nobody attached: answered at once, without addresses.                   *)
Ask(w) ==
    /\ \/ w = "udp" /\ query[w].pc = "idle" /\ "udp" \in loops
       \/ query[w].pc = "open"
    /\ \E name \in Names, qtype \in {"A", "AAAA"} :
         \/ Decision(name) = "vpn" /\ Go(w, [NoQuery EXCEPT !.pc = "vpn"])
         \/ /\ Decision(name) = "allow" /\ qtype = "A" /\ wan
            /\ Go(w, [NoQuery EXCEPT !.pc = "wan"])
         \/ /\ \/ Decision(name) = "block"
               \/ Decision(name) = "allow" /\ ~(qtype = "A" /\ wan)
            /\ Answer(w, {})
    /\ UNCHANGED <<appVars, loops, bypass, stale, table, refused, clockVars, failures>>

VpnAnswers(w) ==
    /\ query[w].pc = "vpn"
    /\ Answer(w, {})
    /\ UNCHANGED <<appVars, loops, bypass, stale, table, refused, clockVars, failures>>

(* Mutant of WanAnswers: the addresses are installed without an expiry. *)
WanAnswersUndated(w) ==
    /\ query[w].pc = "wan"
    /\ \E ips \in SUBSET Addresses :
         /\ table' = table \cup ips
         /\ Go(w, [pc |-> "record", ips |-> ips, expiry |-> None])
    /\ UNCHANGED <<appVars, loops, bypass, stale, refused, clockVars, failures>>

(* install_bypass, up to the lock: pf first. *)
WanAnswers(w) ==
    /\ query[w].pc = "wan"
    /\ \E ips \in SUBSET Addresses :
         /\ table' = table \cup ips
         /\ \/ ips = {} /\ Answer(w, {})
            \/ /\ ips # {}
               /\ Go(w, [pc |-> "record", ips |-> ips, expiry |-> now + BYPASS_TTL])
    /\ UNCHANGED <<appVars, loops, bypass, stale, refused, clockVars, failures>>

(* No answer, or a table that cannot be written. *)
WanFails(w) ==
    /\ query[w].pc = "wan"
    /\ failures < MaxFailures /\ failures' = failures + 1
    /\ Answer(w, {})
    /\ UNCHANGED <<appVars, loops, bypass, stale, table, refused, clockVars>>

(* Mutant of Record: entries are renewed, never made. *)
RecordKnown(w) ==
    /\ query[w].pc = "record"
    /\ bypass' = [ip \in Addresses |->
                    IF ip \in query[w].ips /\ bypass[ip] # None
                    THEN query[w].expiry ELSE bypass[ip]]
    /\ Answer(w, query[w].ips)
    /\ UNCHANGED <<appVars, loops, stale, table, refused, clockVars, failures>>

(* install_bypass, with the lock. *)
Record(w) ==
    /\ query[w].pc = "record"
    /\ bypass' = [ip \in Addresses |->
                    IF ip \in query[w].ips THEN query[w].expiry ELSE bypass[ip]]
    /\ Answer(w, query[w].ips)
    /\ UNCHANGED <<appVars, loops, stale, table, refused, clockVars, failures>>

Send(w) ==
    /\ query[w].pc = "answer"
    /\ Go(w, NoQuery)
    /\ UNCHANGED <<appVars, loops, bypass, stale, table, refused, clockVars, failures>>

Serve(w) == \/ VpnAnswers(w) \/ WanAnswers(w) \/ WanFails(w) \/ Record(w)
            \/ Send(w)

-----------------------------------------------------------------------------
(* evict_loop: out of the map under the lock, out of pf without it. *)

Expired == {ip \in Addresses : bypass[ip] # None /\ now >= bypass[ip]}

EvictTake ==
    /\ "evict" \in loops /\ stale = {} /\ tickDue
    /\ tickDue' = FALSE
    /\ stale' = Expired
    /\ bypass' = [ip \in Addresses |-> IF ip \in Expired THEN None ELSE bypass[ip]]
    /\ UNCHANGED <<appVars, loops, query, table, refused, now, failures>>

EvictDelete ==
    /\ stale # {} /\ stale' = {}
    /\ table' = table \ stale
    /\ UNCHANGED <<appVars, loops, query, bypass, refused, clockVars, failures>>

EvictDeleteFails ==
    /\ stale # {} /\ stale' = {}
    /\ failures < MaxFailures /\ failures' = failures + 1
    /\ refused' = refused \cup (stale \cap table)
    /\ UNCHANGED <<appVars, loops, query, bypass, table, clockVars>>

Evict == EvictTake \/ EvictDelete \/ EvictDeleteFails

(* Mutant of LeaveLoop: the UDP loop does not listen to shutdown. *)
LeaveLoopUnlessUdp(loop) ==
    /\ ~serving /\ loop \in loops \ {"udp"}
    /\ loop = "evict" => stale = {}
    /\ loops' = loops \ {loop}
    /\ UNCHANGED <<appVars, query, bypass, stale, table, refused, clockVars, failures>>

(* A loop sees shutdown between two of its events; the query of a TCP      *)
(* connection goes on by itself.                                           *)
LeaveLoop(loop) ==
    /\ ~serving /\ loop \in loops
    /\ loop = "udp" => query["udp"].pc = "idle"
    /\ loop = "evict" => stale = {}
    /\ loops' = loops \ {loop}
    /\ UNCHANGED <<appVars, query, bypass, stale, table, refused, clockVars, failures>>

-----------------------------------------------------------------------------
(* The App. *)

(* A task of push_lists_to_resolver; sets and switches are what the user   *)
(* made of them.                                                           *)
PushLists ==
    /\ swaps < MaxLists /\ swaps' = swaps + 1
    /\ lists' \in ResolverLists
    /\ UNCHANGED <<serving, wan, flushes, loops, query, bypass, stale, table,
                   refused, clockVars, failures>>

AttachWan ==
    /\ serving /\ ~wan /\ wan' = TRUE
    /\ UNCHANGED <<serving, lists, flushes, swaps, loops, query, bypass, stale,
                   table, refused, clockVars, failures>>

(* The bypass is switched off, or the rules are removed. *)
TableFlush ==
    /\ flushes < MaxFlushes /\ flushes' = flushes + 1
    /\ table' = {}
    /\ UNCHANGED <<serving, lists, wan, swaps, loops, query, bypass, stale,
                   refused, clockVars, failures>>

Shutdown ==
    /\ serving /\ serving' = FALSE
    /\ UNCHANGED <<lists, wan, flushes, swaps, loops, query, bypass, stale,
                   table, refused, clockVars, failures>>

(* The loop evicts before the next interval is over, and nobody waits that *)
(* long for a lock that is never held across a command, or to send.        *)
Tick ==
    /\ now < MaxTime /\ now' = now + 1
    /\ ~tickDue /\ tickDue' = ("evict" \in loops)
    /\ \A w \in Workers : query[w].pc \notin {"record", "answer"}
    /\ stale = {}
    /\ UNCHANGED <<appVars, loops, query, bypass, stale, table, refused, failures>>

Next == \/ \E w \in Workers : Accept(w) \/ Hangup(w) \/ Ask(w) \/ Serve(w)
        \/ Evict
        \/ \E loop \in Loops : LeaveLoop(loop)
        \/ PushLists \/ AttachWan \/ TableFlush \/ Shutdown \/ Tick

Spec == Init /\ [][Next]_vars

(* Every lookup and every command ends, and a select takes a branch that   *)
(* is ready again and again.                                               *)
FairSpec ==
    /\ Spec
    /\ \A w \in Workers : WF_vars(Serve(w))
    /\ WF_vars(EvictDelete \/ EvictDeleteFails)
    /\ \A loop \in Loops : SF_vars(LeaveLoop(loop))

-----------------------------------------------------------------------------
(* Every variable has its type. *)
TypeOK ==
    /\ serving \in BOOLEAN /\ wan \in BOOLEAN /\ tickDue \in BOOLEAN
    /\ loops \subseteq Loops
    /\ lists \in ResolverLists
    /\ query \in [Workers -> QueryState]
    /\ bypass \in [Addresses -> Nat \cup {None}]
    /\ stale \subseteq Addresses /\ table \subseteq Addresses
    /\ refused \subseteq Addresses
    /\ now \in Nat /\ failures \in Nat /\ flushes \in Nat /\ swaps \in Nat

Recorded == {ip \in Addresses : bypass[ip] # None /\ now < bypass[ip]}
Recording == UNION {query[w].ips : w \in {v \in Workers : query[v].pc = "record"}}

(* No address bypasses the tunnel for longer than its time: whatever is in *)
(* the table is in the map and not expired, or a query is about to put it  *)
(* there, or it has been taken out of the map to be deleted; only what pf  *)
(* refused to delete stays behind.                                         *)
BypassEnds ==
    "evict" \in loops /\ ~tickDue
        => table \subseteq Recorded \cup Recording \cup stale \cup refused

(* A resolver that is told to stop gives its socket back, however often it *)
(* is asked meanwhile: the next start can bind :53.                        *)
StopFrees == ~serving ~> "udp" \notin loops

(* The addresses of an answer are in the table before the answer is sent,  *)
(* unless the table was flushed.                                           *)
AnsweredInTable ==
    flushes = 0 => \A w \in Workers : query[w].pc = "answer" => query[w].ips \subseteq table
=============================================================================
