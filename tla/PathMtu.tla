------------------------------ MODULE PathMtu ------------------------------
(***************************************************************************)
(* Path-MTU discovery (system/pmtu.rs): bisection over the size of pings   *)
(* with DF set, on a path that may lose any of them, and the MSS clamp     *)
(* that a session derives from what it finds (session.rs).  Every action   *)
(* is the end of one ping.  Time is counted in tenths of a second.         *)
(***************************************************************************)
EXTENDS Integers

CONSTANTS LinkMtus,    \* what read_mtu may report for the tunnel
          PathMtus,    \* what its path may really carry
          ReplyTimes,  \* how long a reply may take
          NoMtu        \* Option::None

ASSUME PathMtuAssumption ==
    /\ LinkMtus \subseteq Nat /\ PathMtus \subseteq Nat
    /\ ReplyTimes \subseteq 1..8
    /\ NoMtu \notin Nat

STEP             == 8
FLOOR            == 576
PMTU_CEILING     == 1500
CONSERVATIVE_MTU == 1400
PROBE_WAIT       == 8        \* 800 ms
FAIL_RETRIES     == 2
TOTAL_BUDGET     == 40       \* 4 s
PROBE_DESTS      == 2
IPV4_TCP_HEADER_OVERHEAD == 40
MIN_SAFE_MSS     == 216

Smaller(a, b) == IF a <= b THEN a ELSE b
Larger(a, b)  == IF a >= b THEN a ELSE b

SnapDown(x) == x - (x % STEP)

VARIABLES link, path,  \* the tunnel: reported MTU and true path MTU
          pc,          \* "floor", "ceiling", "bisect" or "done"
          dest,        \* index of the host that is probed
          attempt,     \* misses of the current size so far
          lo, hi,      \* best size that passed, smallest that did not
          start, clock,
          result,      \* what bisect_path_mtu returned
          pings        \* history: "clean", or "lossy" once one that fits is lost

vars == <<link, path, pc, dest, attempt, lo, hi, start, clock, result, pings>>
unchangedTunnel == UNCHANGED <<link, path>>

(* Mutant of SearchTop: not rounded to the grid. *)
SearchTopOffGrid == Smaller(link, PMTU_CEILING)

(* The largest size worth a ping. *)
SearchTop == SnapDown(Smaller(link, PMTU_CEILING))

(* A ping with DF passes if the tunnel and the path can carry it. *)
Carries(size) == size <= path /\ size <= link

Init == /\ link \in LinkMtus /\ path \in PathMtus
        /\ pc = "floor" /\ dest = 1 /\ attempt = 0
        /\ lo = FLOOR /\ hi = SearchTop
        /\ start = 0 /\ clock = 0
        /\ result = NoMtu /\ pings = "clean"

Middle == Larger(lo + STEP, Smaller(SnapDown(lo + (hi - lo) \div 2), hi - STEP))

(* The size of the next ping. *)
Size == CASE pc = "floor"   -> FLOOR
          [] pc = "ceiling" -> hi
          [] pc = "bisect"  -> Middle

Return(r) == pc' = "done" /\ result' = r

(* Mutants of Searching: one grid step too coarse, one too fine, and the  *)
(* clock is not looked at.                                                 *)
SearchesCoarsely(low, high) ==
    high - low > 2 * STEP /\ clock' - start < TOTAL_BUDGET
SearchesFinely(low, high) ==
    high - low >= STEP /\ clock' - start < TOTAL_BUDGET
SearchesForLong(low, high) == high - low > STEP

(* The condition of the loop, and its way out when the budget is spent. *)
Searching(low, high) == high - low > STEP /\ clock' - start < TOTAL_BUDGET

(* The head of the loop, with the bounds a probe has left. *)
Search(low, high) ==
    /\ lo' = low /\ hi' = high
    /\ IF Searching(low, high)
       THEN pc' = "bisect" /\ UNCHANGED result
       ELSE Return(low)
    /\ UNCHANGED <<dest, start>>

(* The floor gate failed: the next host, or nothing is known of the path. *)
FloorFails ==
    /\ pc = "floor"
    /\ IF dest < PROBE_DESTS
       THEN dest' = dest + 1 /\ start' = clock' /\ UNCHANGED <<pc, result>>
       ELSE Return(NoMtu) /\ UNCHANGED <<dest, start>>
    /\ UNCHANGED <<lo, hi>>

Fits ==
    \/ /\ pc = "floor"
       /\ IF hi <= FLOOR THEN Return(FLOOR) ELSE pc' = "ceiling" /\ UNCHANGED result
       /\ UNCHANGED <<lo, hi, dest, start>>
    \/ /\ pc = "ceiling"
       /\ Return(hi)
       /\ UNCHANGED <<lo, hi, dest, start>>
    \/ pc = "bisect" /\ Search(Middle, hi)

(* Mutant of TooBig: a size that was not answered is taken for a good one. *)
TooBigRaises ==
    \/ FloorFails
    \/ pc = "ceiling" /\ Search(FLOOR, hi)
    \/ pc = "bisect" /\ Search(Middle, hi)

TooBig ==
    \/ FloorFails
    \/ pc = "ceiling" /\ Search(FLOOR, hi)
    \/ pc = "bisect" /\ Search(lo, Middle)

(* A reply in time. *)
Reply ==
    /\ pc # "done"
    /\ Carries(Size)
    /\ \E t \in ReplyTimes : clock' = clock + t
    /\ attempt' = 0
    /\ Fits
    /\ UNCHANGED pings /\ unchangedTunnel

(* No reply: only FAIL_RETRIES more of them in a row are believed. *)
Miss ==
    /\ pc # "done"
    /\ clock' = clock + PROBE_WAIT
    /\ pings' = IF Carries(Size) THEN "lossy" ELSE pings
    /\ IF attempt < FAIL_RETRIES
       THEN /\ attempt' = attempt + 1
            /\ UNCHANGED <<pc, dest, lo, hi, start, result>>
       ELSE attempt' = 0 /\ TooBig
    /\ unchangedTunnel

(* ping cannot run: not repeated; the search settles for what it has. *)
Error ==
    /\ pc # "done"
    /\ UNCHANGED clock
    /\ attempt' = 0 /\ pings' = "lossy"
    /\ \/ FloorFails
       \/ pc = "ceiling" /\ Search(FLOOR, hi)
       \/ pc = "bisect" /\ Return(lo) /\ UNCHANGED <<lo, hi, dest, start>>
    /\ unchangedTunnel

Next == Reply \/ Miss \/ Error

Spec == Init /\ [][Next]_vars

(* ActiveUpstream::resolve_effective under LanMtu::Auto, and mss_v4. *)
EffectiveMtu == IF result = NoMtu THEN Smaller(link, CONSERVATIVE_MTU) ELSE result
MssV4 == Larger(Larger(EffectiveMtu - IPV4_TCP_HEADER_OVERHEAD, 0), MIN_SAFE_MSS)

-----------------------------------------------------------------------------
(* The best grid size of the tunnel: what a search without losses is for. *)
Best == Larger(FLOOR, SnapDown(Smaller(path, Smaller(link, PMTU_CEILING))))

(* Every variable has its type; sizes are on the grid and in u16 range. *)
TypeOK ==
    /\ link \in LinkMtus /\ path \in PathMtus
    /\ pc \in {"floor", "ceiling", "bisect", "done"}
    /\ dest \in 1..PROBE_DESTS /\ attempt \in 0..FAIL_RETRIES
    /\ lo \in FLOOR..PMTU_CEILING /\ hi \in 0..PMTU_CEILING
    /\ lo % STEP = 0 /\ hi % STEP = 0
    /\ start \in Nat /\ clock \in Nat
    /\ result \in 0..PMTU_CEILING \cup {NoMtu}
    /\ pings \in {"clean", "lossy"}

(* However many pings were lost and wherever the search was cut short: a   *)
(* size that is returned was answered, so the clamp is no black hole, and  *)
(* the scrub rule leaves room for the TCP header.                          *)
ResultIsCarried ==
    result # NoMtu => /\ Carries(result)
                      /\ MssV4 = result - IPV4_TCP_HEADER_OVERHEAD

(* With no ping lost and time left, it is the largest size on the grid. *)
ResultIsSharp ==
    pc = "done" /\ pings = "clean" /\ clock - start < TOTAL_BUDGET /\ Carries(FLOOR)
        => result = Best

(* u16 arithmetic in the loop cannot underflow and clamp cannot panic, for *)
(* its lower bound is at most its upper one.                               *)
ClampIsOrdered == pc = "bisect" => lo + STEP <= hi - STEP

(* All hosts and sizes together leave part of the 10 seconds that a reload *)
(* of the upstream may take (TIMEOUT_RELOAD_UPSTREAM), although the budget *)
(* is looked at only between two sizes.                                    *)
TIMEOUT_RELOAD_UPSTREAM == 100
EndsInTime == clock < TIMEOUT_RELOAD_UPSTREAM
=============================================================================
