--------------------------- MODULE PathMtuProofs ---------------------------
(* Proofs about PathMtu, for every tunnel, every pattern of lost pings and *)
(* every reply time that the ping options allow.                           *)
EXTENDS PathMtu, TLAPS

(***************************************************************************)
(* The inductive invariant.  A search has an answered size below and, if   *)
(* nothing was lost, an unanswerable one above; and each phase has had at  *)
(* most the pings that its retries allow, 2.4 seconds for a size.          *)
(***************************************************************************)
Bounds ==
    /\ pc # "done" => result = NoMtu
    /\ pc \in {"floor", "ceiling"} => hi = SearchTop
    /\ pc = "ceiling" => FLOOR < hi /\ Carries(FLOOR)
    /\ pc = "bisect"  => /\ Carries(lo)
                         /\ lo + 2 * STEP <= hi
                         /\ hi <= SearchTop
                         /\ pings = "lossy" \/ ~Carries(hi)

(* The search has taken at most limit, and the misses of this size. *)
Spent(limit) ==
    /\ attempt = 0 => clock <= start + limit
    /\ attempt = 1 => clock <= start + limit + 8
    /\ attempt = 2 => clock <= start + limit + 16

Timing ==
    /\ start <= clock /\ start <= 24
    /\ dest = 1 => start = 0
    /\ pc = "floor"   => Spent(0)
    /\ pc = "ceiling" => Spent(24)
    /\ pc = "bisect"  => Spent(39)
    /\ pc = "done"    => clock <= start + 63

MtuInv == TypeOK /\ Bounds /\ Timing /\ ResultIsCarried /\ ResultIsSharp

USE DEF STEP, FLOOR, PMTU_CEILING, PROBE_WAIT, FAIL_RETRIES, TOTAL_BUDGET,
        PROBE_DESTS

-----------------------------------------------------------------------------
(* Rounding down stays below its argument, by less than a step. *)
LEMMA SnapBounds ==
    ASSUME NEW x \in Nat
    PROVE  /\ SnapDown(x) \in Nat /\ SnapDown(x) % STEP = 0
           /\ SnapDown(x) <= x /\ x < SnapDown(x) + STEP
BY DEF SnapDown

(* ... and there is one grid value that close below it. *)
LEMMA SnapExact ==
    ASSUME NEW x \in Nat, NEW g \in Nat, g % STEP = 0, g <= x, x < g + STEP
    PROVE  SnapDown(x) = g
BY DEF SnapDown

(* The search never looks above the link or the ceiling. *)
LEMMA SearchTopBounds ==
    ASSUME TypeOK
    PROVE  /\ SearchTop \in Nat /\ SearchTop % STEP = 0
           /\ SearchTop <= link /\ SearchTop <= PMTU_CEILING
           /\ Smaller(link, PMTU_CEILING) \in Nat
           /\ Smaller(link, PMTU_CEILING) < SearchTop + STEP
<1>1. Smaller(link, PMTU_CEILING) \in Nat
      /\ Smaller(link, PMTU_CEILING) <= link
      /\ Smaller(link, PMTU_CEILING) <= PMTU_CEILING
  BY PathMtuAssumption DEF TypeOK, Smaller
<1> DEFINE top == Smaller(link, PMTU_CEILING)
<1>2. /\ SnapDown(top) \in Nat /\ SnapDown(top) % STEP = 0
      /\ SnapDown(top) <= top /\ top < SnapDown(top) + STEP
  BY <1>1, SnapBounds
<1>3. link \in Nat
  BY PathMtuAssumption DEF TypeOK
<1> HIDE DEF top
<1> QED
  BY <1>1, <1>2, <1>3 DEF SearchTop, top

(* With bounds two steps apart the middle lies strictly between them. *)
LEMMA MiddleBetween ==
    ASSUME TypeOK, lo + 2 * STEP <= hi
    PROVE  /\ Middle \in Nat /\ Middle % STEP = 0
           /\ lo + STEP <= Middle /\ Middle + STEP <= hi
<1> DEFINE half == lo + (hi - lo) \div 2
<1>1. half \in Nat
  BY DEF TypeOK
<1>2. SnapDown(half) \in Nat /\ SnapDown(half) % STEP = 0
  BY <1>1, SnapBounds
<1> HIDE DEF half
<1>3. Middle = Larger(lo + STEP, Smaller(SnapDown(half), hi - STEP))
  BY DEF Middle, half
<1> QED
  BY <1>2, <1>3 DEF TypeOK, Larger, Smaller

(* Grid values more than a step apart are two steps apart. *)
LEMMA GridGap ==
    ASSUME NEW low \in Nat, NEW high \in Nat,
           low % STEP = 0, high % STEP = 0, high - low > STEP
    PROVE  low + 2 * STEP <= high
OBVIOUS

(* What is left of the budget, without a subtraction. *)
LEMMA BudgetLeft ==
    ASSUME NEW now \in Nat, NEW begun \in Nat, now - begun < TOTAL_BUDGET
    PROVE  now <= begun + 39
OBVIOUS

(* Between an answered size and an unanswerable one a step above it there  *)
(* is no better grid size.                                                 *)
LEMMA BestIsBetween ==
    ASSUME TypeOK,
           NEW low \in Nat, NEW high \in Nat,
           low % STEP = 0, high % STEP = 0, FLOOR <= low, high <= low + STEP,
           Carries(low), ~Carries(high), low <= SearchTop, high <= SearchTop
    PROVE  Best = low
<1> DEFINE cap == Smaller(path, Smaller(link, PMTU_CEILING))
<1>1. cap \in Nat /\ low <= cap /\ cap < low + STEP
  BY SearchTopBounds, PathMtuAssumption DEF TypeOK, Carries, Smaller
<1>2. SnapDown(cap) = low
  BY <1>1, SnapExact
<1> QED
  BY <1>2 DEF Best, Larger

(* Init establishes the invariant. *)
LEMMA InitInv == Init => MtuInv
<1> SUFFICES ASSUME Init PROVE MtuInv
  OBVIOUS
<1>1. TypeOK
  <2>1. Smaller(link, PMTU_CEILING) \in Nat /\ Smaller(link, PMTU_CEILING) <= PMTU_CEILING
    BY PathMtuAssumption DEF Init, Smaller
  <2> DEFINE top == Smaller(link, PMTU_CEILING)
  <2>2. /\ SnapDown(top) \in Nat /\ SnapDown(top) % STEP = 0
        /\ SnapDown(top) <= top
    BY <2>1, SnapBounds
  <2> HIDE DEF top
  <2>3. hi \in 0..PMTU_CEILING /\ hi % STEP = 0
    BY <2>1, <2>2 DEF Init, SearchTop, top
  <2>4. FLOOR \in FLOOR..PMTU_CEILING /\ FLOOR % STEP = 0
    OBVIOUS
  <2>5. lo \in FLOOR..PMTU_CEILING /\ lo % STEP = 0
    BY <2>4 DEF Init
  <2>6. /\ link \in LinkMtus /\ path \in PathMtus /\ pc = "floor"
        /\ dest \in 1..PROBE_DESTS /\ attempt \in 0..FAIL_RETRIES
        /\ start \in Nat /\ clock \in Nat
        /\ result = NoMtu /\ pings \in {"clean", "lossy"}
    BY DEF Init
  <2>7. result \in 0..PMTU_CEILING \cup {NoMtu}
    BY <2>6
  <2>8. pc \in {"floor", "ceiling", "bisect", "done"}
    BY <2>6
  <2> QED
    BY <2>3, <2>5, <2>6, <2>7, <2>8 DEF TypeOK
<1>2. Bounds /\ Timing /\ ResultIsCarried /\ ResultIsSharp
  BY DEF Init, Bounds, Timing, Spent, ResultIsCarried, ResultIsSharp
<1> QED
  BY <1>1, <1>2 DEF MtuInv

(* The head of the loop keeps the invariant, whatever bounds a probe left: *)
(* it goes on with bounds two steps apart, or returns the lower one.       *)
LEMMA SearchKeepsInv ==
    ASSUME MtuInv,
           NEW low \in Nat, NEW high \in Nat,
           low % STEP = 0, high % STEP = 0, FLOOR <= low, low < high,
           high <= SearchTop, Carries(low), pings' = "lossy" \/ ~Carries(high),
           clock' \in Nat, start <= clock',
           clock' <= start + 63,
           attempt' = 0, pings' \in {"clean", "lossy"}, unchangedTunnel,
           pc # "done", Search(low, high)
    PROVE  MtuInv'
<1>1. link' = link /\ path' = path /\ SearchTop' = SearchTop /\ Best' = Best
  BY DEF unchangedTunnel, SearchTop, Best
<1>2. lo' = low /\ hi' = high /\ dest' = dest /\ start' = start
  BY DEF Search
<1>3. SearchTop <= PMTU_CEILING /\ TypeOK
  BY SearchTopBounds DEF MtuInv
<1>4. start \in Nat /\ dest \in 1..PROBE_DESTS /\ start <= 24 /\ (dest = 1 => start = 0)
  BY DEF MtuInv, TypeOK, Timing
<1>5. low \in FLOOR..PMTU_CEILING /\ high \in 0..PMTU_CEILING
  BY <1>3, SearchTopBounds
<1>6. result = NoMtu
  BY DEF MtuInv, Bounds
<1>7. CASE Searching(low, high)
  <2>1. pc' = "bisect" /\ result' = NoMtu
    BY <1>6, <1>7 DEF Search
  <2>8. high - low > STEP /\ clock' - start < TOTAL_BUDGET
    BY <1>7 DEF Searching
  <2>9. low + 2 * STEP <= high
    BY <2>8, GridGap
  <2>2. low + 2 * STEP <= high /\ clock' <= start + 39
    BY <1>4, <2>8, <2>9, BudgetLeft
  <2>3. TypeOK'
    BY <1>1, <1>2, <1>3, <1>4, <1>5, <2>1 DEF TypeOK
  <2>4. Bounds'
    BY <1>1, <1>2, <2>1, <2>2 DEF Bounds, Carries
  <2>5. Timing'
    BY <1>2, <1>4, <2>1, <2>2 DEF Timing, Spent
  <2> QED
    BY <2>1, <2>3, <2>4, <2>5 DEF MtuInv, ResultIsCarried, ResultIsSharp
<1>8. CASE ~Searching(low, high)
  <2>1. pc' = "done" /\ result' = low
    BY <1>8 DEF Search, Return
  <2>2. TypeOK'
    BY <1>1, <1>2, <1>3, <1>4, <1>5, <2>1 DEF TypeOK
  <2>3. Bounds' /\ Timing'
    BY <1>2, <1>4, <2>1 DEF Bounds, Timing, Spent
  <2>4. ResultIsCarried'
    BY <1>1, <1>5, <2>1 DEF ResultIsCarried, Carries, MssV4, EffectiveMtu,
       Larger, IPV4_TCP_HEADER_OVERHEAD, MIN_SAFE_MSS
  <2>5. clock' - start < TOTAL_BUDGET /\ pings' = "clean" => Best = low
    <3> SUFFICES ASSUME clock' - start < TOTAL_BUDGET, pings' = "clean"
                 PROVE  Best = low
      OBVIOUS
    <3>1. high <= low + STEP
      BY <1>8 DEF Searching
    <3> QED
      BY <1>3, <3>1, BestIsBetween, SearchTopBounds
  <2>6. ResultIsSharp'
    BY <1>1, <1>2, <2>1, <2>5 DEF ResultIsSharp
  <2> QED
    BY <2>2, <2>3, <2>4, <2>6 DEF MtuInv
<1> QED
  BY <1>7, <1>8

-----------------------------------------------------------------------------
(* A host that does not answer the floor probe in time costs 2.4 seconds. *)
LEMMA FloorFailsKeepsInv ==
    ASSUME MtuInv, FloorFails, unchangedTunnel,
           clock' \in Nat, start <= clock', clock' <= start + 24,
           attempt' = 0, pings' \in {"clean", "lossy"}, pings' = "lossy" \/ ~Carries(FLOOR)
    PROVE  MtuInv'
<1>1. /\ link' = link /\ path' = path /\ SearchTop' = SearchTop
      /\ lo' = lo /\ hi' = hi /\ pc = "floor" /\ TypeOK
      /\ result = NoMtu /\ hi = SearchTop /\ start <= 24 /\ (dest = 1 => start = 0)
  BY DEF unchangedTunnel, SearchTop, FloorFails, MtuInv, Bounds, Timing
<1>2. CASE dest < PROBE_DESTS
  <2>1. /\ dest' = dest + 1 /\ start' = clock'
        /\ pc' = pc /\ result' = result
    BY <1>2 DEF FloorFails
  <2>2. TypeOK'
    BY <1>1, <1>2, <2>1 DEF TypeOK
  <2>3. Bounds'
    BY <1>1, <2>1 DEF Bounds
  <2>4. Timing'
    <3>1. dest = 1 /\ start = 0
      BY <1>1, <1>2 DEF TypeOK
    <3>2. pc' = "floor" /\ start' = clock' /\ dest' = 2
      BY <1>1, <2>1, <3>1
    <3>3. clock' <= 24
      BY <3>1
    <3>4. start' \in Nat /\ start' <= clock' /\ start' <= 24
      BY <2>2, <3>2, <3>3 DEF TypeOK
    <3>5. Spent(0)'
      <4>1. \A n \in Nat : n <= n + 0
        OBVIOUS
      <4>2. clock' <= start' + 0
        BY <3>2, <3>4, <4>1, Zenon
      <4>3. attempt' # 1 /\ attempt' # 2
        OBVIOUS
      <4> QED
        BY <4>2, <4>3 DEF Spent
    <3> QED
      BY <3>2, <3>4, <3>5 DEF Timing
  <2> QED
    BY <1>1, <2>1, <2>2, <2>3, <2>4 DEF MtuInv, ResultIsCarried, ResultIsSharp
<1>3. CASE ~(dest < PROBE_DESTS)
  <2>1. /\ dest' = dest /\ start' = start
        /\ pc' = "done" /\ result' = NoMtu
    BY <1>3 DEF FloorFails, Return
  <2>2. TypeOK'
    BY <1>1, <2>1 DEF TypeOK
  <2>3. Bounds' /\ Timing'
    BY <1>1, <2>1 DEF Bounds, Timing, Spent, TypeOK
  <2>4. ResultIsCarried' /\ ResultIsSharp'
    BY <1>1, <2>1 DEF ResultIsCarried, ResultIsSharp, Carries
  <2> QED
    BY <2>2, <2>3, <2>4 DEF MtuInv
<1> QED
  BY <1>2, <1>3

(* A reply keeps the invariant: what it makes the lower bound, or the     *)
(* result, was carried.                                                    *)
LEMMA ReplyKeepsInv == MtuInv /\ Reply => MtuInv'
<1> SUFFICES ASSUME MtuInv, Reply PROVE MtuInv'
  OBVIOUS
<1>1. PICK t \in ReplyTimes : clock' = clock + t
  BY DEF Reply
<1>2. t \in 1..PROBE_WAIT
  BY PathMtuAssumption
<1>3. /\ TypeOK /\ Bounds /\ Timing /\ pc # "done" /\ Carries(Size)
      /\ attempt' = 0 /\ pings' = pings /\ unchangedTunnel /\ Fits
  BY DEF MtuInv, Reply
<1>4. link' = link /\ path' = path /\ SearchTop' = SearchTop /\ Best' = Best
  BY <1>3 DEF unchangedTunnel, SearchTop, Best
<1>5. /\ SearchTop \in Nat /\ SearchTop % STEP = 0
      /\ SearchTop <= link /\ SearchTop <= PMTU_CEILING
  BY <1>3, SearchTopBounds
<1>6. CASE pc = "floor"
  <2>1. Carries(FLOOR) /\ hi = SearchTop /\ result = NoMtu
    BY <1>3, <1>6 DEF Size, Bounds
  <2>2. /\ lo' = lo /\ hi' = hi /\ dest' = dest /\ start' = start
    BY <1>3, <1>6 DEF Fits
  <2>3. CASE hi <= FLOOR
    <3>1. pc' = "done" /\ result' = FLOOR
      BY <1>3, <1>6, <2>3 DEF Fits, Return
    <3>2. TypeOK'
      BY <1>1, <1>2, <1>3, <1>4, <2>2, <3>1 DEF TypeOK
    <3>3. Bounds' /\ Timing'
      BY <1>1, <1>2, <1>3, <1>6, <2>2, <3>1 DEF Bounds, Timing, Spent, TypeOK
    <3>4. ResultIsCarried'
      BY <1>4, <2>1, <3>1 DEF ResultIsCarried, Carries, MssV4, EffectiveMtu,
         Larger, IPV4_TCP_HEADER_OVERHEAD, MIN_SAFE_MSS
    <3>5. Best = FLOOR
      <4>1. Smaller(link, PMTU_CEILING) < FLOOR + STEP
        BY <1>3, <2>1, <2>3, SearchTopBounds
      <4>2. /\ Smaller(path, Smaller(link, PMTU_CEILING)) \in Nat
            /\ Smaller(path, Smaller(link, PMTU_CEILING)) < FLOOR + STEP
            /\ FLOOR <= Smaller(path, Smaller(link, PMTU_CEILING))
        BY <1>3, <2>1, <4>1, SearchTopBounds, PathMtuAssumption
           DEF TypeOK, Smaller, Carries
      <4>3. SnapDown(Smaller(path, Smaller(link, PMTU_CEILING))) = FLOOR
        BY <4>2, SnapExact
      <4> QED
        BY <4>3 DEF Best, Larger
    <3> QED
      BY <1>4, <3>1, <3>2, <3>3, <3>4, <3>5 DEF MtuInv, ResultIsSharp
  <2>4. CASE ~(hi <= FLOOR)
    <3>1. pc' = "ceiling" /\ result' = NoMtu
      BY <1>3, <1>6, <2>1, <2>4 DEF Fits
    <3>2. TypeOK'
      BY <1>1, <1>2, <1>3, <1>4, <2>2, <3>1 DEF TypeOK
    <3>3. Bounds'
      BY <1>3, <1>4, <2>1, <2>2, <2>4, <3>1 DEF Bounds, Carries, TypeOK
    <3>4. Timing'
      BY <1>1, <1>2, <1>3, <1>6, <2>2, <3>1 DEF Timing, Spent, TypeOK
    <3> QED
      BY <3>1, <3>2, <3>3, <3>4 DEF MtuInv, ResultIsCarried, ResultIsSharp
  <2> QED
    BY <2>3, <2>4
<1>7. CASE pc = "ceiling"
  <2>1. Carries(hi) /\ hi = SearchTop /\ FLOOR < hi
    BY <1>3, <1>7 DEF Size, Bounds
  <2>2. /\ lo' = lo /\ hi' = hi /\ dest' = dest /\ start' = start
        /\ pc' = "done" /\ result' = hi
    BY <1>3, <1>7 DEF Fits, Return
  <2>3. TypeOK'
    BY <1>1, <1>2, <1>3, <1>4, <2>2 DEF TypeOK
  <2>4. Bounds' /\ Timing'
    BY <1>1, <1>2, <1>3, <1>7, <2>2 DEF Bounds, Timing, Spent, TypeOK
  <2>5. ResultIsCarried'
    BY <1>3, <1>4, <2>1, <2>2 DEF ResultIsCarried, Carries, MssV4, EffectiveMtu,
       Larger, IPV4_TCP_HEADER_OVERHEAD, MIN_SAFE_MSS, TypeOK
  <2>6. Best = hi
    <3>1. /\ Smaller(path, Smaller(link, PMTU_CEILING)) \in Nat
          /\ Smaller(path, Smaller(link, PMTU_CEILING)) < hi + STEP
          /\ hi <= Smaller(path, Smaller(link, PMTU_CEILING))
      BY <1>3, <1>5, <2>1, SearchTopBounds, PathMtuAssumption
         DEF TypeOK, Smaller, Carries
    <3>2. SnapDown(Smaller(path, Smaller(link, PMTU_CEILING))) = hi
      BY <1>5, <2>1, <3>1, SnapExact
    <3> QED
      BY <2>1, <3>2, <1>5 DEF Best, Larger
  <2> QED
    BY <1>4, <2>2, <2>3, <2>4, <2>5, <2>6 DEF MtuInv, ResultIsSharp
<1>8. CASE pc = "bisect"
  <2>1. /\ lo + 2 * STEP <= hi /\ hi <= SearchTop
        /\ pings = "lossy" \/ ~Carries(hi)
        /\ Carries(Middle)
    BY <1>3, <1>8 DEF Bounds, Size
  <2>2. /\ Middle \in Nat /\ Middle % STEP = 0
        /\ lo + STEP <= Middle /\ Middle + STEP <= hi
    BY <1>3, <2>1, MiddleBetween
  <2>3. /\ hi \in Nat /\ hi % STEP = 0 /\ FLOOR <= lo /\ lo \in Nat
        /\ clock' \in Nat /\ start <= clock' /\ clock' <= start + 63
        /\ pings' \in {"clean", "lossy"}
    BY <1>1, <1>2, <1>3, <1>8 DEF TypeOK, Timing, Spent
  <2>4. Search(Middle, hi)
    BY <1>3, <1>8 DEF Fits
  <2>5. FLOOR <= Middle /\ Middle < hi
    BY <2>2, <2>3
  <2> QED
    BY <1>3, <2>1, <2>2, <2>3, <2>4, <2>5, SearchKeepsInv
<1> QED
  BY <1>3, <1>6, <1>7, <1>8 DEF TypeOK

(* What follows a size that is given up, after its last miss or an error.  *)
LEMMA GiveUpKeepsInv ==
    ASSUME MtuInv, unchangedTunnel, pc # "done",
           clock' \in Nat, clock <= clock', attempt' = 0,
           clock' <= clock + PROBE_WAIT,
           attempt < 2 => clock' = clock,
           pings' \in {"clean", "lossy"}, pings = "lossy" => pings' = "lossy", pings' = "lossy" \/ ~Carries(Size),
           \/ FloorFails
           \/ pc = "ceiling" /\ Search(FLOOR, hi)
           \/ pc = "bisect" /\ Search(lo, Middle)
    PROVE  MtuInv'
<1>1. TypeOK /\ Bounds /\ Timing
  BY DEF MtuInv
<1>2. CASE FloorFails
  <2>1. pc = "floor"
    BY <1>2 DEF FloorFails
  <2>2. start <= clock' /\ clock' <= start + 24
    BY <1>1, <2>1 DEF TypeOK, Timing, Spent
  <2> QED
    BY <1>2, <2>1, <2>2, FloorFailsKeepsInv DEF Size
<1>3. CASE pc = "ceiling" /\ Search(FLOOR, hi)
  <2>1. /\ hi = SearchTop /\ FLOOR < hi /\ Carries(FLOOR)
        /\ pings' = "lossy" \/ ~Carries(hi)
    BY <1>1, <1>3 DEF Bounds, Size
  <2>2. start <= clock' /\ clock' <= start + 63 /\ hi \in Nat /\ hi % STEP = 0
    BY <1>1, <1>3 DEF TypeOK, Timing, Spent
  <2> QED
    BY <1>3, <2>1, <2>2, SearchKeepsInv
<1>4. CASE pc = "bisect" /\ Search(lo, Middle)
  <2>1. /\ lo + 2 * STEP <= hi /\ hi <= SearchTop /\ Carries(lo)
        /\ pings' = "lossy" \/ ~Carries(Middle)
    BY <1>1, <1>4 DEF Bounds, Size
  <2>2. /\ Middle \in Nat /\ Middle % STEP = 0
        /\ lo + STEP <= Middle /\ Middle + STEP <= hi
    BY <1>1, <2>1, MiddleBetween
  <2>3. /\ start <= clock' /\ clock' <= start + 63 /\ lo \in Nat /\ lo % STEP = 0
        /\ FLOOR <= lo /\ hi \in Nat
    BY <1>1, <1>4 DEF TypeOK, Timing, Spent
  <2>4. lo < Middle /\ Middle <= SearchTop
    BY <1>1, <2>1, <2>2, <2>3, SearchTopBounds
  <2> QED
    BY <1>4, <2>1, <2>2, <2>3, <2>4, SearchKeepsInv
<1> QED
  BY <1>2, <1>3, <1>4

(* A ping without a reply keeps the invariant. *)
LEMMA MissKeepsInv == MtuInv /\ Miss => MtuInv'
<1> SUFFICES ASSUME MtuInv, Miss PROVE MtuInv'
  OBVIOUS
<1>1. /\ TypeOK /\ Bounds /\ Timing /\ pc # "done" /\ unchangedTunnel
      /\ clock' = clock + PROBE_WAIT /\ pings' = (IF Carries(Size) THEN "lossy" ELSE pings)
  BY DEF MtuInv, Miss
<1>2. pings' \in {"clean", "lossy"} /\ (pings = "lossy" => pings' = "lossy")
      /\ (pings' = "lossy" \/ ~Carries(Size))
  BY <1>1 DEF TypeOK
<1>3. CASE attempt < FAIL_RETRIES
  <2>1. /\ attempt' = attempt + 1 /\ pc' = pc /\ dest' = dest /\ lo' = lo
        /\ hi' = hi /\ start' = start /\ result' = result
        /\ link' = link /\ path' = path
    BY <1>1, <1>3 DEF Miss, unchangedTunnel
  <2>2. TypeOK'
    BY <1>1, <1>2, <1>3, <2>1 DEF TypeOK
  <2>3. Bounds'
    BY <1>1, <1>2, <2>1 DEF Bounds, Carries, SearchTop
  <2>4. Timing'
    BY <1>1, <1>3, <2>1 DEF Timing, Spent, TypeOK
  <2>5. result' = NoMtu /\ pc' # "done"
    BY <1>1, <2>1 DEF Bounds
  <2> QED
    BY <2>2, <2>3, <2>4, <2>5 DEF MtuInv, ResultIsCarried, ResultIsSharp
<1>4. CASE ~(attempt < FAIL_RETRIES)
  <2>1. attempt' = 0 /\ TooBig
    BY <1>4 DEF Miss
  <2>2. /\ clock' \in Nat /\ clock <= clock'
        /\ clock' <= clock + PROBE_WAIT /\ (attempt < 2 => clock' = clock)
    BY <1>1, <1>4 DEF TypeOK
  <2> QED
    BY <1>1, <1>2, <2>1, <2>2, GiveUpKeepsInv DEF TooBig
<1> QED
  BY <1>3, <1>4

(* A ping that cannot run keeps the invariant. *)
LEMMA ErrorKeepsInv == MtuInv /\ Error => MtuInv'
<1> SUFFICES ASSUME MtuInv, Error PROVE MtuInv'
  OBVIOUS
<1>1. /\ TypeOK /\ Bounds /\ Timing /\ pc # "done" /\ unchangedTunnel
      /\ clock' = clock /\ attempt' = 0 /\ pings' = "lossy"
  BY DEF MtuInv, Error
<1>2. /\ clock' \in Nat /\ clock <= clock'
      /\ clock' <= clock + PROBE_WAIT /\ (attempt < 2 => clock' = clock)
  BY <1>1 DEF TypeOK
<1>3. CASE FloorFails \/ (pc = "ceiling" /\ Search(FLOOR, hi))
  BY <1>1, <1>2, <1>3, GiveUpKeepsInv
<1>4. CASE pc = "bisect" /\ Return(lo) /\ UNCHANGED <<lo, hi, dest, start>>
  <2>1. /\ pc' = "done" /\ result' = lo /\ lo' = lo /\ hi' = hi
        /\ dest' = dest /\ start' = start /\ link' = link /\ path' = path
    BY <1>1, <1>4 DEF Return, unchangedTunnel
  <2>2. TypeOK'
    BY <1>1, <2>1 DEF TypeOK
  <2>3. Bounds' /\ Timing'
    BY <1>1, <1>4, <2>1 DEF Bounds, Timing, Spent, TypeOK
  <2>4. Carries(lo) /\ FLOOR <= lo /\ lo \in Nat
    BY <1>1, <1>4 DEF Bounds, TypeOK
  <2>5. ResultIsCarried'
    BY <2>1, <2>4 DEF ResultIsCarried, Carries, MssV4, EffectiveMtu,
       Larger, IPV4_TCP_HEADER_OVERHEAD, MIN_SAFE_MSS
  <2> QED
    BY <1>1, <2>2, <2>3, <2>5 DEF MtuInv, ResultIsSharp
<1> QED
  BY <1>3, <1>4 DEF Error

-----------------------------------------------------------------------------
(* MtuInv is an invariant. *)
THEOREM Invariance == Spec => []MtuInv
<1>1. MtuInv /\ [Next]_vars => MtuInv'
  <2> SUFFICES ASSUME MtuInv, [Next]_vars PROVE MtuInv'
    OBVIOUS
  <2>1. CASE Next
    BY <2>1, ReplyKeepsInv, MissKeepsInv, ErrorKeepsInv DEF Next
  <2>2. CASE UNCHANGED vars
    BY <2>2 DEF vars, MtuInv, TypeOK, Bounds, Timing, Spent, ResultIsCarried,
       ResultIsSharp, Carries, SearchTop, Best, MssV4, EffectiveMtu
  <2> QED
    BY <2>1, <2>2
<1> QED
  BY <1>1, InitInv, PTL DEF Spec

(* Sizes stay on the grid and inside the range of a u16. *)
THEOREM TypeCorrect == Spec => []TypeOK
<1>1. MtuInv => TypeOK
  BY DEF MtuInv
<1> QED
  BY <1>1, Invariance, PTL

(* The clamp is never above what the path carries, whatever was lost. *)
THEOREM NoBlackHole == Spec => []ResultIsCarried
<1>1. MtuInv => ResultIsCarried
  BY DEF MtuInv
<1> QED
  BY <1>1, Invariance, PTL

(* A search that lost nothing finds the best size of the tunnel. *)
THEOREM Sharp == Spec => []ResultIsSharp
<1>1. MtuInv => ResultIsSharp
  BY DEF MtuInv
<1> QED
  BY <1>1, Invariance, PTL

(* The loop's u16 subtractions and its clamp are always defined. *)
THEOREM NoPanic == Spec => []ClampIsOrdered
<1>1. MtuInv => ClampIsOrdered
  BY DEF MtuInv, TypeOK, Bounds, ClampIsOrdered
<1> QED
  BY <1>1, Invariance, PTL

(* Two hosts and their retries fit the envelope of a reload. *)
THEOREM InTime == Spec => []EndsInTime
<1>1. MtuInv => EndsInTime
  BY DEF MtuInv, TypeOK, Timing, Spent, EndsInTime, TIMEOUT_RELOAD_UPSTREAM
<1> QED
  BY <1>1, Invariance, PTL
=============================================================================
