--------------------------- MODULE ScreensProofs ---------------------------
(***************************************************************************)
(* The properties of Screens, for any machine, any presets and any number  *)
(* of tunnels, LANs, addresses and operations that are under way.          *)
(***************************************************************************)
EXTENDS Screens, SieveProofs, FiniteSetTheorems

(* The addresses of DNS servers that there are, None for the one by        *)
(* default.                                                                *)
Servers == {None} \cup Range(DnsPresets) \cup DnsTyped
               \cup UNION {{s.file.custom} \cup Range(s.file.history) :
                               s \in Starts}

LanInfo == {i \in InfoType : i.name \in Wired}
Ops == {"none", "detect", "dns", "start", "stop", "doctor", "flush",
        "install"}
Pcs == {"vpn", "lan", "read", "probe", "brew", "done"}

Task == [op : Ops, pc : Pcs, ok : BOOLEAN, vpns : Seq(InfoType),
         lans : Seq(LanInfo), vpn : Range(Links) \cup {None},
         lan : Wired \cup {None}, seen : Worlds \cup {None},
         uplink : Uplink \cup {None}]

(* A task that probes has read the machine and found nothing so far, and   *)
(* what it answers is outside the share.                                   *)
Sound == {t \in Task : /\ t.pc \in {"read", "probe"} => t.uplink = None
                       /\ t.pc = "probe" => t.seen \in Worlds
                       /\ Outside(t)}

-----------------------------------------------------------------------------
(* The inductive invariant, in parts.                                      *)

(* Tasks, and what the world and the budget are. *)
Around ==
    /\ tasks \in Seq(Sound)
    /\ world \in Worlds
    /\ left \in [Events -> Nat]
    /\ allowOn \in BOOLEAN /\ binary \in BOOLEAN

(* The way to a session: what is selected is in its list, and beside a     *)
(* session that is up no way leads to another one.                         *)
Flow ==
    /\ screen \in ScreenNames /\ pending \in PendingOps /\ menu \in 0..7
    /\ vpns \in Seq(InfoType) /\ lans \in Seq(LanInfo)
    /\ vpn \in Nat \cup {None} /\ lan \in Nat \cup {None}
    /\ screen \in {"SelectingVpn", "SelectingLan"} =>
           vpn \in Nat /\ InList(vpns, vpn) /\ lans # <<>>
    /\ screen = "SelectingLan" => lan \in Nat /\ InList(lans, lan)
    /\ pending = "DiscoveringDns" => screen = "SelectingVpn"
    /\ session \in Session \cup {None}
    /\ pending = "StartingSharing" => session # None
    /\ session # None =>
           \/ pending = "StartingSharing"
           \/ /\ pending \in {"none", "StoppingSharing"}
              /\ screen \in {"Menu", "Active"}
    /\ screen = "InstallDnsmasq" \/ pending = "InstallingDnsmasq" => ~installed

(* The preferences: the file has them, but that a history it was loaded    *)
(* from may lack the address in use.                                       *)
Prefs ==
    /\ dns \in [custom : Servers, history : Seq(Servers)]
    /\ IsInjective(dns.history) /\ Len(dns.history) <= HistoryMax
    /\ mtu = 0 \/ mtu \in MtuMin..MtuMax
    /\ dhcp \in BOOLEAN /\ natpmp \in BOOLEAN /\ installed \in BOOLEAN
    /\ dhcp => installed
    /\ file.custom = dns.custom /\ file.mtu = mtu /\ file.natpmp = natpmp
    /\ file.dhcp \in BOOLEAN
    /\ file.history = dns.history \/ dns.history = LoadHistory(file)

(* The cursors of the pickers and of the doctor. *)
Cursors ==
    /\ picker \in [at : Nat, typing : BOOLEAN]
    /\ screen = "EditingDns" => picker.at <= Len(DnsRows)
    /\ screen = "EditingMtu" => picker.at <= Len(MtuRows)
    /\ doctor \in [count : Nat, at : Nat, stale : BOOLEAN,
                   back : {"Menu", "PreflightBlocked"}]
    /\ doctor.at = 0 \/ doctor.at < doctor.count

(* All of it. *)
IInv == Around /\ Flow /\ Prefs /\ Cursors

-----------------------------------------------------------------------------
(* Lists.                                                                  *)

(* A cursor that is in a list points at an element of it. *)
LEMMA AtInList ==
    ASSUME NEW S, NEW s \in Seq(S), NEW c \in Nat, InList(s, c)
    PROVE  c + 1 \in DOMAIN s /\ At(s, c) \in S
<1>1. Len(s) \in Nat /\ DOMAIN s = 1..Len(s)
    BY LenProperties
<1>2. c + 1 \in 1..Len(s)
    BY <1>1 DEF InList
<1> QED
    BY <1>1, <1>2, ElementOfSeq DEF At

(* The row a picker opens on is one of its rows, or the one below them. *)
LEMMA OpensInList ==
    ASSUME NEW S, NEW rows \in Seq(S), NEW value
    PROVE  OpensAt(rows, value) \in 0..Len(rows)
<1> DEFINE at == {i \in DOMAIN rows : rows[i] = value}
<1>1. Len(rows) \in Nat /\ at \subseteq 1..Len(rows)
    BY LenProperties
<1> HIDE DEF at
<1>2. CASE at = {}
    BY <1>1, <1>2 DEF OpensAt, at
<1>3. CASE at # {}
  <2>1. \E i \in at : \A k \in at : i <= k
    <3>1. at \in SUBSET Nat
      BY <1>1
    <3> QED
      BY <1>3, <3>1, HasLeast
  <2>2. (CHOOSE i \in at : \A k \in at : i <= k) \in at
    BY <2>1
  <2> QED
    BY <1>1, <1>3, <2>2 DEF OpensAt, at
<1> QED
    BY <1>2, <1>3

(* A history that is cut off has what the longer one had first. *)
LEMMA FirstHistoryKeeps ==
    ASSUME NEW S, NEW h \in Seq(S)
    PROVE  /\ FirstHistory(h) \in Seq(S)
           /\ Len(FirstHistory(h)) <= HistoryMax
           /\ IsInjective(h) => IsInjective(FirstHistory(h))
<1> DEFINE n == IF Len(h) < HistoryMax THEN Len(h) ELSE HistoryMax
           f == SubSeq(h, 1, n)
<1>1. /\ n \in 0..Len(h) /\ n <= HistoryMax /\ Len(h) \in Nat
      /\ DOMAIN h = 1..Len(h) /\ \A k \in 1..Len(h) : h[k] \in S
    BY LenProperties, ElementOfSeq, ScreensAssumption
<1>2. FirstHistory(h) = f
    BY DEF FirstHistory
<1> HIDE DEF n
<1>3. /\ f \in Seq(S) /\ Len(f) = n /\ DOMAIN f = 1..n
      /\ \A k \in 1..n : f[k] = h[k]
    BY <1>1, SubSeqProperties, LenProperties
<1> QED
    BY <1>1, <1>2, <1>3 DEF IsInjective

(* An address that is not in a history may be put before it. *)
LEMMA PrependKeeps ==
    ASSUME NEW S, NEW h \in Seq(S), NEW v \in S, IsInjective(h),
           v \notin Range(h)
    PROVE  <<v>> \o h \in Seq(S) /\ IsInjective(<<v>> \o h)
<1> DEFINE t == <<v>> \o h
           n == Len(h)
<1>1. n \in Nat /\ DOMAIN h = 1..n /\ <<v>> \in Seq(S) /\ Len(<<v>>) = 1
      /\ <<v>>[1] = v
    BY LenProperties
<1>2. /\ t \in Seq(S) /\ Len(t) = n + 1 /\ DOMAIN t = 1..n + 1
      /\ \A k \in 1..n + 1 : t[k] = IF k = 1 THEN v ELSE h[k - 1]
    BY <1>1, ConcatProperties, LenProperties
<1> HIDE DEF t, n
<1>3. \A k \in 1..n + 1 : k = 1 \/ k - 1 \in 1..n
    BY <1>1
<1>4. \A k \in 1..n : h[k] # v
    BY <1>1 DEF Range
<1>5. IsInjective(t)
  <2> SUFFICES ASSUME NEW a \in 1..n + 1, NEW b \in 1..n + 1, t[a] = t[b]
               PROVE  a = b
    BY <1>2 DEF IsInjective
  <2>1. CASE a = 1 \/ b = 1
    BY <1>1, <1>2, <1>3, <1>4, <2>1
  <2>2. CASE a # 1 /\ b # 1
    <3>1. a - 1 \in 1..n /\ b - 1 \in 1..n /\ h[a - 1] = h[b - 1]
      BY <1>2, <1>3, <2>2
    <3>2. a - 1 = b - 1
      BY <1>1, <3>1 DEF IsInjective
    <3> QED
      BY <1>1, <3>2
  <2> QED
    BY <2>1, <2>2
<1> QED
    BY <1>2, <1>5 DEF t

(* promote_to_history keeps a history in order. *)
LEMMA PromoteKeeps ==
    ASSUME NEW S, NEW h \in Seq(S), NEW v \in S,
           IsInjective(h), Len(h) <= HistoryMax
    PROVE  /\ Promote(h, v) \in Seq(S) /\ IsInjective(Promote(h, v))
           /\ Len(Promote(h, v)) <= HistoryMax
<1> DEFINE rest == Only(h, Range(h) \ {v})
<1>1. rest \in Seq(S) /\ IsInjective(rest) /\ v \notin Range(rest)
    BY OnlyMembers, OnlyKeepsOnce
<1> HIDE DEF rest
<1>2. <<v>> \o rest \in Seq(S) /\ IsInjective(<<v>> \o rest)
    BY <1>1, PrependKeeps
<1> QED
    BY <1>2, FirstHistoryKeeps DEF Promote, rest

(* So does a load of the configuration. *)
LEMMA LoadHistoryKeeps ==
    ASSUME NEW S, NEW f, f.history \in Seq(S), f.custom \in S,
           IsInjective(f.history), Len(f.history) <= HistoryMax
    PROVE  /\ LoadHistory(f) \in Seq(S) /\ IsInjective(LoadHistory(f))
           /\ Len(LoadHistory(f)) <= HistoryMax
<1>1. CASE f.custom = None \/ f.custom \in Range(f.history)
    BY <1>1 DEF LoadHistory
<1>2. CASE ~(f.custom = None \/ f.custom \in Range(f.history))
    BY <1>2, PrependKeeps, FirstHistoryKeeps DEF LoadHistory
<1> QED
    BY <1>1, <1>2

-----------------------------------------------------------------------------
(* What the machine is found to have.                                      *)

(* Detection finds what it looks for, in a list. *)
LEMMA DetectionTypes ==
    ASSUME NEW w \in Worlds
    PROVE  DetectVpn(w) \in Seq(InfoType) /\ DetectLan(w) \in Seq(LanInfo)
<1>1. w \in World
    BY ScreensAssumption
<1>2. ASSUME NEW l \in Range(Links)
      PROVE  Info(w, l) \in InfoType /\ Info(w, l).name = l
  <2>1. w.link[l].net \in Nets \cup {None}
    BY <1>1 DEF World, Link
  <2> QED
    BY <2>1 DEF Info, InfoType
<1>3. ASSUME NEW T, NEW K \in SUBSET InfoType,
             \A l \in Range(Links) \cap T : Info(w, l) \in K
      PROVE  Infos(w, Only(Links, T)) \in Seq(K)
  <2> DEFINE names == Only(Links, T)
             found == Infos(w, names)
  <2>1. names \in Seq(Range(Links)) /\ Range(names) = Range(Links) \cap T
    BY OnlyMembers, NetworkAssumption
  <2>2. Len(names) \in Nat /\ DOMAIN names = 1..Len(names)
    BY <2>1, LenProperties
  <2> HIDE DEF names
  <2>3. \A i \in 1..Len(names) : Info(w, names[i]) \in K
    BY <1>3, <2>1, <2>2 DEF Range
  <2>4. found = [i \in 1..Len(names) |-> Info(w, names[i])]
    BY <2>2 DEF Infos
  <2>5. found \in [1..Len(names) -> K]
    BY <2>3, <2>4
  <2> QED
    BY <2>2, <2>5, SeqDef DEF names
<1>4. DetectVpn(w) \in Seq(InfoType)
    BY <1>2, <1>3 DEF DetectVpn
<1>5. \A l \in Range(Links) \cap {l \in Wired : Usable(w, l)} : Info(w, l) \in LanInfo
    BY <1>2 DEF LanInfo
<1>6. DetectLan(w) \in Seq(LanInfo)
    BY <1>3, <1>5 DEF DetectLan, LanInfo
<1> QED
    BY <1>4, <1>6

(* A candidate has a gateway now, and was no end of the share, no tunnel   *)
(* and no loopback when the machine was read.                              *)
LEMMA CandidatesAreEligible ==
    ASSUME NEW seen \in Worlds, NEW now \in Worlds, NEW share, NEW exclude
    PROVE  LET found == Candidates(seen, now, share, exclude)
           IN  /\ found \in Seq(Range(Links))
               /\ \A l \in Range(found) :
                      /\ l \notin Loopbacks \cup Tunnels \cup exclude \cup {share}
                      /\ now.link[l].gateway # None
<1> DEFINE wanted == {l \in Range(Links) : /\ Usable(seen, l)
                                           /\ l \notin Loopbacks \cup Tunnels
                                           /\ l # share /\ l \notin exclude}
           probed == {l \in Range(Eligible(seen, share, exclude)) :
                          now.link[l].gateway # None}
           ranked == Only(seen.table, probed)
           rest == Only(Links, probed \ Range(ranked))
<1>1. Range(Eligible(seen, share, exclude)) \subseteq wanted
    BY OnlyMembers, NetworkAssumption DEF Eligible
<1>2. seen.table \in Seq(Range(Links))
    BY ScreensAssumption DEF World
<1>3. \A l \in probed :
          /\ l \notin Loopbacks \cup Tunnels \cup exclude \cup {share}
          /\ now.link[l].gateway # None
    BY <1>1
<1> HIDE DEF probed
<1>4. ranked \in Seq(Range(Links)) /\ Range(ranked) \subseteq probed
    BY <1>2, OnlyMembers
<1>5. rest \in Seq(Range(Links)) /\ Range(rest) \subseteq probed
    BY NetworkAssumption, OnlyMembers
<1>6. Candidates(seen, now, share, exclude) = ranked \o rest
    BY DEF Candidates, probed
<1> HIDE DEF ranked, rest
<1>7. ranked \o rest \in Seq(Range(Links))
    BY <1>4, <1>5, ConcatProperties
<1>8. Range(ranked \o rest) = Range(ranked) \cup Range(rest)
    BY <1>4, <1>5, RangeConcatenation
<1> QED
    BY <1>3, <1>4, <1>5, <1>6, <1>7, <1>8

(* A gateway that is seen with one MAC is, if it is no hairpin, none of    *)
(* the neighbors on the share LAN.                                         *)
LEMMA NoHairpinIsOutside ==
    ASSUME NEW arp \in Seq(Neighbor), NEW router, NEW share,
           ~Hairpins(router, share, arp)
    PROVE  Cardinality(MacsOf(arp, router)) = 1 =>
               MacsOf(arp, router) \cap MacsOn(arp, share) = {}
<1> DEFINE known == MacsOn(arp, share)
           macs == MacsOf(arp, router)
           entries == {i \in DOMAIN arp : arp[i].ip = router}
           first == CHOOSE i \in entries : \A k \in entries : i <= k
<1> SUFFICES ASSUME Cardinality(macs) = 1, NEW m \in macs, m \in known
             PROVE  FALSE
    OBVIOUS
<1>1. Len(arp) \in Nat /\ DOMAIN arp = 1..Len(arp)
    BY LenProperties
<1>2. IsFiniteSet(macs)
  <2>1. IsFiniteSet(1..Len(arp))
    BY <1>1, FS_Interval
  <2>2. entries \subseteq 1..Len(arp)
    BY <1>1
  <2>3. IsFiniteSet(entries)
    BY <2>1, <2>2, FS_Subset
  <2> DEFINE mac == [i \in entries |-> arp[i].mac]
  <2>4. mac \in Surjection(entries, macs)
    BY DEF Range, Surjection, MacsOf
  <2> QED
    BY <2>3, <2>4, FS_Surjection
<1>3. macs = {m}
  <2>1. m \in macs /\ Cardinality(macs) = 1
    OBVIOUS
  <2> HIDE DEF macs
  <2>2. PICK x : macs = {x}
    BY <1>2, <2>1, FS_Singleton
  <2> QED
    BY <2>1, <2>2
<1>4. entries # {} /\ entries \in SUBSET Nat
    BY <1>1 DEF Range, MacsOf
<1>5. first \in entries
    BY <1>4, HasLeast
<1>6. arp[first].mac = m
    BY <1>3, <1>5 DEF Range, MacsOf
<1>7. PICK j \in DOMAIN arp : arp[j].iface = share /\ arp[j].mac = m
    BY DEF Range, MacsOn
<1> QED
    BY <1>4, <1>6, <1>7 DEF Hairpins

(* The uplink that is chosen, if any, is outside the share. *)
LEMMA UplinkChosenOutside ==
    ASSUME NEW seen \in Worlds, NEW now \in Worlds, NEW share, NEW tunnel
    PROVE  LET u == SelectUplink(seen, now, share, {tunnel})
           IN  u # None =>
                   /\ u \in Uplink
                   /\ u.iface \notin Tunnels \cup Loopbacks \cup {tunnel, share}
                   /\ seen.arp \in Seq(Neighbor)
                   /\ ~Hairpins(u.gateway, share, seen.arp)
                   /\ seen.arp # None
<1> DEFINE u == SelectUplink(seen, now, share, {tunnel})
<1> SUFFICES ASSUME u # None
             PROVE  /\ u \in Uplink
                    /\ u.iface \notin Tunnels \cup Loopbacks \cup {tunnel, share}
                    /\ seen.arp \in Seq(Neighbor)
                    /\ ~Hairpins(u.gateway, share, seen.arp)
                    /\ seen.arp # None
    OBVIOUS
<1> DEFINE found == Candidates(seen, now, share, {tunnel})
           outside == {l \in Range(Links) :
                           ~Hairpins(now.link[l].gateway, share, seen.arp)}
           kept == Only(found, outside)
<1>1. /\ found \in Seq(Range(Links))
      /\ \A l \in Range(found) :
             /\ l \notin Loopbacks \cup Tunnels \cup {tunnel} \cup {share}
             /\ now.link[l].gateway # None
    BY CandidatesAreEligible
<1> HIDE DEF found
<1>2. kept \in Seq(Range(Links)) /\ Range(kept) = Range(found) \cap outside
    BY <1>1, OnlyMembers
<1>3. kept # <<>> /\ u = [iface |-> kept[1], gateway |-> now.link[kept[1]].gateway]
    BY DEF SelectUplink, found
<1> HIDE DEF kept, u
<1>4. kept[1] \in Range(found) \cap outside
    BY <1>2, <1>3 DEF Range
<1>5. now \in World /\ seen \in World
    BY ScreensAssumption
<1>6. kept[1] \in Range(Links) /\ ~Hairpins(u.gateway, share, seen.arp)
    BY <1>3, <1>4
<1>7. now.link[kept[1]].gateway \in Routers
    BY <1>1, <1>4, <1>5, <1>6 DEF World, Link
<1>8. seen.arp # None
    BY <1>6 DEF Hairpins
<1>9. seen.arp \in Seq(Neighbor)
    BY <1>5, <1>8 DEF World
<1> QED
    BY <1>1, <1>3, <1>4, <1>6, <1>7, <1>8, <1>9 DEF Uplink

-----------------------------------------------------------------------------
(* Tasks, the world and the budget.                                        *)

(* A task is sound when it is spawned. *)
LEMMA SpawnedIsSound ==
    /\ \A op \in Ops, pc \in Pcs \ {"probe"} :
           [Idle EXCEPT !.op = op, !.pc = pc] \in Sound
    /\ \A op \in Ops : [Idle EXCEPT !.op = op] \in Sound
    /\ \A v \in Range(Links), l \in Wired, pc \in {"read", "done"} :
           [Idle EXCEPT !.op = "start", !.vpn = v, !.lan = l, !.pc = pc]
               \in Sound
<1>1. <<>> \in Seq(InfoType) /\ <<>> \in Seq(LanInfo)
    BY EmptySeq
<1>2. Idle \in Sound
    BY <1>1 DEF Sound, Task, Outside, Idle, Ops, Pcs
<1>3. ASSUME NEW op \in Ops, NEW pc \in Pcs \ {"probe"}
      PROVE  [Idle EXCEPT !.op = op, !.pc = pc] \in Sound
    BY <1>2 DEF Sound, Task, Outside, Idle
<1>4. ASSUME NEW op \in Ops PROVE [Idle EXCEPT !.op = op] \in Sound
    BY <1>2 DEF Sound, Task, Outside, Idle
<1>5. ASSUME NEW v \in Range(Links), NEW l \in Wired, NEW pc \in {"read", "done"}
      PROVE  [Idle EXCEPT !.op = "start", !.vpn = v, !.lan = l, !.pc = pc] \in Sound
    BY <1>2 DEF Sound, Task, Outside, Idle, Ops, Pcs
<1> QED
    BY <1>3, <1>4, <1>5

(* The tasks stay sound when one is spawned, answers or goes on. *)
LEMMA TasksKeepSound ==
    ASSUME tasks \in Seq(Sound)
    PROVE  /\ \A t \in Sound : Append(tasks, t) \in Seq(Sound)
           /\ \A k \in DOMAIN tasks :
                  /\ tasks[k] \in Sound
                  /\ RemoveAt(tasks, k) \in Seq(Sound)
                  /\ \A t \in Sound :
                         /\ [tasks EXCEPT ![k] = t] \in Seq(Sound)
                         /\ Append(RemoveAt(tasks, k), t) \in Seq(Sound)
<1>1. DOMAIN tasks = 1..Len(tasks)
    BY LenProperties
<1> QED
    BY <1>1, AppendProperties, ElementOfSeq, RemoveAtKeeps, ExceptSeq

(* An event that is spent leaves a budget. *)
LEMMA SpendKeeps ==
    ASSUME left \in [Events -> Nat], NEW e \in Events, Spend(e)
    PROVE  left' \in [Events -> Nat]
<1>1. left[e] - 1 \in Nat
    BY DEF Spend
<1> QED
    BY <1>1 DEF Spend

(* What a task answers stays sound if only other fields change. *)
LEMMA StaysSound ==
    ASSUME NEW t \in Sound, NEW r \in Task, r.uplink = t.uplink,
           r.seen = t.seen, r.vpn = t.vpn, r.lan = t.lan,
           r.pc \notin {"read", "probe"}
    PROVE  r \in Sound
    BY DEF Sound, Outside

(* A task that goes on stays sound. *)
LEMMA TaskStepsSound ==
    ASSUME Around, NEW k \in DOMAIN tasks
    PROVE  /\ DetectStep(k) => tasks' \in Seq(Sound) /\ left' \in [Events -> Nat]
           /\ UplinkStep(k) => tasks' \in Seq(Sound) /\ left' \in [Events -> Nat]
           /\ BrewStep(k) => /\ tasks' \in Seq(Sound) /\ left' \in [Events -> Nat]
                             /\ binary' \in BOOLEAN
<1> DEFINE t == tasks[k]
<1>0. /\ t \in Sound /\ t \in Task /\ world \in Worlds /\ left \in [Events -> Nat]
      /\ "fail" \in Events
      /\ \A u \in Sound : [tasks EXCEPT ![k] = u] \in Seq(Sound)
    BY TasksKeepSound DEF Around, Events, Sound
<1>1. Spend("fail") => left' \in [Events -> Nat]
    BY <1>0, SpendKeeps
<1>2. ASSUME DetectStep(k) PROVE tasks' \in Seq(Sound) /\ left' \in [Events -> Nat]
  <2>1. DetectVpn(world) \in Seq(InfoType) /\ DetectLan(world) \in Seq(LanInfo)
    BY <1>0, DetectionTypes
  <2> DEFINE found(r) == /\ r \in Task /\ r.uplink = t.uplink /\ r.seen = t.seen
                         /\ r.vpn = t.vpn /\ r.lan = t.lan
                         /\ r.pc \notin {"read", "probe"}
  <2>2. /\ found([t EXCEPT !.pc = "lan", !.vpns = DetectVpn(world)])
        /\ found([t EXCEPT !.pc = "lan"])
        /\ found([t EXCEPT !.pc = "done", !.lans = DetectLan(world)])
        /\ found([t EXCEPT !.pc = "done"])
    BY <1>0, <2>1 DEF Task, Pcs
  <2>3. \A r : found(r) => r \in Sound
    BY <1>0, StaysSound
  <2> HIDE DEF found
  <2>4. left' \in [Events -> Nat]
    BY <1>0, <1>1, <1>2 DEF DetectStep
  <2>5. tasks' \in Seq(Sound)
    BY <1>0, <1>2, <2>2, <2>3 DEF DetectStep, Set
  <2> QED
    BY <2>4, <2>5
<1>3. ASSUME UplinkStep(k) PROVE tasks' \in Seq(Sound) /\ left' \in [Events -> Nat]
  <2> DEFINE uplink == SelectUplink(t.seen, world, t.lan, {t.vpn})
             read == [t EXCEPT !.pc = "probe", !.seen = world]
             answer == [t EXCEPT !.pc = "done", !.uplink = uplink,
                                 !.ok = uplink # None]
  <2>1. ASSUME t.pc = "read" PROVE read \in Sound
    BY <1>0, <2>1 DEF Sound, Task, Outside, Pcs
  <2>2. ASSUME t.pc = "probe" PROVE answer \in Sound
    <3>1. t \in Task /\ t.seen \in Worlds
      BY <1>0, <2>2 DEF Sound
    <3> DEFINE u == uplink
    <3>2. u # None =>
              /\ u \in Uplink
              /\ u.iface \notin Tunnels \cup Loopbacks \cup {t.vpn, t.lan}
              /\ t.seen.arp \in Seq(Neighbor)
              /\ ~Hairpins(u.gateway, t.lan, t.seen.arp)
              /\ t.seen.arp # None
      BY <1>0, <3>1, UplinkChosenOutside
    <3> HIDE DEF u
    <3> DEFINE ok == u # None
    <3>3. ok \in BOOLEAN /\ u \in Uplink \cup {None}
      BY <3>2
    <3> HIDE DEF ok
    <3> DEFINE r == [t EXCEPT !.pc = "done", !.uplink = u, !.ok = ok]
    <3>4. /\ r \in Task /\ r.pc = "done" /\ r.uplink = u
          /\ r.vpn = t.vpn /\ r.lan = t.lan /\ r.seen = t.seen
      BY <3>1, <3>3 DEF Task, Pcs
    <3> HIDE DEF r
    <3>5. Outside(r)
      <4> SUFFICES ASSUME r.uplink # None PROVE Outside(r)
        BY DEF Outside
      <4>1. /\ r.uplink.iface \notin Tunnels \cup Loopbacks \cup {r.vpn, r.lan}
            /\ r.seen.arp \in Seq(Neighbor) /\ r.seen.arp # None
            /\ ~Hairpins(r.uplink.gateway, r.lan, r.seen.arp)
        BY <3>2, <3>4
      <4> QED
        BY <4>1, NoHairpinIsOutside DEF Outside
    <3>6. r \in Sound
      BY <3>4, <3>5 DEF Sound
    <3> QED
      BY <3>6 DEF r, u, ok
  <2> QED
    BY <1>0, <1>3, <2>1, <2>2 DEF UplinkStep, Set
<1>4. ASSUME BrewStep(k)
      PROVE  /\ tasks' \in Seq(Sound) /\ left' \in [Events -> Nat]
             /\ binary' \in BOOLEAN
  <2>1. \A ok \in BOOLEAN : [t EXCEPT !.pc = "done", !.ok = ok] \in Sound
    <3> SUFFICES ASSUME NEW ok \in BOOLEAN
                 PROVE  [t EXCEPT !.pc = "done", !.ok = ok] \in Sound
      OBVIOUS
    <3> DEFINE r == [t EXCEPT !.pc = "done", !.ok = ok]
    <3>1. /\ r \in Task /\ r.uplink = t.uplink /\ r.seen = t.seen
          /\ r.vpn = t.vpn /\ r.lan = t.lan /\ r.pc \notin {"read", "probe"}
      BY <1>0 DEF Task, Pcs
    <3> QED
      BY <1>0, <3>1, StaysSound
  <2>2. [t EXCEPT !.pc = "done"] \in Sound
    <3> DEFINE r == [t EXCEPT !.pc = "done"]
    <3>1. /\ r \in Task /\ r.uplink = t.uplink /\ r.seen = t.seen
          /\ r.vpn = t.vpn /\ r.lan = t.lan /\ r.pc \notin {"read", "probe"}
      BY <1>0 DEF Task, Pcs
    <3> QED
      BY <1>0, <3>1, StaysSound
  <2>3. tasks' \in Seq(Sound)
    BY <1>0, <1>4, <2>1, <2>2 DEF BrewStep, Set
  <2> QED
    BY <1>0, <1>1, <1>4, <2>3 DEF BrewStep, Around
<1> QED
    BY <1>2, <1>3, <1>4

(* No step spawns a task that is not sound, or spends what is not left. *)
LEMMA AroundKept ==
    ASSUME Around, Flow, [Next]_vars
    PROVE  Around'
<1>0. /\ tasks \in Seq(Sound) /\ world \in Worlds /\ left \in [Events -> Nat]
      /\ allowOn \in BOOLEAN /\ binary \in BOOLEAN
    BY DEF Around
<1>1. \A e \in Events : Spend(e) => left' \in [Events -> Nat]
    BY <1>0, SpendKeeps
<1>2. \A op \in Ops \ {"detect", "install"} :
          Append(tasks, [Idle EXCEPT !.op = op]) \in Seq(Sound)
    BY <1>0, TasksKeepSound, SpawnedIsSound
<1>3. /\ Append(tasks, [Idle EXCEPT !.op = "detect", !.pc = "vpn"]) \in Seq(Sound)
      /\ Append(tasks, [Idle EXCEPT !.op = "install", !.pc = "brew"]) \in Seq(Sound)
    BY <1>0, TasksKeepSound, SpawnedIsSound DEF Ops, Pcs
<1>4. \A k \in DOMAIN tasks :
          /\ RemoveAt(tasks, k) \in Seq(Sound)
          /\ Append(RemoveAt(tasks, k), [Idle EXCEPT !.op = "doctor"])
                 \in Seq(Sound)
    BY <1>0, TasksKeepSound, SpawnedIsSound DEF Ops
<1> DEFINE Aside == UNCHANGED <<world, allowOn, binary>>
           Kept == /\ tasks' \in Seq(Sound) /\ left' \in [Events -> Nat]
                   /\ allowOn' \in BOOLEAN /\ binary' \in BOOLEAN
                   /\ world' \in Worlds
<1>5. ASSUME KeyStep PROVE Kept
  <2>1. CASE MenuMove \/ ToggleNatPmp \/ OpenPicker \/ PickerMove \/ PickerTyping
             \/ ToggleDhcp
    BY <1>0, <1>1, <2>1 DEF MenuMove, ToggleNatPmp, OpenPicker, PickerMove,
       PickerTyping, ToggleDhcp, worldVars, prefVars, Events
  <2>2. CASE ForgetDns \/ ChooseDns \/ ChooseMtu \/ DoctorMove \/ SelectMove \/ Back
    BY <1>0, <2>2 DEF ForgetDns, ChooseDns, ChooseMtu, DoctorMove, SelectMove,
       Back, worldVars, prefVars
  <2>3. CASE ToggleBypass \/ Cancel
    BY <1>0, <1>1, <2>3 DEF ToggleBypass, Cancel, worldVars, prefVars, Events
  <2>4. CASE StartSelection \/ Install
    BY <1>0, <1>1, <1>3, <2>4 DEF StartSelection, Install, DetectInterfaces,
       Spawn, worldVars, prefVars, Events
  <2>5. CASE OpenDoctor \/ DoctorAct \/ StopSharing \/ ConfirmVpn
    <3>1. UNCHANGED <<allowOn, binary, world>>
      BY <2>5, Zenon DEF OpenDoctor, DoctorAct, StopSharing, ConfirmVpn, worldVars
    <3>2. Spend("doctor") \/ UNCHANGED left
      BY <2>5, Zenon DEF OpenDoctor, DoctorAct, StopSharing, ConfirmVpn
    <3>3. \E op \in {"doctor", "flush", "stop", "dns"} :
              tasks' = Append(tasks, [Idle EXCEPT !.op = op])
      BY <2>5, Zenon DEF OpenDoctor, DoctorAct, StopSharing, ConfirmVpn, RunDoctor,
         Spawn
    <3>4. {"doctor", "flush", "stop", "dns"} \subseteq Ops \ {"detect", "install"}
      BY DEF Ops
    <3>5. tasks' \in Seq(Sound)
      BY <1>2, <3>3, <3>4
    <3> QED
      BY <1>0, <1>1, <3>1, <3>2, <3>5 DEF Events
  <2>6. CASE ConfirmLan
    <3> DEFINE v == At(vpns, vpn).name
               l == At(lans, lan).name
               pc == IF allowOn THEN "read" ELSE "done"
               new == [Idle EXCEPT !.op = "start", !.vpn = v, !.lan = l, !.pc = pc]
    <3>1. v \in Range(Links) /\ l \in Wired
      <4>1. /\ screen = "SelectingLan" /\ vpn \in Nat /\ lan \in Nat
            /\ InList(vpns, vpn) /\ InList(lans, lan)
            /\ vpns \in Seq(InfoType) /\ lans \in Seq(LanInfo)
        BY <2>6 DEF ConfirmLan, Flow, KeyReady
      <4>2. At(vpns, vpn) \in InfoType /\ At(lans, lan) \in LanInfo
        BY <4>1, AtInList
      <4> QED
        BY <4>2 DEF InfoType, LanInfo
    <3>2. pc \in {"read", "done"}
      OBVIOUS
    <3>3. session'.vpn = v /\ session'.lan = l
      BY <2>6 DEF ConfirmLan
    <3>4. tasks' = Append(tasks, new)
      BY <2>6, <3>3 DEF ConfirmLan, Spawn
    <3> HIDE DEF v, l, pc
    <3>5. tasks' \in Seq(Sound)
      BY <1>0, <3>1, <3>2, <3>4, TasksKeepSound, SpawnedIsSound
    <3> QED
      BY <1>0, <1>1, <2>6, <3>5 DEF ConfirmLan, worldVars, Events
  <2> QED
    BY <1>5, <2>1, <2>2, <2>3, <2>4, <2>5, <2>6 DEF KeyStep
<1>6. ASSUME TaskStep PROVE Kept
  <2>1. PICK k \in DOMAIN tasks :
            BrewStep(k) \/ ((DetectStep(k) \/ UplinkStep(k)) /\ UNCHANGED binary)
    BY <1>6 DEF TaskStep
  <2>2. UNCHANGED <<world, allowOn>>
    BY <1>6 DEF TaskStep
  <2> QED
    BY <1>0, <2>1, <2>2, TaskStepsSound
<1>7. ASSUME AnswerStep PROVE Kept
  <2> PICK k \in DOMAIN tasks :
          \/ Discard(k) \/ OnInterfacesDetected(k) \/ OnDnsDiscovered(k)
          \/ OnSharingStarted(k) \/ OnSharingStopped(k) \/ OnDoctorFinished(k)
          \/ OnDoctorAnchorFlushed(k) \/ OnDnsmasqInstalled(k)
    BY <1>7 DEF AnswerStep
  <2>1. CASE \/ Discard(k) \/ OnInterfacesDetected(k) \/ OnDnsDiscovered(k)
             \/ OnSharingStopped(k) \/ OnDoctorFinished(k)
    BY <1>0, <1>4, <2>1 DEF Discard, OnInterfacesDetected, OnDnsDiscovered,
       OnSharingStopped, OnDoctorFinished, Finish, worldVars, prefVars
  <2>2. CASE OnSharingStarted(k)
    BY <1>0, <1>1, <1>4, <2>2 DEF OnSharingStarted, Finish, worldVars, prefVars,
       Events
  <2>3. CASE OnDoctorAnchorFlushed(k)
    BY <1>0, <1>1, <1>4, <2>3 DEF OnDoctorAnchorFlushed, Finish, worldVars,
       prefVars, Events
  <2>4. CASE OnDnsmasqInstalled(k)
    BY <1>0, <1>4, <2>4 DEF OnDnsmasqInstalled, Finish, worldVars, prefVars
  <2> QED
    BY <2>1, <2>2, <2>3, <2>4
<1>8. ASSUME Restart PROVE Kept
    BY <1>0, <1>1, <1>8, EmptySeq DEF Restart, worldVars, Events
<1>9. ASSUME WorldStep PROVE Kept
    BY <1>0, <1>1, <1>9 DEF WorldStep, Events
<1>10. ASSUME UNCHANGED vars PROVE Kept
    BY <1>0, <1>10 DEF vars, worldVars
<1> QED
    BY <1>5, <1>6, <1>7, <1>8, <1>9, <1>10 DEF Next, Around

-----------------------------------------------------------------------------
(* The flow from screen to screen.                                         *)

(* Beside a session that is up the menu offers nothing that leads to       *)
(* another one.                                                            *)
LEMMA ChosenWithoutSession ==
    ASSUME Flow, NEW item, Chosen(item),
           item \notin {"StopSharing", "ViewLists", "Quit"}
    PROVE  screen = "Menu" /\ pending = "none" /\ session = None
<1>1. screen = "Menu" /\ pending = "none" /\ menu \in 0..7
    BY DEF Chosen, KeyReady, Flow
<1>2. ASSUME session # None PROVE FALSE
  <2>1. MenuItems = <<"StopSharing", "ViewLists", "Quit">>
    BY <1>2 DEF MenuItems
  <2>2. CASE InList(MenuItems, menu) /\ At(MenuItems, menu) = item
    <3>1. menu \in 0..2
      BY <1>1, <2>1, <2>2 DEF InList
    <3>2. menu + 1 = 1 \/ menu + 1 = 2 \/ menu + 1 = 3
      BY <3>1
    <3> QED
      BY <2>1, <2>2, <3>2 DEF At
  <2>3. CASE item = MenuItems[1]
    BY <2>1, <2>3
  <2> QED
    BY <2>2, <2>3 DEF Chosen
<1> QED
    BY <1>1, <1>2

(* Elsewhere than on the menu and the Active screen no session is up while *)
(* nothing is pending.                                                     *)
LEMMA ElsewhereWithoutSession ==
    ASSUME Flow, NEW where, KeyReady(where), where \notin {"Menu", "Active"}
    PROVE  screen = where /\ pending = "none" /\ session = None
    BY DEF Flow, KeyReady

(* Which operation an answer is for says what was pending. *)
LEMMA PendingOfAnswer ==
    ASSUME pending \in PendingOps
    PROVE  /\ OpOf(pending) = "detect" => pending = "DetectingInterfaces"
           /\ OpOf(pending) = "dns" => pending = "DiscoveringDns"
           /\ OpOf(pending) = "start" => pending = "StartingSharing"
           /\ OpOf(pending) = "doctor" => pending = "RunningDoctor"
           /\ OpOf(pending) = "flush" => pending = "FlushingStaleAnchor"
           /\ OpOf(pending) = "install" => pending = "InstallingDnsmasq"
<1>1. CASE pending = "none"
    BY <1>1 DEF OpOf
<1>2. CASE pending = "StoppingSharing"
    BY <1>2 DEF OpOf
<1>3. CASE pending \in {"DetectingInterfaces", "DiscoveringDns", "StartingSharing"}
    BY <1>3 DEF OpOf
<1>4. CASE pending \in {"RunningDoctor", "FlushingStaleAnchor", "InstallingDnsmasq"}
    BY <1>4 DEF OpOf
<1> QED
    BY <1>1, <1>2, <1>3, <1>4 DEF PendingOps

(* A list that is not empty has a first element. *)
LEMMA FirstInList ==
    ASSUME NEW S, NEW s \in Seq(S), s # <<>>
    PROVE  0 \in Nat /\ InList(s, 0)
    BY LenProperties, EmptySeq DEF InList

(* A key keeps the flow. *)
LEMMA KeysKeepFlow ==
    ASSUME IInv, KeyStep
    PROVE  Flow'
<1> USE DEF ScreenNames, PendingOps
<1>0. Flow /\ Around /\ Cursors
    BY DEF IInv
<1>1. CASE MenuMove
  <2>1. Len(MenuItems) \in 0..8 /\ menu \in 0..7
    BY <1>0 DEF MenuItems, Flow
  <2>2. \/ menu > 0 /\ menu' = menu - 1
        \/ menu + 1 < Len(MenuItems) /\ menu' = menu + 1
    BY <1>1, Zenon DEF MenuMove
  <2>3. menu' \in 0..7
    <3> DEFINE n == Len(MenuItems)
    <3>1. /\ n \in 0..8 /\ menu \in 0..7
          /\ \/ menu > 0 /\ menu' = menu - 1
             \/ menu + 1 < n /\ menu' = menu + 1
      BY <2>1, <2>2
    <3> HIDE DEF n
    <3> QED
      BY <3>1
  <2> QED
    BY <1>0, <1>1, <2>3 DEF MenuMove, Flow, selectVars, prefVars, KeyReady, InList
<1>2. CASE StartSelection
  <2>1. pending = "none" /\ session = None
    BY <1>0, <1>2, ChosenWithoutSession, ElsewhereWithoutSession DEF StartSelection
  <2>2. pending' = "DetectingInterfaces"
    BY <1>2 DEF StartSelection, DetectInterfaces, Spawn
  <2> QED
    BY <1>0, <1>2, <2>1, <2>2 DEF StartSelection, Flow, selectVars, prefVars, InList
<1>3. CASE StopSharing
  <2>1. /\ screen \in {"Menu", "Active"} /\ pending = "none"
        /\ pending' = "StoppingSharing"
    BY <1>3 DEF StopSharing, Spawn, Chosen, KeyReady
  <2> QED
    BY <1>0, <1>3, <2>1 DEF StopSharing, Flow, selectVars, prefVars, InList
<1>4. CASE ToggleDhcp
  <2>1. screen = "Menu" /\ pending = "none" /\ session = None
    BY <1>0, <1>4, ChosenWithoutSession DEF ToggleDhcp
  <2> QED
    BY <1>0, <1>4, <2>1 DEF ToggleDhcp, Flow, selectVars, InList
<1>5. CASE ToggleNatPmp \/ PickerMove \/ PickerTyping \/ ForgetDns \/ ToggleBypass
           \/ DoctorMove
  <2>1. UNCHANGED <<screen, pending, menu, selectVars, session, installed>>
    BY <1>5, Zenon DEF ToggleNatPmp, PickerMove, PickerTyping, ForgetDns,
       ToggleBypass, DoctorMove, prefVars
  <2> QED
    BY <1>0, <2>1 DEF Flow, selectVars, InList
<1>6. CASE OpenPicker
  <2>1. screen = "Menu" /\ pending = "none" /\ session = None
    BY <1>0, <1>6, ChosenWithoutSession DEF OpenPicker
  <2>2. /\ UNCHANGED <<pending, menu, selectVars, session, installed>>
        /\ screen' \in {"EditingDns", "EditingMtu"}
    BY <1>6, Zenon DEF OpenPicker, prefVars
  <2> QED
    BY <1>0, <2>1, <2>2 DEF Flow, selectVars, InList
<1>7. CASE ChooseDns \/ ChooseMtu
  <2>1. /\ UNCHANGED <<pending, menu, selectVars, session, installed>>
        /\ pending = "none" /\ screen' = "Menu"
    BY <1>7, Zenon DEF ChooseDns, ChooseMtu, KeyReady
  <2> QED
    BY <1>0, <2>1 DEF Flow, selectVars, InList
<1>8. CASE OpenDoctor
  <2>1. pending = "none" /\ session = None
    BY <1>0, <1>8, ChosenWithoutSession, ElsewhereWithoutSession DEF OpenDoctor
  <2>2. /\ UNCHANGED <<menu, selectVars, session, installed>>
        /\ pending' = "RunningDoctor" /\ screen' = "Doctor"
    BY <1>8, Zenon DEF OpenDoctor, RunDoctor, Spawn, prefVars
  <2> QED
    BY <1>0, <2>1, <2>2 DEF Flow, selectVars, InList
<1>9. CASE DoctorAct
  <2>1. screen = "Doctor" /\ pending = "none" /\ session = None
    BY <1>0, <1>9, ElsewhereWithoutSession DEF DoctorAct
  <2>2. /\ UNCHANGED <<screen, menu, selectVars, session, installed>>
        /\ pending' \in {"RunningDoctor", "FlushingStaleAnchor"}
    BY <1>9, Zenon DEF DoctorAct, RunDoctor, Spawn, prefVars
  <2> QED
    BY <1>0, <2>1, <2>2 DEF Flow, selectVars, InList
<1>10. CASE Install
  <2>1. screen = "InstallDnsmasq" /\ pending = "none" /\ session = None
    BY <1>0, <1>10, ElsewhereWithoutSession DEF Install
  <2>2. pending' = "InstallingDnsmasq"
    BY <1>10 DEF Install, Spawn
  <2> QED
    BY <1>0, <1>10, <2>1, <2>2 DEF Install, Flow, selectVars, prefVars, InList
<1>11. CASE SelectMove
  <2>1. /\ UNCHANGED <<screen, pending, menu, vpns, lans, session, installed>>
        /\ pending = "none" /\ Len(vpns) \in Nat /\ Len(lans) \in Nat
    BY <1>0, <1>11, LenProperties DEF SelectMove, KeyReady, prefVars, Flow
  <2>2. CASE screen = "SelectingVpn"
    <3>1. /\ vpn \in Nat /\ lan' = lan /\ vpn' \in 0..(Len(vpns) - 1)
          /\ lans # <<>>
      BY <1>0, <1>11, <2>2 DEF SelectMove, KeyReady, Move, Flow
    <3> QED
      BY <1>0, <2>1, <2>2, <3>1 DEF Flow, InList
  <2>3. CASE screen = "SelectingLan"
    <3>1. lan \in Nat /\ vpn' = vpn /\ lan' \in 0..(Len(lans) - 1)
      BY <1>0, <1>11, <2>3 DEF SelectMove, KeyReady, Move, Flow
    <3> QED
      BY <1>0, <2>1, <2>3, <3>1 DEF Flow, InList
  <2> QED
    BY <1>11, <2>2, <2>3 DEF SelectMove, KeyReady
<1>12. CASE ConfirmVpn
  <2>1. screen = "SelectingVpn" /\ pending = "none" /\ session = None
    BY <1>0, <1>12, ElsewhereWithoutSession DEF ConfirmVpn
  <2>2. pending' = "DiscoveringDns"
    BY <1>12 DEF ConfirmVpn, Spawn
  <2> QED
    BY <1>0, <1>12, <2>1, <2>2 DEF ConfirmVpn, Flow, selectVars, prefVars, InList
<1>13. CASE ConfirmLan
  <2>1. screen = "SelectingLan" /\ pending = "none" /\ session = None
    BY <1>0, <1>13, ElsewhereWithoutSession DEF ConfirmLan
  <2>2. /\ vpn \in Nat /\ lan \in Nat /\ InList(vpns, vpn) /\ InList(lans, lan)
        /\ vpns \in Seq(InfoType) /\ lans \in Seq(LanInfo)
    BY <1>0, <2>1 DEF Flow
  <2>3. At(vpns, vpn) \in InfoType /\ At(lans, lan) \in LanInfo
    BY <2>2, AtInList
  <2>4. session' \in Session
    BY <1>13, <2>3 DEF ConfirmLan, Session, InfoType, LanInfo
  <2>5. session' # None
    BY <2>4, ScreensAssumption
  <2>6. pending' = "StartingSharing"
    BY <1>13 DEF ConfirmLan, Spawn
  <2>7. UNCHANGED <<screen, menu, selectVars, installed>>
    BY <1>13 DEF ConfirmLan, prefVars
  <2> QED
    BY <1>0, <2>1, <2>2, <2>4, <2>5, <2>6, <2>7 DEF Flow, selectVars
<1>14. CASE Back
  <2>1. /\ UNCHANGED <<pending, menu, selectVars, session, installed>>
        /\ pending = "none"
    BY <1>14, Zenon DEF Back, prefVars
  <2>2. CASE screen = "SelectingLan"
    <3>1. screen' = "SelectingVpn"
      BY <1>14, <2>2 DEF Back
    <3> QED
      BY <1>0, <2>1, <2>2, <3>1 DEF Flow, selectVars, InList
  <2>3. CASE screen = "Doctor"
    <3>1. screen' = doctor.back
      BY <1>14, <2>3 DEF Back
    <3>2. screen' \in {"Menu", "PreflightBlocked"}
      BY <1>0, <3>1 DEF Cursors
    <3> QED
      BY <1>0, <2>1, <2>3, <3>2 DEF Flow, selectVars, InList
  <2>4. CASE screen \notin {"SelectingLan", "Doctor"}
    <3>1. screen' = "Menu"
      BY <1>14, <2>4 DEF Back
    <3> QED
      BY <1>0, <2>1, <3>1 DEF Flow, selectVars, InList
  <2> QED
    BY <2>2, <2>3, <2>4
<1>15. CASE Cancel
  <2>1. /\ UNCHANGED <<menu, selectVars, session, installed>>
        /\ pending # "none" /\ pending' = "none"
    BY <1>15, Zenon DEF Cancel, prefVars
  <2>2. CASE pending = "DiscoveringDns"
    <3>1. screen' = "SelectingVpn" /\ screen = "SelectingVpn"
      BY <1>0, <1>15, <2>2 DEF Cancel, Flow
    <3> QED
      BY <1>0, <2>1, <2>2, <3>1 DEF Flow, selectVars, InList
  <2>3. CASE pending \in {"StoppingSharing", "FlushingStaleAnchor"}
    <3>1. screen' = screen
      BY <1>15, <2>3 DEF Cancel
    <3> QED
      BY <1>0, <2>1, <2>3, <3>1 DEF Flow, selectVars, InList
  <2>4. CASE pending \notin {"DiscoveringDns", "StoppingSharing",
                             "FlushingStaleAnchor"}
    <3>1. screen' = "Menu"
      BY <1>15, <2>4 DEF Cancel
    <3> QED
      BY <1>0, <2>1, <2>4, <3>1 DEF Flow, selectVars, InList
  <2> QED
    BY <2>2, <2>3, <2>4
<1> QED
    BY <1>1, <1>2, <1>3, <1>4, <1>5, <1>6, <1>7, <1>8, <1>9, <1>10, <1>11,
       <1>12, <1>13, <1>14, <1>15 DEF KeyStep

(* An answer keeps the flow: it is for the operation that is pending, or   *)
(* it is a stop.                                                           *)
LEMMA AnswersKeepFlow ==
    ASSUME IInv, NEW k \in DOMAIN tasks,
           \/ Discard(k) \/ OnInterfacesDetected(k) \/ OnDnsDiscovered(k)
           \/ OnSharingStarted(k) \/ OnSharingStopped(k) \/ OnDoctorFinished(k)
           \/ OnDoctorAnchorFlushed(k) \/ OnDnsmasqInstalled(k)
    PROVE  Flow'
<1> USE DEF ScreenNames, PendingOps
<1> DEFINE t == tasks[k]
<1>0. Flow /\ Around
    BY DEF IInv
<1>1. t \in Sound /\ t \in Task
    BY <1>0, TasksKeepSound DEF Around, Sound
<1>2. /\ OpOf(pending) = "detect" => pending = "DetectingInterfaces"
      /\ OpOf(pending) = "dns" => pending = "DiscoveringDns"
      /\ OpOf(pending) = "start" => pending = "StartingSharing"
      /\ OpOf(pending) = "doctor" => pending = "RunningDoctor"
      /\ OpOf(pending) = "flush" => pending = "FlushingStaleAnchor"
      /\ OpOf(pending) = "install" => pending = "InstallingDnsmasq"
    BY <1>0, PendingOfAnswer DEF Flow
<1>3. CASE Discard(k)
    BY <1>0, <1>3 DEF Discard, Flow, selectVars, prefVars, InList
<1>4. CASE OnInterfacesDetected(k)
  <2>1. pending = "DetectingInterfaces" /\ pending' = "none" /\ session = None
    BY <1>0, <1>2, <1>4 DEF OnInterfacesDetected, Expected, Flow
  <2>2. vpns' = t.vpns /\ lans' = t.lans /\ t.vpns \in Seq(InfoType) /\ t.lans \in Seq(LanInfo)
    BY <1>1, <1>4 DEF OnInterfacesDetected, Task
  <2>3. UNCHANGED <<menu, lan, session, installed>>
    BY <1>4 DEF OnInterfacesDetected, prefVars
  <2>4. CASE t.vpns # <<>> /\ t.lans # <<>>
    <3>1. vpn' = 0 /\ screen' = "SelectingVpn"
      BY <1>4, <2>4 DEF OnInterfacesDetected
    <3>2. 0 \in Nat /\ InList(t.vpns, 0)
      BY <2>2, <2>4, FirstInList
    <3>3. InList(vpns', vpn') /\ lans' # <<>>
      BY <2>2, <2>4, <3>1, <3>2
    <3> QED
      BY <1>0, <2>1, <2>2, <2>3, <3>1, <3>2, <3>3 DEF Flow
  <2>5. CASE ~(t.vpns # <<>> /\ t.lans # <<>>)
    <3>1. vpn' = vpn /\ screen' = "PreflightBlocked"
      BY <1>4, <2>5 DEF OnInterfacesDetected
    <3> QED
      BY <1>0, <2>1, <2>2, <2>3, <3>1 DEF Flow
  <2> QED
    BY <2>4, <2>5
<1>5. CASE OnDnsDiscovered(k)
  <2>1. /\ pending = "DiscoveringDns" /\ screen = "SelectingVpn" /\ session = None
        /\ vpn \in Nat /\ InList(vpns, vpn) /\ lans # <<>> /\ lans \in Seq(LanInfo)
    BY <1>0, <1>2, <1>5, ScreensAssumption DEF OnDnsDiscovered, Expected, Flow
  <2>2. 0 \in Nat /\ InList(lans, 0)
    BY <2>1, FirstInList
  <2>3. /\ pending' = "none" /\ screen' = "SelectingLan" /\ lan' = 0
        /\ UNCHANGED <<menu, vpns, lans, vpn, session, installed>>
    BY <1>5, <2>1 DEF OnDnsDiscovered, prefVars
  <2>4. InList(vpns', vpn') /\ InList(lans', lan')
    BY <2>1, <2>2, <2>3
  <2> QED
    BY <1>0, <2>1, <2>2, <2>3, <2>4 DEF Flow
<1>6. CASE OnSharingStarted(k)
  <2>1. pending = "StartingSharing" /\ session # None /\ session \in Session
    BY <1>0, <1>2, <1>6 DEF OnSharingStarted, Expected, Flow
  <2>2. pending' = "none" /\ UNCHANGED <<menu, selectVars, installed>>
    BY <1>6 DEF OnSharingStarted, prefVars
  <2>3. CASE session' = None /\ screen' = "Menu"
    BY <1>0, <2>2, <2>3 DEF Flow, selectVars
  <2>4. CASE session' = [session EXCEPT !.wan = t.uplink] /\ screen' = "Active"
    <3>1. session' \in Session
      BY <1>1, <2>1, <2>4 DEF Session, Task
    <3> QED
      BY <1>0, <2>2, <2>4, <3>1 DEF Flow, selectVars
  <2> QED
    BY <1>6, <2>3, <2>4 DEF OnSharingStarted
<1>7. CASE OnSharingStopped(k)
  <2>1. /\ UNCHANGED <<selectVars, installed>>
        /\ pending' = "none" /\ session' = None /\ screen' = "Menu" /\ menu' = 0
    BY <1>7 DEF OnSharingStopped, prefVars
  <2> QED
    BY <1>0, <2>1 DEF Flow, selectVars
<1>8. CASE OnDoctorFinished(k) \/ OnDoctorAnchorFlushed(k)
  <2>1. pending \in {"RunningDoctor", "FlushingStaleAnchor"} /\ session = None
    BY <1>0, <1>2, <1>8 DEF OnDoctorFinished, OnDoctorAnchorFlushed, Expected,
       Flow
  <2>2. /\ UNCHANGED <<screen, menu, selectVars, session, installed>>
        /\ pending' \in {"none", "RunningDoctor"}
    BY <1>8, Zenon DEF OnDoctorFinished, OnDoctorAnchorFlushed, prefVars
  <2> QED
    BY <1>0, <2>1, <2>2 DEF Flow, selectVars, InList
<1>9. CASE OnDnsmasqInstalled(k)
  <2>1. pending = "InstallingDnsmasq" /\ session = None
    BY <1>0, <1>2, <1>9 DEF OnDnsmasqInstalled, Expected, Flow
  <2>2. /\ UNCHANGED <<menu, selectVars, session>>
        /\ pending' = "none" /\ screen' = "Menu"
    BY <1>9, Zenon DEF OnDnsmasqInstalled
  <2> QED
    BY <1>0, <2>1, <2>2 DEF Flow, selectVars
<1> QED
    BY <1>3, <1>4, <1>5, <1>6, <1>7, <1>8, <1>9

(* Every step keeps the flow. *)
LEMMA FlowKept ==
    ASSUME IInv, [Next]_vars
    PROVE  Flow'
<1>0. Flow
    BY DEF IInv
<1>1. CASE KeyStep
    BY <1>1, KeysKeepFlow
<1>2. CASE AnswerStep
    BY <1>2, AnswersKeepFlow DEF AnswerStep
<1>3. CASE TaskStep \/ WorldStep \/ UNCHANGED vars
  <2>1. UNCHANGED <<screen, pending, menu, selectVars, session, installed>>
    BY <1>3, Zenon DEF TaskStep, WorldStep, vars, prefVars
  <2> QED
    BY <1>0, <2>1 DEF Flow, selectVars, InList
<1>4. CASE Restart
  <2>1. /\ screen' = "Menu" /\ pending' = "none" /\ menu' = 0
        /\ vpns' = <<>> /\ lans' = <<>> /\ vpn' = None /\ lan' = None
        /\ session' = None
    BY <1>4 DEF Restart
  <2>2. <<>> \in Seq(InfoType) /\ <<>> \in Seq(LanInfo)
    BY EmptySeq
  <2> QED
    BY <2>1, <2>2 DEF Flow, ScreenNames, PendingOps
<1> QED
    BY <1>1, <1>2, <1>3, <1>4 DEF Next

-----------------------------------------------------------------------------
(* The preferences and the file that has them.                             *)

(* The rows of the pickers are what they stand for. *)
LEMMA RowsAreTyped ==
    ASSUME Prefs
    PROVE  /\ DnsRows \in Seq(Servers)
           /\ Len(DnsRows) = 1 + Len(DnsPresets) + Len(dns.history)
           /\ Len(DnsPresets) \in Nat /\ Len(dns.history) \in Nat
           /\ MtuRows \in Seq({0} \cup (MtuMin..MtuMax))
<1>1. <<None>> \in Seq(Servers) /\ Len(<<None>>) = 1
    BY DEF Servers
<1>2. DnsPresets \in Seq(Servers)
  <2>1. Range(DnsPresets) \subseteq Servers
    BY DEF Servers
  <2> QED
    BY <2>1, ScreensAssumption, SeqMonotonic
<1>3. dns.history \in Seq(Servers)
    BY DEF Prefs
<1>4. Len(DnsPresets) \in Nat /\ Len(dns.history) \in Nat
    BY <1>2, <1>3, LenProperties
<1>5. /\ <<None>> \o DnsPresets \in Seq(Servers)
      /\ Len(<<None>> \o DnsPresets) = 1 + Len(DnsPresets)
    BY <1>1, <1>2, ConcatProperties
<1>6. /\ DnsRows \in Seq(Servers)
      /\ Len(DnsRows) = Len(<<None>> \o DnsPresets) + Len(dns.history)
    BY <1>3, <1>5, ConcatProperties DEF DnsRows
<1>7. MtuRows \in Seq({0} \cup (MtuMin..MtuMax))
  <2> DEFINE M == {0} \cup (MtuMin..MtuMax)
  <2> DEFINE range == MtuMin..MtuMax
  <2>3. MtuPresets \in Seq(range) /\ range \subseteq M /\ 0 \in M
    BY ScreensAssumption
  <2> HIDE DEF M, range
  <2>1. MtuPresets \in Seq(M) /\ <<0>> \in Seq(M)
    BY <2>3, SeqMonotonic
  <2>2. <<0>> \o MtuPresets \in Seq(M)
    BY <2>1, ConcatProperties
  <2> QED
    BY <2>2 DEF MtuRows, M
<1> QED
    BY <1>4, <1>5, <1>6, <1>7

(* What is saved is in the file. *)
LEMMA SavedIsInFile ==
    ASSUME Prefs, UNCHANGED installed
    PROVE  /\ \A d \in [custom : Servers, history : Seq(Servers)] :
                  IsInjective(d.history) /\ Len(d.history) <= HistoryMax
                      /\ SetDns(d) => Prefs'
           /\ \A m \in {0} \cup (MtuMin..MtuMax) : SetMtu(m) => Prefs'
<1> USE DEF Saved, Prefs
<1>1. ASSUME NEW d \in [custom : Servers, history : Seq(Servers)],
             IsInjective(d.history), Len(d.history) <= HistoryMax, SetDns(d)
      PROVE  Prefs'
    BY <1>1 DEF SetDns
<1>2. ASSUME NEW m \in {0} \cup (MtuMin..MtuMax), SetMtu(m) PROVE Prefs'
    BY <1>2 DEF SetMtu
<1> QED
    BY <1>1, <1>2, Zenon

(* The switches of the servers are saved, and dnsmasq is on the disk for   *)
(* DHCP to be on.                                                          *)
LEMMA ServersAreInFile ==
    ASSUME Prefs, NEW newDhcp \in BOOLEAN, NEW newNatpmp \in BOOLEAN,
           SetServers(newDhcp, newNatpmp), installed' \in BOOLEAN,
           newDhcp => installed'
    PROVE  Prefs'
    BY DEF SetServers, Saved, Prefs

(* A key keeps the preferences. *)
LEMMA KeysKeepPrefs ==
    ASSUME IInv, KeyStep
    PROVE  Prefs'
<1>0. Prefs /\ Cursors
    BY DEF IInv
<1>1. CASE \/ MenuMove \/ StartSelection \/ StopSharing \/ OpenPicker
           \/ PickerMove \/ PickerTyping \/ OpenDoctor \/ DoctorMove \/ DoctorAct
           \/ Install \/ SelectMove \/ ConfirmVpn \/ ConfirmLan
           \/ ToggleBypass \/ Back \/ Cancel
  <2>1. UNCHANGED prefVars
    <3>1. CASE \/ MenuMove \/ StartSelection \/ StopSharing \/ OpenPicker
               \/ PickerMove \/ PickerTyping \/ OpenDoctor \/ DoctorMove
      BY <3>1, Zenon DEF MenuMove, StartSelection, StopSharing, OpenPicker,
         PickerMove, PickerTyping, OpenDoctor, DoctorMove
    <3>2. CASE \/ DoctorAct \/ Install \/ SelectMove \/ ConfirmVpn \/ ConfirmLan
               \/ ToggleBypass \/ Back \/ Cancel
      BY <3>2, Zenon DEF DoctorAct, Install, SelectMove, ConfirmVpn, ConfirmLan,
         ToggleBypass, Back, Cancel
    <3> QED
      BY <1>1, <3>1, <3>2
  <2> QED
    BY <1>0, <2>1 DEF Prefs, prefVars
<1>2. CASE ToggleDhcp
  <2>1. CASE installed /\ SetServers(~dhcp, natpmp) /\ UNCHANGED installed
    BY <1>0, <2>1, ServersAreInFile DEF Prefs
  <2>2. CASE UNCHANGED prefVars
    BY <1>0, <2>2 DEF Prefs, prefVars
  <2> QED
    BY <1>2, <2>1, <2>2 DEF ToggleDhcp, prefVars
<1>3. CASE ToggleNatPmp
  <2>1. SetServers(dhcp, ~natpmp) /\ UNCHANGED installed
    BY <1>3 DEF ToggleNatPmp
  <2>2. /\ dhcp \in BOOLEAN /\ (~natpmp) \in BOOLEAN
        /\ installed \in BOOLEAN /\ (dhcp => installed)
    BY <1>0 DEF Prefs
  <2> QED
    BY <1>0, <2>1, <2>2, ServersAreInFile
<1>4. CASE ForgetDns
  <2> DEFINE h == picker.at - Len(DnsPresets)
             kept == RemoveAt(dns.history, h)
             new == [dns EXCEPT !.history = kept]
  <2>1. h \in DOMAIN dns.history /\ SetDns(new) /\ UNCHANGED installed
    BY <1>4 DEF ForgetDns
  <2>2. /\ dns \in [custom : Servers, history : Seq(Servers)]
        /\ IsInjective(dns.history) /\ Len(dns.history) <= HistoryMax
        /\ HistoryMax \in Nat /\ Len(dns.history) \in Nat
    BY <1>0, ScreensAssumption, LenProperties DEF Prefs
  <2>3. /\ kept \in Seq(Servers) /\ IsInjective(kept)
        /\ Len(kept) = Len(dns.history) - 1
    BY <2>1, <2>2, RemoveAtKeeps
  <2> HIDE DEF kept
  <2>4. /\ new \in [custom : Servers, history : Seq(Servers)]
        /\ IsInjective(new.history) /\ Len(new.history) <= HistoryMax
    BY <2>2, <2>3
  <2> HIDE DEF new
  <2> QED
    BY <1>0, <2>1, <2>4, SavedIsInFile
<1>5. CASE ChooseDns
  <2>0. UNCHANGED installed
    BY <1>5 DEF ChooseDns
  <2>1. /\ dns \in [custom : Servers, history : Seq(Servers)]
        /\ IsInjective(dns.history) /\ Len(dns.history) <= HistoryMax
    BY <1>0 DEF Prefs
  <2>2. ASSUME NEW value \in Servers, NEW recent \in BOOLEAN,
               SetDns([custom |-> value,
                       history |-> IF recent THEN Promote(dns.history, value)
                                             ELSE dns.history])
        PROVE  Prefs'
    <3> DEFINE list == IF recent THEN Promote(dns.history, value) ELSE dns.history
               new == [custom |-> value, history |-> list]
    <3>1. /\ list \in Seq(Servers) /\ IsInjective(list)
          /\ Len(list) <= HistoryMax
      BY <2>1, PromoteKeeps
    <3> HIDE DEF list
    <3>2. /\ new \in [custom : Servers, history : Seq(Servers)]
          /\ IsInjective(new.history) /\ Len(new.history) <= HistoryMax
      BY <3>1
    <3>3. SetDns(new)
      BY <2>2 DEF list
    <3> HIDE DEF new
    <3> QED
      BY <1>0, <2>0, <3>2, <3>3, SavedIsInFile
  <2>3. ASSUME InList(DnsRows, picker.at) PROVE At(DnsRows, picker.at) \in Servers
    <3>1. picker.at \in Nat /\ DnsRows \in Seq(Servers)
      BY <1>0, RowsAreTyped DEF Cursors
    <3> QED
      BY <2>3, <3>1, AtInList
  <2>4. CASE /\ InList(DnsRows, picker.at)
             /\ SetDns([custom |-> At(DnsRows, picker.at),
                        history |-> IF picker.at > Len(DnsPresets)
                                    THEN Promote(dns.history, At(DnsRows, picker.at))
                                    ELSE dns.history])
    BY <2>2, <2>3, <2>4
  <2>5. CASE SetDns([dns EXCEPT !.custom = None])
    <3> DEFINE new == [dns EXCEPT !.custom = None]
    <3>1. /\ new \in [custom : Servers, history : Seq(Servers)]
          /\ IsInjective(new.history) /\ Len(new.history) <= HistoryMax
      BY <2>1 DEF Servers
    <3>2. SetDns(new)
      BY <2>5
    <3> HIDE DEF new
    <3> QED
      BY <1>0, <2>0, <3>1, <3>2, SavedIsInFile
  <2>6. CASE SetDns(dns)
    BY <1>0, <2>0, <2>1, <2>6, SavedIsInFile
  <2>7. CASE \E value \in DnsTyped :
                 SetDns([custom |-> value, history |-> Promote(dns.history, value)])
    <3>1. PICK value \in DnsTyped :
              SetDns([custom |-> value, history |-> Promote(dns.history, value)])
      BY <2>7
    <3>2. value \in Servers
      BY DEF Servers
    <3> DEFINE list == IF TRUE THEN Promote(dns.history, value) ELSE dns.history
    <3>3. list = Promote(dns.history, value)
      OBVIOUS
    <3>4. SetDns([custom |-> value, history |-> list])
      BY <3>1, <3>3
    <3> QED
      BY <2>2, <3>2, <3>4
  <2> QED
    BY <1>5, <2>4, <2>5, <2>6, <2>7 DEF ChooseDns
<1>6. CASE ChooseMtu
  <2>0. UNCHANGED installed
    BY <1>6 DEF ChooseMtu
  <2>1. ASSUME InList(MtuRows, picker.at)
        PROVE  At(MtuRows, picker.at) \in {0} \cup (MtuMin..MtuMax)
    <3> DEFINE M == {0} \cup (MtuMin..MtuMax)
    <3>1. picker.at \in Nat /\ MtuRows \in Seq(M)
      BY <1>0, RowsAreTyped DEF Cursors
    <3> HIDE DEF M
    <3>2. At(MtuRows, picker.at) \in M
      BY <2>1, <3>1, AtInList
    <3> QED
      BY <3>2 DEF M
  <2>2. \E m \in {0} \cup (MtuMin..MtuMax) : SetMtu(m)
    BY <1>6, <2>1 DEF ChooseMtu
  <2> QED
    BY <1>0, <2>0, <2>2, SavedIsInFile
<1> QED
    BY <1>1, <1>2, <1>3, <1>4, <1>5, <1>6 DEF KeyStep

(* The program has what the file has when it is started. *)
LEMMA LaunchKeepsPrefs ==
    ASSUME Prefs, binary \in BOOLEAN, Restart
    PROVE  Prefs'
<1>1. /\ dns' = [custom |-> file.custom, history |-> LoadHistory(file)]
      /\ mtu' = file.mtu /\ natpmp' = file.natpmp
      /\ dhcp' = (file.dhcp /\ binary) /\ installed' = binary
      /\ file' = file
    BY DEF Restart, Launch
<1>2. dns.custom \in Servers /\ dns.history \in Seq(Servers)
    BY DEF Prefs
<1>3. /\ LoadHistory(file) \in Seq(Servers) /\ IsInjective(LoadHistory(file))
      /\ Len(LoadHistory(file)) <= HistoryMax
  <2>1. CASE dns.history = LoadHistory(file)
    BY <1>2, <2>1 DEF Prefs
  <2>2. CASE file.history = dns.history
    <3>1. /\ file.history \in Seq(Servers) /\ file.custom \in Servers
          /\ IsInjective(file.history) /\ Len(file.history) <= HistoryMax
      BY <1>2, <2>2 DEF Prefs
    <3> QED
      BY <3>1, LoadHistoryKeeps
  <2> QED
    BY <2>1, <2>2 DEF Prefs
<1>4. LoadHistory(file)' = LoadHistory(file)
    BY <1>1 DEF LoadHistory, FirstHistory
<1>5. dns' \in [custom : Servers, history : Seq(Servers)]
    BY <1>1, <1>2, <1>3 DEF Prefs
<1>6. dhcp' \in BOOLEAN /\ installed' \in BOOLEAN /\ (dhcp' => installed')
    BY <1>1
<1> QED
    BY <1>1, <1>2, <1>3, <1>4, <1>5, <1>6 DEF Prefs

(* Every step keeps the preferences. *)
LEMMA PrefsKept ==
    ASSUME IInv, [Next]_vars
    PROVE  Prefs'
<1>0. Prefs /\ Flow /\ Around
    BY DEF IInv
<1>1. CASE KeyStep
    BY <1>1, KeysKeepPrefs
<1>2. CASE TaskStep \/ WorldStep \/ UNCHANGED vars
  <2>1. UNCHANGED prefVars
    BY <1>2, Zenon DEF TaskStep, WorldStep, vars
  <2> QED
    BY <1>0, <2>1 DEF Prefs, prefVars
<1>3. CASE AnswerStep
  <2> PICK k \in DOMAIN tasks :
          \/ Discard(k) \/ OnInterfacesDetected(k) \/ OnDnsDiscovered(k)
          \/ OnSharingStarted(k) \/ OnSharingStopped(k) \/ OnDoctorFinished(k)
          \/ OnDoctorAnchorFlushed(k) \/ OnDnsmasqInstalled(k)
    BY <1>3 DEF AnswerStep
  <2>1. CASE \/ Discard(k) \/ OnInterfacesDetected(k) \/ OnDnsDiscovered(k)
             \/ OnSharingStarted(k) \/ OnSharingStopped(k) \/ OnDoctorFinished(k)
             \/ OnDoctorAnchorFlushed(k)
    <3>1. UNCHANGED prefVars
      BY <2>1, Zenon DEF Discard, OnInterfacesDetected, OnDnsDiscovered,
         OnSharingStarted, OnSharingStopped, OnDoctorFinished,
         OnDoctorAnchorFlushed
    <3> QED
      BY <1>0, <3>1 DEF Prefs, prefVars
  <2>2. CASE OnDnsmasqInstalled(k)
    <3>1. ~installed /\ ~dhcp
      BY <1>0, <2>2, PendingOfAnswer DEF OnDnsmasqInstalled, Expected, Flow, Prefs
    <3>2. binary \in BOOLEAN /\ natpmp \in BOOLEAN /\ installed \in BOOLEAN
      BY <1>0 DEF Around, Prefs
    <3>3. CASE tasks[k].ok /\ binary
      <4>1. installed' = binary /\ SetServers(TRUE, natpmp)
        BY <2>2, <3>3 DEF OnDnsmasqInstalled
      <4> QED
        BY <1>0, <3>2, <3>3, <4>1, ServersAreInFile
    <3>4. CASE ~(tasks[k].ok /\ binary)
      <4>1. UNCHANGED <<dns, mtu, dhcp, natpmp, file>> /\ installed' \in BOOLEAN
        BY <2>2, <3>2, <3>4 DEF OnDnsmasqInstalled
      <4> QED
        BY <1>0, <3>1, <4>1 DEF Prefs, LoadHistory, FirstHistory
    <3> QED
      BY <3>3, <3>4
  <2> QED
    BY <2>1, <2>2
<1>4. CASE Restart
    BY <1>0, <1>4, LaunchKeepsPrefs DEF Around
<1> QED
    BY <1>1, <1>2, <1>3, <1>4 DEF Next

-----------------------------------------------------------------------------
(* Cursors.                                                                *)

(* A cursor stays where it is unless a picker opens or its rows change. *)
LEMMA CursorsRest ==
    ASSUME Cursors, UNCHANGED <<picker, doctor>>,
           \/ UNCHANGED <<screen, dns>>
           \/ screen' \notin {"EditingDns", "EditingMtu"}
    PROVE  Cursors'
    BY DEF Cursors, DnsRows, MtuRows

(* A key keeps the cursors in their lists. *)
LEMMA KeysKeepCursors ==
    ASSUME IInv, KeyStep
    PROVE  Cursors'
<1>0. Cursors /\ Prefs
    BY DEF IInv
<1>1. /\ Len(DnsRows) \in Nat /\ Len(MtuRows) \in Nat
      /\ DnsRows \in Seq(Servers)
    BY <1>0, RowsAreTyped, LenProperties
<1>2. CASE \/ MenuMove \/ StartSelection \/ StopSharing \/ Install \/ DoctorAct
           \/ SelectMove \/ ConfirmVpn \/ ConfirmLan \/ ToggleBypass
  <2>1. UNCHANGED <<picker, doctor, screen, dns>>
    BY <1>2, Zenon DEF MenuMove, StartSelection, StopSharing, Install, DoctorAct,
       SelectMove, ConfirmVpn, ConfirmLan, ToggleBypass, prefVars
  <2> QED
    BY <1>0, <2>1, CursorsRest
<1>3. CASE ToggleNatPmp
  <2>1. UNCHANGED <<picker, doctor, screen, dns>>
    BY <1>3, Zenon DEF ToggleNatPmp, SetServers
  <2> QED
    BY <1>0, <2>1, CursorsRest
<1>4. CASE ToggleDhcp
  <2>1. UNCHANGED <<picker, doctor, dns>>
    BY <1>4, Zenon DEF ToggleDhcp, SetServers
  <2>2. screen' = screen \/ screen' = "InstallDnsmasq"
    BY <1>4, Zenon DEF ToggleDhcp
  <2> QED
    BY <1>0, <2>1, <2>2, CursorsRest
<1>5. CASE OpenPicker
  <2>1. UNCHANGED doctor /\ DnsRows' = DnsRows
    BY <1>5 DEF OpenPicker, prefVars, DnsRows
  <2>2. CASE /\ screen' = "EditingDns"
             /\ picker' = [at |-> OpensAt(DnsRows, dns.custom), typing |-> FALSE]
    <3>1. OpensAt(DnsRows, dns.custom) \in 0..Len(DnsRows)
      BY <1>1, OpensInList
    <3> DEFINE at == OpensAt(DnsRows, dns.custom)
    <3>2. picker' = [at |-> at, typing |-> FALSE] /\ at \in 0..Len(DnsRows)
      BY <2>2, <3>1
    <3> HIDE DEF at
    <3> QED
      BY <1>0, <1>1, <2>1, <2>2, <3>2 DEF Cursors
  <2>3. CASE /\ screen' = "EditingMtu"
             /\ picker' = [at |-> OpensAt(MtuRows, mtu), typing |-> FALSE]
    <3>1. OpensAt(MtuRows, mtu) \in 0..Len(MtuRows)
      BY <1>0, RowsAreTyped, OpensInList
    <3> DEFINE at == OpensAt(MtuRows, mtu)
    <3>2. picker' = [at |-> at, typing |-> FALSE] /\ at \in 0..Len(MtuRows)
      BY <2>3, <3>1
    <3> HIDE DEF at
    <3>3. MtuRows' = MtuRows
      BY DEF MtuRows
    <3> QED
      BY <1>0, <1>1, <2>1, <2>3, <3>2, <3>3 DEF Cursors
  <2> QED
    BY <1>5, <2>2, <2>3 DEF OpenPicker
<1>6. CASE PickerMove \/ PickerTyping
  <2>1. UNCHANGED <<doctor, screen, dns>>
    BY <1>6, Zenon DEF PickerMove, PickerTyping, prefVars
  <2>2. DnsRows' = DnsRows /\ MtuRows' = MtuRows
    BY <2>1 DEF DnsRows, MtuRows
  <2>3. picker \in [at : Nat, typing : BOOLEAN]
    BY <1>0 DEF Cursors
  <2>4. CASE PickerMove
    <3>1. PICK c \in Move(picker.at, Len(PickerRows)) :
              picker' = [picker EXCEPT !.at = c]
      BY <2>4 DEF PickerMove
    <3>2. screen = "EditingDns" => c \in 0..Len(DnsRows)
      BY <3>1 DEF Move, PickerRows
    <3>3. screen = "EditingMtu" => c \in 0..Len(MtuRows)
      BY <3>1 DEF Move, PickerRows
    <3>4. screen \in {"EditingDns", "EditingMtu"}
      BY <2>4 DEF PickerMove, InPicker
    <3> QED
      BY <1>0, <1>1, <2>1, <2>2, <2>3, <3>1, <3>2, <3>3, <3>4 DEF Cursors
  <2>5. CASE PickerTyping
    <3>1. picker' = [picker EXCEPT !.typing = ~picker.typing]
      BY <2>5 DEF PickerTyping
    <3>2. picker' \in [at : Nat, typing : BOOLEAN] /\ picker'.at = picker.at
      BY <2>3, <3>1
    <3> QED
      BY <1>0, <2>1, <2>2, <3>2 DEF Cursors
  <2> QED
    BY <1>6, <2>4, <2>5
<1>7. CASE ForgetDns
  <2> DEFINE h == picker.at - Len(DnsPresets)
             kept == RemoveAt(dns.history, h)
             rows == Len(DnsRows) - 1
  <2>1. /\ UNCHANGED <<doctor, screen>> /\ screen = "EditingDns"
        /\ h \in DOMAIN dns.history
        /\ dns' = [dns EXCEPT !.history = kept]
        /\ picker' = [picker EXCEPT !.at = IF picker.at > rows THEN rows
                                           ELSE picker.at]
    BY <1>7 DEF ForgetDns, SetDns, KeyReady
  <2>2. /\ dns \in [custom : Servers, history : Seq(Servers)]
        /\ picker \in [at : Nat, typing : BOOLEAN]
    BY <1>0 DEF Prefs, Cursors
  <2>3. kept \in Seq(Servers) /\ Len(kept) = Len(dns.history) - 1
    BY <2>1, <2>2, RemoveAtKeeps
  <2>4. /\ Len(DnsRows) = 1 + Len(DnsPresets) + Len(dns.history)
        /\ Len(DnsPresets) \in Nat /\ Len(dns.history) \in Nat
    BY <1>0, RowsAreTyped
  <2>5. Len(DnsRows') = rows
    <3>1. DnsRows' = <<None>> \o DnsPresets \o kept
      BY <2>1, <2>2 DEF DnsRows
    <3>2. <<None>> \in Seq(Servers) /\ Len(<<None>>) = 1
      BY DEF Servers
    <3>3. DnsPresets \in Seq(Servers)
      <4>1. Range(DnsPresets) \subseteq Servers
        BY DEF Servers
      <4> QED
        BY <4>1, ScreensAssumption, SeqMonotonic
    <3>4. /\ <<None>> \o DnsPresets \in Seq(Servers)
          /\ Len(<<None>> \o DnsPresets) = 1 + Len(DnsPresets)
      BY <3>2, <3>3, ConcatProperties
    <3> HIDE DEF kept
    <3>5. Len((<<None>> \o DnsPresets) \o kept)
              = Len(<<None>> \o DnsPresets) + Len(kept)
      BY <2>3, <3>4, ConcatProperties
    <3> DEFINE m == Len(DnsPresets)
               n == Len(dns.history)
    <3>6. /\ Len(DnsRows) = 1 + m + n /\ m \in Nat /\ n \in Nat
          /\ Len(DnsRows') = (1 + m) + (n - 1)
      BY <2>3, <2>4, <3>1, <3>4, <3>5
    <3> HIDE DEF m, n
    <3> QED
      BY <3>6
  <2> HIDE DEF h, kept
  <2>6. rows \in Nat
    <3> DEFINE m == Len(DnsPresets)
               n == Len(dns.history)
    <3>1. Len(DnsRows) = 1 + m + n /\ m \in Nat /\ n \in Nat
      BY <2>4
    <3> HIDE DEF m, n
    <3> QED
      BY <3>1
  <2>7. picker' \in [at : Nat, typing : BOOLEAN] /\ picker'.at <= rows
    BY <2>1, <2>2, <2>6
  <2> HIDE DEF rows
  <2> QED
    BY <1>0, <2>1, <2>5, <2>7 DEF Cursors
<1>8. CASE ChooseDns \/ ChooseMtu
  <2>1. UNCHANGED <<picker, doctor>> /\ screen' = "Menu"
    BY <1>8, Zenon DEF ChooseDns, ChooseMtu
  <2> QED
    BY <1>0, <2>1, CursorsRest
<1>9. CASE OpenDoctor
  <2>1. UNCHANGED picker /\ screen' = "Doctor"
    BY <1>9, Zenon DEF OpenDoctor
  <2> DEFINE back == IF screen = "PreflightBlocked" THEN screen ELSE "Menu"
  <2>2. doctor' = [doctor EXCEPT !.back = back]
    BY <1>9, Zenon DEF OpenDoctor
  <2>3. back \in {"Menu", "PreflightBlocked"}
    OBVIOUS
  <2> HIDE DEF back
  <2> QED
    BY <1>0, <2>1, <2>2, <2>3 DEF Cursors
<1>10. CASE DoctorMove
  <2>1. UNCHANGED <<picker, screen, dns>> /\ screen = "Doctor"
    BY <1>10, Zenon DEF DoctorMove, prefVars, KeyReady
  <2>2. doctor \in [count : Nat, at : Nat, stale : BOOLEAN,
                    back : {"Menu", "PreflightBlocked"}]
    BY <1>0 DEF Cursors
  <2>3. /\ doctor' \in [count : Nat, at : Nat, stale : BOOLEAN,
                        back : {"Menu", "PreflightBlocked"}]
        /\ doctor'.at = 0 \/ doctor'.at < doctor'.count
    BY <1>0, <1>10, <2>2 DEF DoctorMove, Cursors
  <2> QED
    BY <1>0, <2>1, <2>3 DEF Cursors
<1>11. CASE Back
  <2>1. UNCHANGED <<picker, doctor>>
    BY <1>11, Zenon DEF Back
  <2>2. screen' \in {"SelectingVpn", "Menu", "PreflightBlocked"}
    <3>1. CASE screen = "SelectingLan"
      BY <1>11, <3>1 DEF Back
    <3>2. CASE screen = "Doctor"
      BY <1>0, <1>11, <3>2 DEF Back, Cursors
    <3>3. CASE screen \notin {"SelectingLan", "Doctor"}
      BY <1>11, <3>3 DEF Back
    <3> QED
      BY <3>1, <3>2, <3>3
  <2> QED
    BY <1>0, <2>1, <2>2, CursorsRest
<1>12. CASE Cancel
  <2>1. UNCHANGED <<picker, doctor, dns>>
    BY <1>12, Zenon DEF Cancel, prefVars
  <2>2. screen' \in {"SelectingVpn", "Menu", screen}
    <3>1. CASE pending = "DiscoveringDns"
      BY <1>12, <3>1 DEF Cancel
    <3>2. CASE pending \in {"StoppingSharing", "FlushingStaleAnchor"}
      BY <1>12, <3>2 DEF Cancel
    <3>3. CASE pending \notin {"DiscoveringDns", "StoppingSharing",
                               "FlushingStaleAnchor"}
      BY <1>12, <3>3 DEF Cancel
    <3> QED
      BY <3>1, <3>2, <3>3
  <2> QED
    BY <1>0, <2>1, <2>2, CursorsRest
<1> QED
    BY <1>2, <1>3, <1>4, <1>5, <1>6, <1>7, <1>8, <1>9, <1>10, <1>11, <1>12
    DEF KeyStep

(* Every step keeps the cursors in their lists. *)
LEMMA CursorsKept ==
    ASSUME IInv, [Next]_vars
    PROVE  Cursors'
<1>0. Cursors
    BY DEF IInv
<1>1. CASE KeyStep
    BY <1>1, KeysKeepCursors
<1>2. CASE TaskStep \/ WorldStep \/ UNCHANGED vars
  <2>1. UNCHANGED <<picker, doctor, screen, dns>>
    BY <1>2, Zenon DEF TaskStep, WorldStep, vars, prefVars
  <2> QED
    BY <1>0, <2>1, CursorsRest
<1>3. CASE AnswerStep
  <2> PICK k \in DOMAIN tasks :
          \/ Discard(k) \/ OnInterfacesDetected(k) \/ OnDnsDiscovered(k)
          \/ OnSharingStarted(k) \/ OnSharingStopped(k) \/ OnDoctorFinished(k)
          \/ OnDoctorAnchorFlushed(k) \/ OnDnsmasqInstalled(k)
    BY <1>3 DEF AnswerStep
  <2>1. CASE Discard(k) \/ OnDoctorAnchorFlushed(k)
    <3>1. UNCHANGED <<picker, doctor, screen, dns>>
      BY <2>1, Zenon DEF Discard, OnDoctorAnchorFlushed, prefVars
    <3> QED
      BY <1>0, <3>1, CursorsRest
  <2>2. CASE \/ OnInterfacesDetected(k) \/ OnDnsDiscovered(k)
             \/ OnSharingStarted(k) \/ OnSharingStopped(k)
             \/ OnDnsmasqInstalled(k)
    <3>1. UNCHANGED <<picker, doctor>>
      BY <2>2, Zenon DEF OnInterfacesDetected, OnDnsDiscovered, OnSharingStarted,
         OnSharingStopped, OnDnsmasqInstalled
    <3>2. screen' \in {"SelectingVpn", "PreflightBlocked", "SelectingLan",
                       "Active", "Menu"}
      BY <2>2 DEF OnInterfacesDetected, OnDnsDiscovered, OnSharingStarted,
         OnSharingStopped, OnDnsmasqInstalled
    <3> QED
      BY <1>0, <3>1, <3>2, CursorsRest
  <2>3. CASE OnDoctorFinished(k)
    <3>1. UNCHANGED <<picker, screen, dns>>
      BY <2>3, Zenon DEF OnDoctorFinished, prefVars
    <3>2. PICK count \in ResultCounts, stale \in BOOLEAN :
              doctor' = [doctor EXCEPT !.count = count, !.stale = stale,
                             !.at = IF doctor.at >= count THEN 0 ELSE doctor.at]
      BY <2>3 DEF OnDoctorFinished
    <3>3. count \in Nat
      BY ScreensAssumption
    <3> DEFINE at == IF doctor.at >= count THEN 0 ELSE doctor.at
    <3>4. doctor \in [count : Nat, at : Nat, stale : BOOLEAN,
                      back : {"Menu", "PreflightBlocked"}]
      BY <1>0 DEF Cursors
    <3>5. at \in Nat /\ (at = 0 \/ at < count)
      BY <3>3, <3>4
    <3>6. doctor' = [doctor EXCEPT !.count = count, !.stale = stale, !.at = at]
      BY <3>2
    <3> HIDE DEF at
    <3>7. /\ doctor' \in [count : Nat, at : Nat, stale : BOOLEAN,
                          back : {"Menu", "PreflightBlocked"}]
          /\ doctor'.at = 0 \/ doctor'.at < doctor'.count
      BY <3>3, <3>4, <3>5, <3>6
    <3> QED
      BY <1>0, <3>1, <3>7 DEF Cursors, DnsRows, MtuRows
  <2> QED
    BY <2>1, <2>2, <2>3
<1>4. CASE Restart
  <2>1. /\ screen' = "Menu" /\ picker' = [at |-> 0, typing |-> FALSE]
        /\ doctor' = [count |-> 0, at |-> 0, stale |-> FALSE, back |-> "Menu"]
    BY <1>4 DEF Restart
  <2> QED
    BY <2>1 DEF Cursors
<1> QED
    BY <1>1, <1>2, <1>3, <1>4 DEF Next

-----------------------------------------------------------------------------
(* The invariant.                                                          *)

(* It holds when the program starts, with the file another run has left. *)
LEMMA InitIInv == Init => IInv
<1> SUFFICES ASSUME Init PROVE IInv
    OBVIOUS
<1>1. PICK s \in Starts : /\ file = s.file /\ binary = s.binary
                          /\ world = s.world /\ left = s.left
    BY DEF Init
<1>2. /\ Written(file) /\ world \in Worlds /\ binary \in BOOLEAN
      /\ left \in [Events -> Nat]
    BY <1>1, ScreensAssumption
<1>3. <<>> \in Seq(InfoType) /\ <<>> \in Seq(LanInfo) /\ <<>> \in Seq(Sound)
    BY EmptySeq
<1>4. /\ file.dhcp \in BOOLEAN /\ file.natpmp \in BOOLEAN
      /\ file.history \in Seq(Range(file.history))
      /\ IsInjective(file.history) /\ Len(file.history) <= HistoryMax
      /\ file.mtu = 0 \/ file.mtu \in MtuMin..MtuMax
    BY <1>2 DEF Written
<1>5. file.custom \in Servers /\ Range(file.history) \subseteq Servers
    BY <1>1 DEF Servers
<1>6. file.history \in Seq(Servers)
    BY <1>4, <1>5, SeqMonotonic
<1>7. /\ LoadHistory(file) \in Seq(Servers) /\ IsInjective(LoadHistory(file))
      /\ Len(LoadHistory(file)) <= HistoryMax
    BY <1>4, <1>5, <1>6, LoadHistoryKeeps
<1>8. /\ dns = [custom |-> file.custom, history |-> LoadHistory(file)]
      /\ mtu = file.mtu /\ natpmp = file.natpmp
      /\ dhcp = (file.dhcp /\ binary) /\ installed = binary
    BY DEF Init, Launch
<1>9. Around
    BY <1>2, <1>3 DEF Around, Init
<1>10. Flow
    BY <1>3 DEF Flow, Init, ScreenNames, PendingOps
<1>11. Prefs
  <2>1. dns \in [custom : Servers, history : Seq(Servers)]
    BY <1>5, <1>7, <1>8
  <2>2. dhcp \in BOOLEAN /\ installed \in BOOLEAN /\ (dhcp => installed)
    BY <1>2, <1>8
  <2> QED
    BY <1>4, <1>7, <1>8, <2>1, <2>2 DEF Prefs
<1>12. Cursors
    BY DEF Cursors, Init
<1> QED
    BY <1>9, <1>10, <1>11, <1>12 DEF IInv

(* Every step keeps it. *)
LEMMA NextIInv == IInv /\ [Next]_vars => IInv'
    BY AroundKept, FlowKept, PrefsKept, CursorsKept DEF IInv

(* So it holds in every state. *)
LEMMA Invariance == Spec => []IInv
    BY InitIInv, NextIInv, PTL DEF Spec

-----------------------------------------------------------------------------
(* What it says of the properties.                                         *)

(* A state of the invariant is well typed. *)
LEMMA IInvIsTyped == IInv => TypeOK
<1> SUFFICES ASSUME IInv PROVE TypeOK
    OBVIOUS
<1>0. Around /\ Flow /\ Prefs /\ Cursors
    BY DEF IInv
<1>1. lans \in Seq(InfoType)
  <2>1. lans \in Seq(LanInfo) /\ LanInfo \subseteq InfoType
    BY <1>0 DEF Flow, LanInfo
  <2> QED
    BY <2>1, SeqMonotonic
<1>2. /\ screen = "EditingDns" => picker.at \in 0..Len(DnsRows)
      /\ screen = "EditingMtu" => picker.at \in 0..Len(MtuRows)
  <2>1. Len(DnsRows) \in Nat /\ Len(MtuRows) \in Nat /\ picker.at \in Nat
    BY <1>0, RowsAreTyped, LenProperties DEF Cursors
  <2> QED
    BY <1>0, <2>1 DEF Cursors
<1>3. doctor.at = 0 \/ InList([i \in 1..doctor.count |-> i], doctor.at)
  <2> DEFINE n == doctor.count
             s == [i \in 1..n |-> i]
  <2>1. n \in Nat
    BY <1>0 DEF Cursors
  <2> HIDE DEF n
  <2>2. s \in Seq(Nat)
    BY <2>1, SeqDef
  <2>3. Len(s) = n
    BY <2>1, <2>2, LenProperties
  <2> QED
    BY <1>0, <2>3 DEF Cursors, InList, n
<1>4. \A t \in Range(tasks) : t.op \in {OpOf(p) : p \in PendingOps}
  <2> SUFFICES ASSUME NEW t \in Range(tasks)
               PROVE  t.op \in {OpOf(p) : p \in PendingOps}
    OBVIOUS
  <2>1. PICK k \in DOMAIN tasks : t = tasks[k]
    BY DEF Range
  <2>2. t \in Sound
    BY <1>0, <2>1, TasksKeepSound DEF Around
  <2>3. t.op \in Ops
    BY <2>2 DEF Sound, Task
  <2>4. /\ OpOf("DetectingInterfaces") = "detect"
        /\ OpOf("DiscoveringDns") = "dns" /\ OpOf("StartingSharing") = "start"
        /\ OpOf("StoppingSharing") = "stop" /\ OpOf("RunningDoctor") = "doctor"
        /\ OpOf("FlushingStaleAnchor") = "flush"
        /\ OpOf("InstallingDnsmasq") = "install"
    BY DEF OpOf
  <2>5. OpOf("none") = "none"
    BY DEF OpOf
  <2> QED
    BY <2>3, <2>4, <2>5 DEF Ops, PendingOps
<1>5. {allowOn, dhcp, natpmp, installed, binary} \subseteq BOOLEAN
    BY <1>0 DEF Around, Prefs
<1>6. /\ screen \in ScreenNames /\ pending \in PendingOps
      /\ menu \in 0..7
      /\ vpns \in Seq(InfoType)
      /\ screen \in {"SelectingVpn", "SelectingLan"} =>
             /\ vpn \in Nat /\ InList(vpns, vpn)
             /\ screen = "SelectingLan" => lan \in Nat /\ InList(lans, lan)
      /\ session \in Session \cup {None}
    BY <1>0 DEF Flow
<1>7. /\ IsInjective(dns.history) /\ Len(dns.history) <= HistoryMax
      /\ mtu = 0 \/ mtu \in MtuMin..MtuMax
      /\ dhcp => installed
    BY <1>0 DEF Prefs
<1>8. world \in Worlds /\ left \in [Events -> Nat]
    BY <1>0 DEF Around
<1> QED
    BY <1>1, <1>2, <1>3, <1>4, <1>5, <1>6, <1>7, <1>8 DEF TypeOK

(* Every variable has its type, every cursor that is an index is one of    *)
(* the list it points into, and no address is in the history twice: the    *)
(* screens of app/input.rs and app/state.rs, for any lists.                *)
THEOREM TypeCorrect == Spec => []TypeOK
    BY Invariance, IInvIsTyped, PTL

(* The file always has what a restart needs. *)
LEMMA IInvSurvives == IInv => PreferencesSurvive
<1> SUFFICES ASSUME IInv PROVE PreferencesSurvive
    OBVIOUS
<1>1. /\ file.custom = dns.custom /\ file.mtu = mtu /\ file.natpmp = natpmp
      /\ file.history = dns.history \/ dns.history = LoadHistory(file)
    BY DEF IInv, Prefs
<1>2. \/ LoadHistory(file) = dns.history
      \/ dns.custom \notin Range(dns.history)
    BY <1>1 DEF LoadHistory
<1> QED
    BY <1>1, <1>2 DEF PreferencesSurvive, Launch

(* However the program ends, the next one has the same preferences         *)
(* (save_preferences at every change, Config::load), for any number of     *)
(* addresses and any bound of the history.                                 *)
THEOREM PreferencesAreKept == Spec => []PreferencesSurvive
    BY Invariance, IInvSurvives, PTL

(* Every task that runs or waits has found, if any, an uplink outside. *)
LEMMA IInvIsOutside == IInv => UplinkIsOutside
<1> SUFFICES ASSUME IInv, NEW t \in Range(tasks) PROVE Outside(t)
    BY DEF UplinkIsOutside
<1>1. PICK k \in DOMAIN tasks : t = tasks[k]
    BY DEF Range
<1> QED
    BY <1>1, TasksKeepSound DEF IInv, Around, Sound

(* The uplink of the WAN bypass is never a tunnel, an end of the share or  *)
(* behind the share LAN (select_wan_uplink), for any machine and any       *)
(* change of it while the uplink is looked for.                            *)
THEOREM UplinksAreOutside == Spec => []UplinkIsOutside
    BY Invariance, IInvIsOutside, PTL

(* A session comes from a LAN that was confirmed, and from nothing else. *)
LEMMA SessionsComeFromConfirm ==
    ASSUME IInv, [Next]_vars, session' # None,
           session = None \/ session'.lan # session.lan
    PROVE  ConfirmLan
<1>1. CASE TaskStep \/ WorldStep \/ UNCHANGED vars
  <2>1. UNCHANGED session
    BY <1>1, Zenon DEF TaskStep, WorldStep, vars
  <2> QED
    BY <2>1
<1>2. CASE Restart
    BY <1>2 DEF Restart
<1>3. CASE KeyStep
  <2>1. CASE \/ MenuMove \/ StartSelection \/ StopSharing \/ ToggleDhcp
             \/ ToggleNatPmp \/ OpenPicker \/ PickerMove \/ PickerTyping
             \/ ForgetDns \/ ChooseDns
    <3>1. UNCHANGED session
      BY <2>1, Zenon DEF MenuMove, StartSelection, StopSharing, ToggleDhcp,
         ToggleNatPmp, OpenPicker, PickerMove, PickerTyping, ForgetDns,
         ChooseDns
    <3> QED
      BY <3>1
  <2>2. CASE \/ ChooseMtu \/ OpenDoctor \/ DoctorMove \/ DoctorAct \/ Install
             \/ SelectMove \/ ConfirmVpn \/ ToggleBypass \/ Back \/ Cancel
    <3>1. UNCHANGED session
      BY <2>2, Zenon DEF ChooseMtu, OpenDoctor, DoctorMove, DoctorAct, Install,
         SelectMove, ConfirmVpn, ToggleBypass, Back, Cancel
    <3> QED
      BY <3>1
  <2> QED
    BY <1>3, <2>1, <2>2 DEF KeyStep
<1>4. CASE AnswerStep
  <2> PICK k \in DOMAIN tasks :
          \/ Discard(k) \/ OnInterfacesDetected(k) \/ OnDnsDiscovered(k)
          \/ OnSharingStarted(k) \/ OnSharingStopped(k) \/ OnDoctorFinished(k)
          \/ OnDoctorAnchorFlushed(k) \/ OnDnsmasqInstalled(k)
    BY <1>4 DEF AnswerStep
  <2>1. CASE \/ Discard(k) \/ OnInterfacesDetected(k) \/ OnDnsDiscovered(k)
             \/ OnDoctorFinished(k) \/ OnDoctorAnchorFlushed(k)
             \/ OnDnsmasqInstalled(k)
    <3>1. UNCHANGED session
      BY <2>1, Zenon DEF Discard, OnInterfacesDetected, OnDnsDiscovered,
         OnDoctorFinished, OnDoctorAnchorFlushed, OnDnsmasqInstalled
    <3> QED
      BY <3>1
  <2>2. CASE OnSharingStopped(k)
    BY <2>2 DEF OnSharingStopped
  <2>3. CASE OnSharingStarted(k)
    <3>1. session # None /\ session \in Session
      BY <2>3, PendingOfAnswer DEF OnSharingStarted, Expected, IInv, Flow
    <3>2. session' = [session EXCEPT !.wan = tasks[k].uplink]
      BY <2>3 DEF OnSharingStarted
    <3>3. session'.lan = session.lan
      BY <3>1, <3>2 DEF Session
    <3> QED
      BY <3>1, <3>3
  <2> QED
    BY <2>1, <2>2, <2>3
<1> QED
    BY <1>1, <1>2, <1>3, <1>4 DEF Next

(* What StartIsOffered says of a step. *)
Offered ==
    session' # None /\ (session = None \/ session'.lan # session.lan) =>
        /\ session = None
        /\ \E i \in DOMAIN vpns : vpns[i].name = session'.vpn
        /\ \E i \in DOMAIN lans :
              /\ lans[i].name = session'.lan
              /\ lans[i].net # None =>
                     \A k \in DOMAIN lans \ {i} : lans[k].net # lans[i].net

(* Every step has it. *)
LEMMA StepsAreOffered == IInv /\ [Next]_vars => Offered
<1> SUFFICES ASSUME IInv, [Next]_vars, session' # None,
                    session = None \/ session'.lan # session.lan
             PROVE  /\ session = None
                    /\ \E i \in DOMAIN vpns : vpns[i].name = session'.vpn
                    /\ \E i \in DOMAIN lans :
                          /\ lans[i].name = session'.lan
                          /\ lans[i].net # None =>
                                 \A k \in DOMAIN lans \ {i} :
                                     lans[k].net # lans[i].net
    BY DEF Offered
<1>1. ConfirmLan
    BY SessionsComeFromConfirm
<1>2. screen = "SelectingLan" /\ session = None
    BY <1>1, ElsewhereWithoutSession DEF ConfirmLan, IInv
<1>3. /\ vpn \in Nat /\ lan \in Nat /\ InList(vpns, vpn) /\ InList(lans, lan)
      /\ vpns \in Seq(InfoType) /\ lans \in Seq(LanInfo)
    BY <1>2 DEF IInv, Flow
<1>4. vpn + 1 \in DOMAIN vpns /\ lan + 1 \in DOMAIN lans
    BY <1>3, AtInList
<1>5. /\ session'.vpn = vpns[vpn + 1].name /\ session'.lan = lans[lan + 1].name
      /\ ~Collides(lan + 1)
    BY <1>1 DEF ConfirmLan, At
<1>6. lans[lan + 1].net # None =>
          \A k \in DOMAIN lans \ {lan + 1} : lans[k].net # lans[lan + 1].net
    BY <1>5 DEF Collides, SameNetwork
<1> QED
    BY <1>2, <1>4, <1>5, <1>6

(* A session is started over no other one, on a tunnel and a LAN that were *)
(* offered, and never on a LAN whose subnet another one had                *)
(* (confirm_lan_selection), however long the lists are and whatever was    *)
(* cancelled or answered late before.                                      *)
THEOREM StartsAreOffered == Spec => StartIsOffered
<1>1. IInv /\ [Next]_vars => [Offered]_vars
    BY StepsAreOffered
<1> QED
    BY <1>1, Invariance, PTL DEF Spec, StartIsOffered, Offered
=============================================================================
