---------------------------- MODULE FiltersProofs ----------------------------
(***************************************************************************)
(* The properties of Filters, for any sources, lists, names and budgets,   *)
(* and any number of loads, reloads and pushes that are under way.         *)
(***************************************************************************)
EXTENDS Filters, SieveProofs

IsLoad(t) == t.op \in {"start", "refresh", "view"}

Pushed == [set : [Jobs -> (SUBSET Bodies) \cup {None}], on : [Jobs -> BOOLEAN]]

-----------------------------------------------------------------------------
(* The inductive invariant, in parts.                                      *)

(* The scalars. *)
Plain ==
    /\ sharing \in BOOLEAN /\ wan \in BOOLEAN /\ counted \in BOOLEAN
    /\ pending \in PendingOps
    /\ mishaps \subseteq Mishaps /\ left \in [Events -> Nat]

(* What is on the disk has been published. *)
Disk ==
    /\ cache \in [Urls -> Versions \cup {None}] /\ remote \in [Urls -> Versions]
    /\ \A u \in fresh : u \in Urls /\ cache[u] # None
    /\ \A u \in Urls : cache[u] # None => cache[u] <= remote[u]

(* Only a load has sources to read, and what it downloads is published. *)
Work == {t \in Tasks : /\ ~IsLoad(t) => t.todo = {} /\ t.busy = {}
                       /\ \A b \in t.busy : b[3] <= remote[b[2]]}

Working == tasks \in Seq(Work)

(* The resolver of a session; while it is being started there is none, and *)
(* nothing is pushed without one.                                          *)
Answering ==
    /\ resolver # None => sharing /\ resolver \in Lists
    /\ pending = "StartingResolver" => sharing /\ resolver = None
    /\ pushes \in Seq(Pushed)
    /\ pushes # <<>> => resolver # None

(* A list of sources as ensure_builtins leaves it. *)
Normal(j, sources) ==
    /\ Len(Builtins[j]) <= Len(sources)
    /\ \A i \in DOMAIN sources :
           IF i <= Len(Builtins[j]) THEN sources[i].url = Builtins[j][i]
           ELSE sources[i].url \notin Range(Builtins[j])

(* The settings are normal and what the file is read as. *)
Kept == /\ settings \in [Jobs -> Setting] /\ file \in [Jobs -> Setting] \cup {None}
        /\ \A j \in Jobs : Normal(j, settings[j].sources)
        /\ Load(file) = settings

(* The pending operation is the one a task works for. *)
Awaited(t) ==
    \/ pending = "StartingResolver" /\ t.op = "start"
    \/ pending = "RefreshingLists" /\ t.op \in {"refresh", "view"}
    \/ pending = "DetectingWan" /\ t.op = "wan"
    \/ pending = "ReloadingFirewall" /\ t.op \in {"on", "off"}
    \/ pending = "StoppingSharing" /\ t.op = "stop"

(* As long as nothing was cancelled there is one task, which is awaited. *)
Single ==
    "cancelled" \notin mishaps =>
        /\ Len(tasks) <= 1
        /\ \A k \in DOMAIN tasks : Awaited(tasks[k])

(* The sources a load is not through with. *)
Ahead(t) == t.todo \cup {<<b[1], b[2]>> : b \in t.busy}

(* A load that is by itself: it has read what the cache now has of the     *)
(* sources it is through with, and what it will put into the cache is      *)
(* newer.                                                                  *)
TracksIn(t, sets, disk) ==
    /\ InBoth(sets) = {}
    /\ \A p \in Ahead(t) : p[2] \in EnabledUrls(sets[p[1]])
    /\ \A b \in t.busy :
           /\ <<b[1], b[2]>> \notin t.todo
           /\ disk[b[2]] # None => disk[b[2]] <= b[3]
           /\ \A c \in t.busy : c[1] = b[1] /\ c[2] = b[2] => c = b
    /\ \A j \in Jobs, u \in Urls, v \in Versions :
           <<j, u, v>> \in t.got <=> /\ u \in EnabledUrls(sets[j])
                                     /\ <<j, u>> \notin Ahead(t)
                                     /\ disk[u] = v
    /\ t.op = "start" => \A j \in Jobs : t.on[j] = sets[j].enabled

(* Every load is, unless another one was cancelled or a source is in both  *)
(* jobs.                                                                   *)
Loading ==
    mishaps \cap {"cancelled", "twice"} = {} =>
        \A k \in DOMAIN tasks : IsLoad(tasks[k]) => TracksIn(tasks[k], settings, cache)

(* The switches the resolver has, or will have after the pushes. *)
LastOn == IF pushes = <<>> THEN resolver.on ELSE pushes[Len(pushes)].on

(* The list of a job it has, or will have. *)
Serves(r, ps, j, bodies) ==
    \/ /\ r.set[j] = bodies
       /\ \A i \in DOMAIN ps : ps[i].set[j] = None
    \/ \E i \in DOMAIN ps :
           /\ ps[i].set[j] = bodies
           /\ \A k \in DOMAIN ps : k > i => ps[k].set[j] = None

(* It has, or will have, what settings and cache say, if no load or reload *)
(* is about to bring it there.                                             *)
InStep ==
    resolver # None /\ (\A k \in DOMAIN tasks : ~IsLoad(tasks[k])) =>
        /\ \A j \in Jobs : settings[j].enabled =>
               Serves(resolver, pushes, j, CachedBodies(settings[j]))
        /\ (\A k \in DOMAIN tasks : tasks[k].op # "off") => LastOn = Switches

(* No load of a session is one that is not applied. *)
Unviewed == \A k \in DOMAIN tasks : tasks[k].op = "view" => ~sharing

(* Unless there was a mishap. *)
Served == mishaps = {} => Unviewed /\ InStep

(* Types, the file and the order of the sources. *)
Sound == Plain /\ Disk /\ Working /\ Answering /\ Kept

(* All of it. *)
IInv == Sound /\ Single /\ Loading /\ Served

-----------------------------------------------------------------------------
(* Sources.                                                                *)

(* The bundled sources are known and distinct; the names of the events.    *)
LEMMA Constants ==
    /\ \A j \in Jobs : Builtins[j] \in Seq(Urls) /\ IsInjective(Builtins[j])
    /\ "block" \in Jobs /\ "allow" \in Jobs
    /\ \A new \in [Jobs -> Setting] : new # None
    /\ \A l \in Lists : l # None
    /\ \A v \in Versions : v \in Nat /\ v # None
    /\ \A bodies \in SUBSET Bodies : bodies # None
<1> QED
    BY FiltersAssumption DEF Jobs

(* A bundled source, as it is by default. *)
LEMMA BundledSource ==
    ASSUME NEW u \in Urls
    PROVE  Bundled(u) \in Source /\ Bundled(u).url = u
    BY DEF Bundled, Source

(* One source for each that is bundled with a job. *)
LEMMA BundledPart ==
    ASSUME NEW j \in Jobs, NEW g \in [DOMAIN Builtins[j] -> Source]
    PROVE  /\ g \in Seq(Source) /\ Len(g) = Len(Builtins[j])
           /\ DOMAIN g = 1..Len(Builtins[j]) /\ Len(Builtins[j]) \in Nat
           /\ Range(g) = {g[i] : i \in 1..Len(Builtins[j])}
<1> DEFINE n == Len(Builtins[j])
<1>1. n \in Nat /\ DOMAIN Builtins[j] = 1..n
    BY Constants, LenProperties
<1> HIDE DEF n
<1>2. g \in [1..n -> Source]
    BY <1>1
<1>3. g \in Seq(Source)
    BY <1>1, <1>2, SeqDef
<1>4. Len(g) \in Nat /\ DOMAIN g = 1..Len(g)
    BY <1>3, LenProperties
<1>5. Len(g) = n
    BY <1>1, <1>2, <1>4
<1> QED
    BY <1>1, <1>2, <1>3, <1>5 DEF n, Range

(* The source a list ends up with for a bundled URL. *)
KeptOf(j, sources, u) ==
    LET at == {i \in DOMAIN sources : sources[i].url = u}
    IN  IF at = {} THEN Bundled(u)
        ELSE sources[CHOOSE i \in at : \A k \in at : k <= i]

(* It is a source of that URL. *)
LEMMA KeptSource ==
    ASSUME NEW j \in Jobs, NEW sources \in Seq(Source), NEW u \in Urls
    PROVE  /\ KeptOf(j, sources, u) \in Source
           /\ KeptOf(j, sources, u).url = u
<1> DEFINE at == {i \in DOMAIN sources : sources[i].url = u}
<1>1. CASE at = {}
    BY <1>1, BundledSource DEF KeptOf
<1>2. CASE at # {}
  <2>1. Len(sources) \in Nat /\ at \subseteq 1..Len(sources)
        /\ DOMAIN sources = 1..Len(sources)
    BY LenProperties
  <2>2. \E i \in at : \A k \in at : k <= i
    BY <1>2, <2>1, HasLast
  <2> DEFINE last == CHOOSE i \in at : \A k \in at : k <= i
  <2>3. last \in at
    BY <2>2
  <2>4. KeptOf(j, sources, u) = sources[last]
    BY <1>2 DEF KeptOf
  <2> HIDE DEF last
  <2> QED
    BY <2>1, <2>3, <2>4, ElementOfSeq
<1> QED
    BY <1>1, <1>2

(* Both parts of what ensure_builtins makes of a list. *)
LEMMA EnsureParts ==
    ASSUME NEW j \in Jobs, NEW sources \in Seq(Source)
    PROVE  LET first == [i \in DOMAIN Builtins[j] |->
                            KeptOf(j, sources, Builtins[j][i])]
               others == {s \in Range(sources) : s.url \notin Range(Builtins[j])}
           IN  /\ EnsureBuiltins(j, sources) = first \o Only(sources, others)
               /\ first \in [DOMAIN Builtins[j] -> Source]
               /\ \A i \in DOMAIN Builtins[j] : first[i].url = Builtins[j][i]
<1> DEFINE first == [i \in DOMAIN Builtins[j] |->
                        KeptOf(j, sources, Builtins[j][i])]
           others == {s \in Range(sources) : s.url \notin Range(Builtins[j])}
<1>1. EnsureBuiltins(j, sources) = first \o Only(sources, others)
    BY DEF EnsureBuiltins, KeptOf
<1>2. \A i \in DOMAIN Builtins[j] : Builtins[j][i] \in Urls
    BY Constants, LenProperties, ElementOfSeq
<1>3. \A i \in DOMAIN Builtins[j] : first[i] \in Source /\ first[i].url = Builtins[j][i]
    BY <1>2, KeptSource
<1> QED
    BY <1>1, <1>3

(* It is a list of sources, and a normal one. *)
LEMMA EnsureNormal ==
    ASSUME NEW j \in Jobs, NEW sources \in Seq(Source)
    PROVE  /\ EnsureBuiltins(j, sources) \in Seq(Source)
           /\ Normal(j, EnsureBuiltins(j, sources))
<1> DEFINE first == [i \in DOMAIN Builtins[j] |->
                        KeptOf(j, sources, Builtins[j][i])]
           others == {s \in Range(sources) : s.url \notin Range(Builtins[j])}
           rest == Only(sources, others)
           new == EnsureBuiltins(j, sources)
           n == Len(Builtins[j])
<1>1. /\ new = first \o rest
      /\ first \in [DOMAIN Builtins[j] -> Source]
      /\ \A i \in DOMAIN Builtins[j] : first[i].url = Builtins[j][i]
    BY EnsureParts
<1>2. rest \in Seq(Source) /\ Range(rest) = Range(sources) \cap others
    BY OnlyMembers
<1>3. \A s \in Range(rest) : s.url \notin Range(Builtins[j])
    BY <1>2
<1> HIDE DEF new, first, rest
<1>4. first \in Seq(Source) /\ Len(first) = n /\ n \in Nat /\ DOMAIN Builtins[j] = 1..n
    BY <1>1, BundledPart, Constants, LenProperties
<1>5. Len(rest) \in Nat /\ DOMAIN rest = 1..Len(rest)
    BY <1>2, LenProperties
<1>6. /\ first \o rest \in Seq(Source)
      /\ Len(first \o rest) = Len(first) + Len(rest)
      /\ \A i \in 1..Len(first) + Len(rest) : (first \o rest)[i] =
             IF i <= Len(first) THEN first[i] ELSE rest[i - Len(first)]
    BY <1>2, <1>4, ConcatProperties
<1>7. DOMAIN new = 1..Len(new)
    BY <1>1, <1>6, LenProperties
<1> DEFINE m == Len(rest)
<1>8. /\ new \in Seq(Source) /\ Len(new) = n + m /\ DOMAIN new = 1..n + m
      /\ \A i \in 1..n + m : new[i] = IF i <= n THEN first[i] ELSE rest[i - n]
    BY <1>1, <1>4, <1>6, <1>7
<1>9. m \in Nat /\ DOMAIN rest = 1..m
    BY <1>5
<1> HIDE DEF n, m
<1>10. n <= Len(new)
    BY <1>4, <1>8, <1>9
<1>11. ASSUME NEW i \in DOMAIN new, i <= n
       PROVE  new[i].url = Builtins[j][i]
    BY <1>1, <1>4, <1>8, <1>9, <1>11
<1>12. ASSUME NEW i \in DOMAIN new, ~(i <= n)
       PROVE  new[i].url \notin Range(Builtins[j])
  <2>1. i - n \in 1..m /\ new[i] = rest[i - n]
    BY <1>4, <1>8, <1>9, <1>12
  <2>2. rest[i - n] \in Range(rest)
    BY <1>9, <2>1 DEF Range
  <2> QED
    BY <1>3, <2>1, <2>2
<1> QED
    BY <1>8, <1>10, <1>11, <1>12 DEF Normal, new, n

(* A normal list stays as it is. *)
LEMMA NormalIsKept ==
    ASSUME NEW j \in Jobs, NEW sources \in Seq(Source), Normal(j, sources)
    PROVE  EnsureBuiltins(j, sources) = sources
<1> DEFINE first == [i \in DOMAIN Builtins[j] |->
                        KeptOf(j, sources, Builtins[j][i])]
           others == {s \in Range(sources) : s.url \notin Range(Builtins[j])}
           n == Len(Builtins[j])
           m == Len(sources)
           front == SubSeq(sources, 1, n)
           back == SubSeq(sources, n + 1, m)
<1>1. EnsureBuiltins(j, sources) = first \o Only(sources, others)
      /\ first \in [DOMAIN Builtins[j] -> Source]
    BY EnsureParts
<1>2. /\ n \in Nat /\ m \in Nat /\ n <= m
      /\ DOMAIN sources = 1..m /\ DOMAIN Builtins[j] = 1..n
      /\ \A i \in 1..m : sources[i] \in Source
    BY Constants, LenProperties, ElementOfSeq DEF Normal
<1>3. /\ \A i \in 1..n : sources[i].url = Builtins[j][i]
      /\ \A i \in 1..m : ~(i <= n) => sources[i].url \notin Range(Builtins[j])
    BY <1>2 DEF Normal
<1>0. first \in Seq(Source) /\ Len(first) = n
    BY <1>1, BundledPart
<1> HIDE DEF n, m
<1>4. /\ front \in Seq(Source) /\ Len(front) = n
      /\ \A i \in 1..n : front[i] = sources[i]
  <2>1. \A i \in 1..n : sources[i] \in Source
    BY <1>2
  <2>2. /\ SubSeq(sources, 1, n) \in Seq(Source)
        /\ Len(SubSeq(sources, 1, n)) = IF 1 <= n THEN n - 1 + 1 ELSE 0
        /\ \A i \in 1..n - 1 + 1 : SubSeq(sources, 1, n)[i] = sources[1 + i - 1]
    BY <1>2, <2>1, SubSeqProperties
  <2> QED
    BY <1>2, <2>2
<1>5. /\ back \in Seq(Source) /\ Len(back) = m - n
      /\ \A i \in 1..m - n : back[i] = sources[n + i]
  <2>1. \A i \in n + 1..m : sources[i] \in Source
    BY <1>2
  <2>2. /\ SubSeq(sources, n + 1, m) \in Seq(Source)
        /\ Len(SubSeq(sources, n + 1, m)) = IF n + 1 <= m THEN m - (n + 1) + 1 ELSE 0
        /\ \A i \in 1..m - (n + 1) + 1 :
               SubSeq(sources, n + 1, m)[i] = sources[(n + 1) + i - 1]
    BY <1>2, <2>1, SubSeqProperties
  <2> QED
    BY <1>2, <2>2
<1>6. sources = front \o back
  <2>1. SubSeq(sources, 1, m) = sources
    BY SubSeqFull DEF m
  <2>2. /\ 1 \in 1..Len(sources) + 1 /\ n \in 1 - 1..Len(sources)
        /\ m \in n..Len(sources)
    BY <1>2 DEF m
  <2>3. SubSeq(sources, 1, n) \o SubSeq(sources, n + 1, m) = SubSeq(sources, 1, m)
    BY <2>2, ConcatAdjacentSubSeq
  <2> QED
    BY <2>1, <2>3
<1>7. first = front
  <2>1. ASSUME NEW i \in 1..n PROVE first[i] = sources[i]
    <3> DEFINE at == {k \in DOMAIN sources : sources[k].url = Builtins[j][i]}
    <3>1. \A k \in 1..n : Builtins[j][k] = Builtins[j][i] => k = i
      BY <1>2, Constants DEF IsInjective
    <3>2. Builtins[j][i] \in Range(Builtins[j])
      BY <1>2 DEF Range
    <3>3. at = {i}
      BY <1>2, <1>3, <3>1, <3>2
    <3> DEFINE last == CHOOSE k \in at : \A l \in at : l <= k
    <3>4. last = i
      BY <3>3
    <3>5. KeptOf(j, sources, Builtins[j][i]) = sources[last]
      BY <3>3 DEF KeptOf
    <3> HIDE DEF last
    <3> QED
      BY <1>2, <3>4, <3>5
  <2> HIDE DEF first, front
  <2> QED
    BY <1>0, <1>4, <2>1, SeqEqual
<1> HIDE DEF first, front, back
<1>8. Only(front, others) = <<>>
  <2>1. DOMAIN front = 1..n
    BY <1>4, LenProperties
  <2>2. \A s \in Range(front) : s.url \in Range(Builtins[j])
    BY <1>2, <1>3, <1>4, <2>1 DEF Range
  <2>3. Range(front) \cap others = {}
    BY <2>2
  <2> QED
    BY <1>4, <2>3, OnlyKeepsNone
<1>9. Only(back, others) = back
  <2>1. DOMAIN back = 1..m - n
    BY <1>5, LenProperties
  <2>2. ASSUME NEW i \in 1..m - n PROVE back[i] \in others
    <3>1. n + i \in 1..m /\ ~(n + i <= n)
      BY <1>2
    <3> QED
      BY <1>2, <1>3, <1>5, <3>1 DEF Range
  <2>3. Range(back) \subseteq others
    BY <2>1, <2>2 DEF Range
  <2> QED
    BY <1>5, <2>3, OnlyKeepsAll
<1> HIDE DEF others
<1>10. Only(front \o back, others) = Only(front, others) \o Only(back, others)
    BY <1>4, <1>5, OnlyOfConcat
<1>11. Only(sources, others) = back
    BY <1>5, <1>6, <1>8, <1>9, <1>10, ConcatEmptySeq
<1> QED
    BY <1>1, <1>6, <1>7, <1>11

-----------------------------------------------------------------------------
(* Settings and the file.                                                  *)

(* What a file is read as is normal. *)
LEMMA LoadIsNormal ==
    ASSUME NEW f \in [Jobs -> Setting] \cup {None}
    PROVE  /\ Load(f) \in [Jobs -> Setting]
           /\ \A j \in Jobs : Normal(j, Load(f)[j].sources)
<1> SUFFICES ASSUME NEW j \in Jobs
             PROVE  Load(f)[j] \in Setting /\ Normal(j, Load(f)[j].sources)
    BY DEF Load
<1>1. CASE f = None
  <2> DEFINE g == [i \in DOMAIN Builtins[j] |-> Bundled(Builtins[j][i])]
  <2>1. Load(f)[j] = DefaultSetting(j)
    BY <1>1 DEF Load
  <2>2. \A i \in DOMAIN Builtins[j] : Builtins[j][i] \in Urls
    BY Constants, LenProperties, ElementOfSeq
  <2>3. \A i \in DOMAIN Builtins[j] : g[i] \in Source /\ g[i].url = Builtins[j][i]
    BY <2>2, BundledSource
  <2>4. g \in [DOMAIN Builtins[j] -> Source]
    BY <2>3
  <2>5. DOMAIN Builtins[j] = 1..Len(Builtins[j])
    BY Constants, LenProperties
  <2>6. DefaultSetting(j) = [enabled |-> FALSE, sources |-> g]
    BY DEF DefaultSetting
  <2> HIDE DEF g
  <2>7. g \in Seq(Source) /\ Len(g) = Len(Builtins[j]) /\ Len(g) \in Nat
        /\ DOMAIN g = 1..Len(Builtins[j])
    BY <2>4, BundledPart
  <2>8. Normal(j, g)
    BY <2>3, <2>5, <2>7 DEF Normal
  <2> QED
    BY <2>1, <2>6, <2>7, <2>8 DEF Setting
<1>2. CASE f # None
  <2> DEFINE new == EnsureBuiltins(j, f[j].sources)
  <2>1. Load(f)[j] = [f[j] EXCEPT !.sources = new]
    BY <1>2 DEF Load
  <2>2. f[j] \in Setting /\ f[j].sources \in Seq(Source)
    BY <1>2 DEF Setting
  <2>3. new \in Seq(Source) /\ Normal(j, new)
    BY <2>2, EnsureNormal
  <2> HIDE DEF new
  <2> QED
    BY <2>1, <2>2, <2>3 DEF Setting
<1> QED
    BY <1>1, <1>2

(* Normal settings are read as they were written. *)
LEMMA LoadKeeps ==
    ASSUME NEW new \in [Jobs -> Setting],
           \A j \in Jobs : Normal(j, new[j].sources)
    PROVE  Load(new) = new
<1>1. new # None
    BY Constants
<1>2. ASSUME NEW j \in Jobs
      PROVE  [new[j] EXCEPT !.sources = EnsureBuiltins(j, @)] = new[j]
  <2>1. new[j] \in Setting /\ new[j].sources \in Seq(Source)
    BY DEF Setting
  <2>2. EnsureBuiltins(j, new[j].sources) = new[j].sources
    BY <2>1, NormalIsKept
  <2> QED
    BY <2>1, <2>2 DEF Setting
<1> QED
    BY <1>1, <1>2 DEF Load

(* A switch that is thrown. *)
LEMMA SwitchThrown ==
    ASSUME settings \in [Jobs -> Setting], NEW j \in Jobs, NEW on \in BOOLEAN,
           NEW new, new = [settings EXCEPT ![j].enabled = on]
    PROVE  /\ new \in [Jobs -> Setting]
           /\ \A i \in Jobs : /\ new[i].sources = settings[i].sources
                              /\ new[i].enabled = IF i = j THEN on
                                                  ELSE settings[i].enabled
<1>1. \A i \in Jobs : new[i] = IF i = j THEN [settings[j] EXCEPT !.enabled = on]
                               ELSE settings[i]
    OBVIOUS
<1>2. DOMAIN new = Jobs /\ new = [i \in Jobs |-> new[i]]
    OBVIOUS
<1>3. \A i \in Jobs : settings[i] \in Setting
    OBVIOUS
<1>4. ASSUME NEW i \in Jobs
      PROVE  /\ new[i] \in Setting
             /\ new[i].sources = settings[i].sources
             /\ new[i].enabled = IF i = j THEN on ELSE settings[i].enabled
    BY <1>1, <1>3 DEF Setting
<1> QED
    BY <1>2, <1>4

(* A list that is changed. *)
LEMMA SourcesChanged ==
    ASSUME settings \in [Jobs -> Setting], NEW j \in Jobs,
           NEW sources \in Seq(Source), NEW new,
           new = [settings EXCEPT ![j].sources = sources]
    PROVE  /\ new \in [Jobs -> Setting]
           /\ \A i \in Jobs : /\ new[i].enabled = settings[i].enabled
                              /\ new[i].sources = IF i = j THEN sources
                                                  ELSE settings[i].sources
<1>1. \A i \in Jobs : new[i] = IF i = j THEN [settings[j] EXCEPT !.sources = sources]
                               ELSE settings[i]
    OBVIOUS
<1>2. DOMAIN new = Jobs /\ new = [i \in Jobs |-> new[i]]
    OBVIOUS
<1>3. \A i \in Jobs : settings[i] \in Setting
    OBVIOUS
<1>4. ASSUME NEW i \in Jobs
      PROVE  /\ new[i] \in Setting
             /\ new[i].enabled = settings[i].enabled
             /\ new[i].sources = IF i = j THEN sources ELSE settings[i].sources
    BY <1>1, <1>3 DEF Setting
<1> QED
    BY <1>2, <1>4

(* A source that is switched in place keeps its URL. *)
LEMMA ToggledNormal ==
    ASSUME settings \in [Jobs -> Setting], NEW j \in Jobs,
           Normal(j, settings[j].sources),
           NEW i \in DOMAIN settings[j].sources
    PROVE  \E sources \in Seq(Source) :
               /\ Normal(j, sources)
               /\ [settings EXCEPT ![j].sources[i].on = ~@] =
                      [settings EXCEPT ![j].sources = sources]
<1> DEFINE old == settings[j].sources
           one == [old[i] EXCEPT !.on = ~@]
           sources == [old EXCEPT ![i] = one]
<1>1. old \in Seq(Source)
    BY DEF Setting
<1>2. Len(old) \in Nat /\ DOMAIN old = 1..Len(old) /\ \A k \in 1..Len(old) : old[k] \in Source
    BY <1>1, LenProperties, ElementOfSeq
<1>3. one \in Source /\ one.url = old[i].url
    BY <1>2 DEF Source
<1>4. [settings EXCEPT ![j].sources[i].on = ~@] =
          [settings EXCEPT ![j].sources = sources]
    OBVIOUS
<1> HIDE DEF one
<1>5. /\ sources \in Seq(Source) /\ Len(sources) = Len(old)
      /\ \A k \in 1..Len(old) : sources[k] = IF k = i THEN one ELSE old[k]
    BY <1>1, <1>2, <1>3, ExceptSeq
<1>6. DOMAIN sources = 1..Len(old)
    BY <1>5, LenProperties
<1>7. \A k \in 1..Len(old) : sources[k].url = old[k].url
    BY <1>3, <1>5
<1> HIDE DEF sources, old
<1>8. Normal(j, old)
    BY DEF old
<1>9. Normal(j, sources)
    BY <1>2, <1>5, <1>6, <1>7, <1>8 DEF Normal
<1> QED
    BY <1>4, <1>5, <1>9

(* A list with a custom source appended. *)
LEMMA AddedNormal ==
    ASSUME NEW j \in Jobs, NEW sources \in Seq(Source), Normal(j, sources),
           NEW x \in Source, \A s \in Range(sources) : s.url # x.url
    PROVE  /\ Append(sources, x) \in Seq(Source)
           /\ Normal(j, Append(sources, x))
<1> DEFINE n == Len(sources)
           m == Len(Builtins[j])
           t == Append(sources, x)
<1>1. /\ n \in Nat /\ DOMAIN sources = 1..n /\ m \in Nat /\ DOMAIN Builtins[j] = 1..m
      /\ t \in Seq(Source) /\ Len(t) = n + 1 /\ DOMAIN t = 1..n + 1
      /\ \A i \in 1..n : t[i] = sources[i]
      /\ t[n + 1] = x
    BY Constants, LenProperties, AppendProperties
<1>2. m <= n /\ \A i \in 1..n : IF i <= m THEN sources[i].url = Builtins[j][i]
                               ELSE sources[i].url \notin Range(Builtins[j])
    BY <1>1 DEF Normal
<1> HIDE DEF n, m, t
<1>3. x.url \notin Range(Builtins[j])
  <2> SUFFICES ASSUME NEW i \in 1..m, Builtins[j][i] = x.url PROVE FALSE
    BY <1>1 DEF Range
  <2>1. i \in 1..n /\ sources[i].url = x.url
    BY <1>1, <1>2
  <2> QED
    BY <1>1, <2>1 DEF Range
<1>4. \A i \in 1..n + 1 : IF i <= m THEN t[i].url = Builtins[j][i]
                          ELSE t[i].url \notin Range(Builtins[j])
  <2> SUFFICES ASSUME NEW i \in 1..n + 1
               PROVE  IF i <= m THEN t[i].url = Builtins[j][i]
                      ELSE t[i].url \notin Range(Builtins[j])
    OBVIOUS
  <2>1. CASE i \in 1..n
    BY <1>1, <1>2, <2>1
  <2>2. CASE i = n + 1
    BY <1>1, <1>2, <1>3, <2>2
  <2> QED
    BY <1>1, <2>1, <2>2
<1>5. m <= Len(t) /\ DOMAIN t = 1..n + 1
    BY <1>1, <1>2
<1>6. Normal(j, t)
    BY <1>4, <1>5 DEF Normal, m
<1> QED
    BY <1>1, <1>6 DEF t

(* A list with a source taken out that is not bundled. *)
LEMMA RemovedNormal ==
    ASSUME NEW j \in Jobs, NEW sources \in Seq(Source), Normal(j, sources),
           NEW i \in DOMAIN sources, sources[i].url \notin Range(Builtins[j])
    PROVE  /\ RemoveAt(sources, i) \in Seq(Source)
           /\ Normal(j, RemoveAt(sources, i))
<1> DEFINE n == Len(sources)
           m == Len(Builtins[j])
           t == RemoveAt(sources, i)
<1>1. /\ n \in Nat /\ DOMAIN sources = 1..n /\ m \in Nat /\ DOMAIN Builtins[j] = 1..m
      /\ t \in Seq(Source) /\ Len(t) = n - 1
      /\ \A k \in 1..n - 1 : t[k] = IF k < i THEN sources[k] ELSE sources[k + 1]
    BY Constants, LenProperties, RemoveAtKeeps
<1>2. DOMAIN t = 1..n - 1
    BY <1>1, LenProperties
<1>3. m <= n /\ \A k \in 1..n : IF k <= m THEN sources[k].url = Builtins[j][k]
                               ELSE sources[k].url \notin Range(Builtins[j])
    BY <1>1 DEF Normal
<1> HIDE DEF n, m, t
<1>4. i \in 1..n /\ ~(i <= m)
  <2>1. \A k \in 1..m : Builtins[j][k] \in Range(Builtins[j])
    BY <1>1 DEF Range
  <2> QED
    BY <1>1, <1>3, <2>1
<1>5. \A k \in 1..n - 1 : IF k <= m THEN t[k].url = Builtins[j][k]
                          ELSE t[k].url \notin Range(Builtins[j])
  <2> SUFFICES ASSUME NEW k \in 1..n - 1
               PROVE  IF k <= m THEN t[k].url = Builtins[j][k]
                      ELSE t[k].url \notin Range(Builtins[j])
    OBVIOUS
  <2>1. k \in 1..n /\ k + 1 \in 1..n /\ i \in 1..n
    BY <1>1, <1>4
  <2>2. CASE k < i
    BY <1>1, <1>3, <2>1, <2>2
  <2>3. CASE ~(k < i)
    <3>1. t[k] = sources[k + 1] /\ ~(k <= m) /\ ~(k + 1 <= m)
      BY <1>1, <1>4, <2>1, <2>3
    <3> QED
      BY <1>3, <2>1, <3>1
  <2> QED
    BY <2>2, <2>3
<1>6. m <= Len(t)
    BY <1>1, <1>4
<1>7. Normal(j, t)
    BY <1>2, <1>5, <1>6 DEF Normal, m
<1> QED
    BY <1>1, <1>7 DEF t

(* A change to normal settings is kept. *)
LEMMA ChangeKeeps ==
    ASSUME NEW new \in [Jobs -> Setting],
           \A j \in Jobs : Normal(j, new[j].sources),
           settings' = new, file' = new
    PROVE  Kept'
<1>1. Load(new) = new
    BY LoadKeeps
<1>2. Load(file)' = settings'
    BY <1>1 DEF Load
<1> QED
    BY <1>2 DEF Kept, Normal

-----------------------------------------------------------------------------
(* Steps.                                                                  *)

(* An event that is spent leaves a budget. *)
LEMMA SpendKeeps ==
    ASSUME left \in [Events -> Nat], NEW e \in Events, Spend(e)
    PROVE  left' \in [Events -> Nat]
<1>1. left[e] - 1 \in Nat
    BY DEF Spend
<1> QED
    BY <1>1 DEF Spend

(* The settings a key or an answer leaves are kept. *)
LEMMA KeptByKey ==
    ASSUME Kept, KeyStep
    PROVE  Kept'
<1>0. /\ settings \in [Jobs -> Setting]
      /\ \A j \in Jobs : Normal(j, settings[j].sources)
      /\ \A j \in Jobs : settings[j] \in Setting
    BY DEF Kept
<1>00. \A j \in Jobs : /\ settings[j].sources \in Seq(Source)
                       /\ settings[j].enabled \in BOOLEAN
    BY <1>0 DEF Setting
<1>1. ASSUME UNCHANGED <<settings, file>> PROVE Kept'
    BY <1>1 DEF Kept, Normal, Load
<1>2. ASSUME NEW j \in Jobs, NEW on \in BOOLEAN,
             NEW new, new = [settings EXCEPT ![j].enabled = on],
             settings' = new, file' = new
      PROVE  Kept'
    BY <1>0, <1>2, SwitchThrown, ChangeKeeps
<1>3. ASSUME NEW j \in Jobs, NEW sources \in Seq(Source), Normal(j, sources),
             NEW new, new = [settings EXCEPT ![j].sources = sources],
             settings' = new, file' = new
      PROVE  Kept'
    BY <1>0, <1>3, SourcesChanged, ChangeKeeps
<1>4. CASE ToggleBlock
  <2> DEFINE new == [settings EXCEPT !["block"].enabled = ~settings["block"].enabled]
  <2>1. settings' = new /\ file' = new
    BY <1>4 DEF ToggleBlock, Change
  <2>2. (~settings["block"].enabled) \in BOOLEAN
    OBVIOUS
  <2> QED
    BY <1>2, <2>1, <2>2, Constants
<1>5. CASE ToggleAllow
  <2> DEFINE new == [settings EXCEPT !["allow"].enabled = ~settings["allow"].enabled]
  <2>1. (settings' = new /\ file' = new) \/ UNCHANGED <<settings, file>>
    BY <1>5 DEF ToggleAllow, Change
  <2>2. (~settings["allow"].enabled) \in BOOLEAN
    OBVIOUS
  <2> QED
    BY <1>1, <1>2, <2>1, <2>2, Constants
<1>6. ASSUME NEW j \in Jobs, NEW i \in DOMAIN settings[j].sources, ToggleSource(j, i)
      PROVE  Kept'
  <2> DEFINE new == [settings EXCEPT ![j].sources[i].on = ~@]
  <2>1. settings' = new /\ file' = new
    BY <1>6 DEF ToggleSource, Change
  <2>2. \E sources \in Seq(Source) :
            /\ Normal(j, sources)
            /\ new = [settings EXCEPT ![j].sources = sources]
    BY <1>0, ToggledNormal
  <2> HIDE DEF new
  <2> QED
    BY <1>3, <2>1, <2>2
<1>7. ASSUME NEW j \in Jobs, NEW u \in Urls, AddCustom(j, u) PROVE Kept'
  <2> DEFINE x == [url |-> u, on |-> TRUE]
             old == settings[j].sources
  <2> DEFINE new == [settings EXCEPT ![j].sources = Append(old, x)]
  <2>1. settings' = new /\ file' = new
    BY <1>7 DEF AddCustom, Change
  <2>2. x \in Source /\ \A s \in Range(old) : s.url # x.url
    BY <1>7 DEF AddCustom, Source
  <2>3. old \in Seq(Source) /\ Normal(j, old)
    BY <1>0, <1>00
  <2> HIDE DEF old, x
  <2>4. Append(old, x) \in Seq(Source) /\ Normal(j, Append(old, x))
    BY <2>2, <2>3, AddedNormal
  <2> QED
    BY <1>3, <2>1, <2>4
<1>8. ASSUME NEW j \in Jobs, NEW i \in DOMAIN settings[j].sources, RemoveCustom(j, i)
      PROVE  Kept'
  <2> DEFINE old == settings[j].sources
  <2> DEFINE new == [settings EXCEPT ![j].sources = RemoveAt(old, i)]
  <2>1. settings' = new /\ file' = new
    BY <1>8 DEF RemoveCustom, Change
  <2>2. old[i].url \notin Range(Builtins[j])
    BY <1>8 DEF RemoveCustom, IsBuiltin
  <2>3. old \in Seq(Source) /\ Normal(j, old) /\ i \in DOMAIN old
    BY <1>0, <1>00
  <2> HIDE DEF old
  <2>4. RemoveAt(old, i) \in Seq(Source) /\ Normal(j, RemoveAt(old, i))
    BY <2>2, <2>3, RemovedNormal
  <2> QED
    BY <1>3, <2>1, <2>4
<1>9. CASE AttachRefused \/ Refresh \/ OpenLists \/ StartSharing \/ StopSharing \/ Cancel
    BY <1>1, <1>9 DEF AttachRefused, Refresh, OpenLists, StartSharing, StopSharing,
       Cancel, appVars
<1> QED
    BY <1>4, <1>5, <1>6, <1>7, <1>8, <1>9 DEF KeyStep

(* Of the answers, that of a reload changes the settings, and saves them. *)
LEMMA KeptByAnswer ==
    ASSUME Kept, AnswerStep
    PROVE  Kept'
<1>0. /\ settings \in [Jobs -> Setting]
      /\ \A j \in Jobs : Normal(j, settings[j].sources)
    BY DEF Kept
<1>1. ASSUME UNCHANGED <<settings, file>> PROVE Kept'
    BY <1>1 DEF Kept, Normal, Load
<1>2. ASSUME NEW on \in BOOLEAN, NEW new,
             new = [settings EXCEPT !["allow"].enabled = on],
             settings' = new, file' = new
      PROVE  Kept'
    BY <1>0, <1>2, SwitchThrown, ChangeKeeps, Constants
<1>3. ASSUME NEW k \in DOMAIN tasks, OnFirewallReloaded(k) PROVE Kept'
  <2> DEFINE new(on) == [settings EXCEPT !["allow"].enabled = on]
  <2>1. \/ settings' = new(TRUE) /\ file' = new(TRUE)
        \/ settings' = new(FALSE) /\ file' = new(FALSE)
        \/ UNCHANGED <<settings, file>>
    BY <1>3 DEF OnFirewallReloaded, Change
  <2> QED
    BY <1>1, <1>2, <2>1
<1>4. ASSUME NEW k \in DOMAIN tasks,
             DiscardStale(k) \/ OnResolverStarted(k) \/ OnListsRefreshed(k)
                 \/ OnWanDetected(k) \/ OnSharingStopped(k)
      PROVE  Kept'
    BY <1>1, <1>4 DEF DiscardStale, OnResolverStarted, OnListsRefreshed,
       OnWanDetected, OnSharingStopped, appVars
<1> QED
    BY <1>3, <1>4 DEF AnswerStep

(* A restart reads the settings from what it finds. *)
LEMMA KeptByRestart ==
    ASSUME Kept, Restart
    PROVE  Kept'
<1>1. file' \in [Jobs -> Setting] \cup {None}
    BY FiltersAssumption DEF Kept, Restart
<1>2. settings' = Load(file')
    BY DEF Restart
<1> DEFINE f == file'
<1> HIDE DEF f
<1>3. f \in [Jobs -> Setting] \cup {None} /\ settings' = Load(f) /\ file' = f
    BY <1>1, <1>2 DEF f
<1>4. /\ Load(f) \in [Jobs -> Setting]
      /\ \A j \in Jobs : Normal(j, Load(f)[j].sources)
    BY <1>3, LoadIsNormal
<1>5. Load(file)' = settings'
    BY <1>2 DEF Load
<1> QED
    BY <1>3, <1>4, <1>5 DEF Kept, Normal

(* No step parts the settings from the file. *)
LEMMA KeptStep ==
    ASSUME Kept, [Next]_vars
    PROVE  Kept'
<1>1. ASSUME UNCHANGED <<settings, file>> PROVE Kept'
    BY <1>1 DEF Kept, Normal, Load
<1>2. LoadStep \/ PushStep => UNCHANGED <<settings, file>>
    BY DEF LoadStep, PushStep, ApplyPush, appVars
<1>3. Age \/ (\E u \in Urls : Publish(u)) \/ UNCHANGED vars
          => UNCHANGED <<settings, file>>
    BY DEF Age, Publish, appVars, vars
<1> QED
    BY <1>1, <1>2, <1>3, KeptByKey, KeptByAnswer, KeptByRestart DEF Next, WorldStep

(* The switches as they are now. *)
LEMMA SwitchTypes ==
    ASSUME settings \in [Jobs -> Setting]
    PROVE  /\ Switches \in [Jobs -> BOOLEAN]
           /\ \A j \in Jobs : Switches[j] = settings[j].enabled
           /\ \A j \in Jobs : settings[j].enabled \in BOOLEAN
           /\ \A j \in Jobs : EnabledUrls(settings[j]) \subseteq Urls
<1>1. \A j \in Jobs : /\ settings[j].enabled \in BOOLEAN
                      /\ settings[j].sources \in Seq(Source)
    BY DEF Setting
<1>2. \A j \in Jobs : Switches[j] = settings[j].enabled
    BY DEF Switches
<1>3. Switches \in [Jobs -> BOOLEAN]
    BY <1>1 DEF Switches
<1>4. ASSUME NEW j \in Jobs PROVE EnabledUrls(settings[j]) \subseteq Urls
  <2>1. Range(settings[j].sources) \subseteq Source
    BY <1>1, RangeOfSeq
  <2> QED
    BY <2>1 DEF EnabledUrls, Source
<1> QED
    BY <1>1, <1>2, <1>3, <1>4

(* The mishaps that are noted. *)
LEMMA MishapTypes ==
    ASSUME mishaps \subseteq Mishaps
    PROVE  /\ \A sets, applied : Noticed(sets, applied) \subseteq Mishaps
           /\ \A own : Interrupted(own) \subseteq Mishaps
<1>1. {"viewed", "twice", "cancelled"} \subseteq Mishaps
    BY DEF Mishaps
<1> QED
    BY <1>1 DEF Noticed, Interrupted

(* The keys that start a load, but for a start. *)
Fetch == \/ \E j \in Jobs, u \in Urls : AddCustom(j, u)
         \/ \E j \in Jobs : \E i \in DOMAIN settings[j].sources :
                ToggleSource(j, i) \/ RemoveCustom(j, i)
         \/ Refresh \/ OpenLists

(* A load as it begins. *)
LoadOf(op, on, sets) ==
    [op |-> op, on |-> on, busy |-> {}, got |-> {},
     todo |-> UNION {{j} \X EnabledUrls(sets[j]) : j \in Jobs}]

Op(applied) == IF applied THEN "refresh" ELSE "view"

(* They begin it with the settings they leave; one that is not for a       *)
(* session is not applied, nor one that the screen begins to show.         *)
LEMMA Fetches ==
    ASSUME Fetch
    PROVE  /\ pending = "none" /\ pending' = "RefreshingLists"
           /\ UNCHANGED <<sharing, wan, resolver, counted, diskVars, pushes>>
           /\ \E applied \in {sharing, FALSE} :
                  /\ tasks' = Append(tasks, LoadOf(Op(applied), Switches, settings'))
                  /\ mishaps' = Noticed(settings', applied)
           /\ \E e \in Events : Spend(e)
<1>0. {"source", "custom", "refresh", "open"} \subseteq Events
    BY DEF Events
<1>1. ASSUME NEW new, NEW applied, RefreshLists(new, applied), settings' = new
      PROVE  /\ pending' = "RefreshingLists"
             /\ tasks' = Append(tasks, LoadOf(Op(applied), Switches, settings'))
             /\ mishaps' = Noticed(settings', applied)
    BY <1>1 DEF RefreshLists, SpawnLoad, LoadOf, Op
<1> DEFINE Begun(applied) ==
              /\ pending' = "RefreshingLists"
              /\ tasks' = Append(tasks, LoadOf(Op(applied), Switches, settings'))
              /\ mishaps' = Noticed(settings', applied)
           Still == UNCHANGED <<sharing, wan, resolver, counted, diskVars, pushes>>
<1>2. ASSUME NEW j \in Jobs, NEW i \in DOMAIN settings[j].sources, ToggleSource(j, i)
      PROVE  pending = "none" /\ Begun(sharing) /\ Still /\ Spend("source")
    BY <1>2 DEF ToggleSource, KeyReady, RefreshLists, SpawnLoad, LoadOf, Op, Change
<1>3. ASSUME NEW j \in Jobs, NEW i \in DOMAIN settings[j].sources, RemoveCustom(j, i)
      PROVE  pending = "none" /\ Begun(sharing) /\ Still /\ Spend("custom")
    BY <1>3 DEF RemoveCustom, KeyReady, RefreshLists, SpawnLoad, LoadOf, Op, Change
<1>4. ASSUME NEW j \in Jobs, NEW u \in Urls, AddCustom(j, u)
      PROVE  pending = "none" /\ Begun(sharing) /\ Still /\ Spend("custom")
    BY <1>4 DEF AddCustom, KeyReady, RefreshLists, SpawnLoad, LoadOf, Op, Change
<1>5. ASSUME Refresh
      PROVE  pending = "none" /\ Begun(sharing) /\ Still /\ Spend("refresh")
    BY <1>5 DEF Refresh, KeyReady, RefreshLists, SpawnLoad, LoadOf, Op
<1>6. ASSUME OpenLists
      PROVE  pending = "none" /\ Begun(FALSE) /\ Still /\ Spend("open")
    BY <1>6 DEF OpenLists, KeyReady, RefreshLists, SpawnLoad, LoadOf, Op
<1> HIDE DEF Still
<1>7. /\ pending = "none" /\ Still
      /\ Begun(sharing) \/ Begun(FALSE)
      /\ \E e \in Events : Spend(e)
  <2> HIDE DEF Begun
  <2> QED
    BY <1>0, <1>2, <1>3, <1>4, <1>5, <1>6 DEF Fetch
<1> QED
    BY <1>7 DEF Still

(* Keys, by what they begin. *)
LEMMA Keys ==
    ASSUME KeyStep
    PROVE  ToggleBlock \/ ToggleAllow \/ AttachRefused \/ Fetch
               \/ StartSharing \/ StopSharing \/ Cancel
    BY DEF KeyStep, Fetch

(* The scalars keep their types. *)
LEMMA PlainStep ==
    ASSUME Plain, settings \in [Jobs -> Setting], [Next]_vars
    PROVE  Plain'
<1>0. /\ \A j \in Jobs : settings[j].enabled \in BOOLEAN
      /\ \A sets, applied : Noticed(sets, applied) \subseteq Mishaps
      /\ \A own : Interrupted(own) \subseteq Mishaps
      /\ "allow" \in Jobs
    BY SwitchTypes, MishapTypes, Constants DEF Plain
<1>1. /\ {"switch", "start", "stop", "cancel", "restart", "publish", "age", "fail",
          "overtake"} \subseteq Events
      /\ {"cancelled", "overtaken", "reloadFailed", "switchedOn"} \subseteq Mishaps
      /\ {"none", "StartingResolver", "RefreshingLists", "DetectingWan",
          "ReloadingFirewall", "StoppingSharing"} \subseteq PendingOps
    BY DEF Events, Mishaps, PendingOps
<1>2. \A e \in Events : Spend(e) => left' \in [Events -> Nat]
    BY SpendKeeps DEF Plain
<1>3. CASE ToggleBlock
    BY <1>1, <1>2, <1>3 DEF ToggleBlock, Plain
<1>4. CASE ToggleAllow
    BY <1>1, <1>2, <1>4 DEF ToggleAllow, Plain
<1>5. CASE AttachRefused \/ Cancel \/ StopSharing
    BY <1>1, <1>2, <1>5 DEF AttachRefused, Cancel, StopSharing, Plain, appVars
<1>6. CASE Fetch
    BY <1>0, <1>1, <1>2, <1>6, Fetches DEF Plain
<1>7. CASE StartSharing
    BY <1>0, <1>1, <1>2, <1>7 DEF StartSharing, Plain
<1>8. CASE LoadStep
  <2>1. UNCHANGED <<appVars, pushes, mishaps>>
    BY <1>8 DEF LoadStep
  <2>2. ASSUME NEW k \in DOMAIN tasks, NEW j, NEW u, ReadSource(k, j, u)
        PROVE  left' \in [Events -> Nat]
    BY <1>1, <1>2, <2>2 DEF ReadSource, Plain
  <2>3. ASSUME NEW k \in DOMAIN tasks, NEW j, NEW u, NEW v, StoreSource(k, j, u, v)
        PROVE  left' \in [Events -> Nat]
    BY <2>3 DEF StoreSource, Plain
  <2>4. left' \in [Events -> Nat]
    BY <1>8, <2>2, <2>3 DEF LoadStep
  <2> QED
    BY <2>1, <2>4 DEF Plain, appVars
<1>9. CASE AnswerStep
  <2>1. PICK k \in DOMAIN tasks :
            \/ DiscardStale(k) \/ OnResolverStarted(k) \/ OnListsRefreshed(k)
            \/ OnWanDetected(k) \/ OnFirewallReloaded(k) \/ OnSharingStopped(k)
    BY <1>9 DEF AnswerStep
  <2>2. CASE DiscardStale(k)
    BY <2>2 DEF DiscardStale, Plain, appVars
  <2>3. CASE OnResolverStarted(k)
    BY <1>1, <1>2, <2>3 DEF OnResolverStarted, Counts, Plain
  <2>4. CASE OnListsRefreshed(k)
    BY <1>1, <2>4 DEF OnListsRefreshed, Counts, Plain
  <2>5. CASE OnWanDetected(k)
    BY <1>1, <1>2, <2>5 DEF OnWanDetected, Plain
  <2>6. CASE OnFirewallReloaded(k)
    BY <1>0, <1>1, <1>2, <2>6 DEF OnFirewallReloaded, Plain
  <2>7. CASE OnSharingStopped(k)
    BY <1>0, <1>1, <2>7 DEF OnSharingStopped, Plain
  <2> QED
    BY <2>1, <2>2, <2>3, <2>4, <2>5, <2>6, <2>7
<1>10. CASE PushStep
    BY <1>1, <1>2, <1>10 DEF PushStep, ApplyPush, Plain
<1>11. CASE WorldStep
    BY <1>1, <1>2, <1>11 DEF WorldStep, Restart, Age, Publish, Plain, appVars
<1>12. CASE UNCHANGED vars
    BY <1>12 DEF vars, appVars, Plain
<1> QED
    BY <1>3, <1>4, <1>5, <1>6, <1>7, <1>8, <1>9, <1>10, <1>11, <1>12, Keys DEF Next

-----------------------------------------------------------------------------
(* Tasks.                                                                  *)

(* A task that has nothing to read, and a load that has begun nothing.     *)
LEMMA TasksBegin ==
    ASSUME settings \in [Jobs -> Setting]
    PROVE  /\ \A op \in {"wan", "on", "off", "stop"} :
                  [op |-> op, on |-> Switches, todo |-> {}, busy |-> {},
                   got |-> {}] \in Work
           /\ \A op \in {"start", "refresh", "view"}, sets \in [Jobs -> Setting] :
                  LoadOf(op, Switches, sets) \in Work
<1>1. Switches \in [Jobs -> BOOLEAN]
    BY SwitchTypes
<1>2. ASSUME NEW op \in {"wan", "on", "off", "stop"}
      PROVE  [op |-> op, on |-> Switches, todo |-> {}, busy |-> {},
              got |-> {}] \in Work
    BY <1>1, <1>2 DEF Work, Tasks, IsLoad
<1>3. ASSUME NEW op \in {"start", "refresh", "view"}, NEW sets \in [Jobs -> Setting]
      PROVE  LoadOf(op, Switches, sets) \in Work
  <2>1. ASSUME NEW j \in Jobs PROVE EnabledUrls(sets[j]) \subseteq Urls
    <3>1. sets[j].sources \in Seq(Source)
      BY DEF Setting
    <3>2. Range(sets[j].sources) \subseteq Source
      BY <3>1, RangeOfSeq
    <3> QED
      BY <3>2 DEF EnabledUrls, Source
  <2> DEFINE todo == UNION {{j} \X EnabledUrls(sets[j]) : j \in Jobs}
  <2>2. todo \subseteq Jobs \X Urls
    BY <2>1
  <2> HIDE DEF todo
  <2>3. [op |-> op, on |-> Switches, busy |-> {}, got |-> {}, todo |-> todo] \in Work
    BY <1>1, <2>2 DEF Work, Tasks, IsLoad
  <2> QED
    BY <2>3 DEF LoadOf, todo
<1> QED
    BY <1>2, <1>3

(* The list of tasks with one appended, ended, or gone on. *)
LEMMA TasksKeepWork ==
    ASSUME Working
    PROVE  /\ \A t \in Work : Append(tasks, t) \in Seq(Work)
           /\ \A k \in DOMAIN tasks : tasks[k] \in Work /\ Without(k) \in Seq(Work)
           /\ \A k \in DOMAIN tasks, t \in Work :
                  [tasks EXCEPT ![k] = t] \in Seq(Work)
<1>1. Len(tasks) \in Nat /\ DOMAIN tasks = 1..Len(tasks)
    BY LenProperties DEF Working
<1> QED
    BY <1>1, AppendProperties, ElementOfSeq, RemoveAtKeeps, ExceptSeq DEF Working, Without

(* A task of which only other fields change in type. *)
LEMMA TaskFields ==
    ASSUME NEW t \in Work
    PROVE  /\ t \in Tasks /\ t.on \in [Jobs -> BOOLEAN]
           /\ t.op \in {"start", "refresh", "view", "wan", "on", "off", "stop"}
           /\ t.todo \subseteq Jobs \X Urls
           /\ t.busy \subseteq Jobs \X Urls \X Versions
           /\ t.got \subseteq Jobs \X Urls \X Versions
           /\ ~IsLoad(t) => t.todo = {} /\ t.busy = {}
           /\ \A b \in t.busy : b[3] <= remote[b[2]]
           /\ \A j \in Jobs : Got(t, j) \subseteq Bodies
    BY DEF Work, Tasks, Got, Bodies

(* What a load does with a source. *)
TodoLess(t, p) == [t EXCEPT !.todo = @ \ {p}]
Begins(t, p, b) == [TodoLess(t, p) EXCEPT !.busy = @ \cup {b}]
Has(t, p, g) == [TodoLess(t, p) EXCEPT !.got = @ \cup {g}]
Stores(t, b) == [t EXCEPT !.busy = @ \ {b}, !.got = @ \cup {b}]

(* It reads the cache, downloads, or does without. *)
LEMMA Reads ==
    ASSUME NEW k \in DOMAIN tasks, NEW j, NEW u, ReadSource(k, j, u)
    PROVE  /\ <<j, u>> \in tasks[k].todo
           /\ \/ /\ u \in fresh \/ cache[u] # None
                 /\ tasks' = [tasks EXCEPT ![k] =
                                  Has(tasks[k], <<j, u>>, <<j, u, cache[u]>>)]
              \/ tasks' = [tasks EXCEPT ![k] =
                               Begins(tasks[k], <<j, u>>, <<j, u, remote[u]>>)]
              \/ /\ cache[u] = None
                 /\ tasks' = [tasks EXCEPT ![k] = TodoLess(tasks[k], <<j, u>>)]
    BY Zenon DEF ReadSource, Set, Has, Begins, TodoLess

(* A load that reads a source is still a task. *)
LEMMA WorkSteps ==
    ASSUME NEW t \in Work, NEW p, p \in t.todo, Disk
    PROVE  /\ TodoLess(t, p) \in Work
           /\ Begins(t, p, <<p[1], p[2], remote[p[2]]>>) \in Work
           /\ cache[p[2]] # None => Has(t, p, <<p[1], p[2], cache[p[2]]>>) \in Work
<1>1. /\ p \in Jobs \X Urls /\ IsLoad(t)
      /\ remote[p[2]] \in Versions
      /\ cache[p[2]] # None => cache[p[2]] \in Versions
    BY TaskFields DEF Disk
<1>2. remote[p[2]] <= remote[p[2]]
    BY <1>1, Constants
<1> DEFINE b == <<p[1], p[2], remote[p[2]]>>
           g == <<p[1], p[2], cache[p[2]]>>
<1>3. /\ b \in Jobs \X Urls \X Versions /\ b[3] = remote[p[2]] /\ b[2] = p[2]
      /\ cache[p[2]] # None => g \in Jobs \X Urls \X Versions
    BY <1>1
<1> HIDE DEF b, g
<1>4. TodoLess(t, p) \in Work
    BY <1>1, TaskFields DEF TodoLess, Work, Tasks, IsLoad
<1>5. Begins(t, p, b) \in Work
    BY <1>1, <1>2, <1>3, TaskFields DEF Begins, TodoLess, Work, Tasks, IsLoad
<1>6. cache[p[2]] # None => Has(t, p, g) \in Work
    BY <1>1, <1>3, TaskFields DEF Has, TodoLess, Work, Tasks, IsLoad
<1> QED
    BY <1>4, <1>5, <1>6 DEF b, g

(* And so is one that stores what it downloaded. *)
LEMMA WorkStores ==
    ASSUME NEW t \in Work, NEW b, b \in t.busy
    PROVE  Stores(t, b) \in Work /\ IsLoad(t)
<1>1. IsLoad(t)
    BY TaskFields
<1> QED
    BY <1>1, TaskFields DEF Stores, Work, Tasks, IsLoad

(* What is downloaded stays published. *)
LEMMA WorkStays ==
    ASSUME \/ UNCHANGED remote
           \/ /\ remote \in [Urls -> Versions] /\ remote' \in [Urls -> Versions]
              /\ \A u \in Urls : remote[u] <= remote'[u]
    PROVE  Work \subseteq Work'
<1> SUFFICES ASSUME NEW t \in Work PROVE t \in Work'
    OBVIOUS
<1>1. /\ t \in Tasks /\ ~IsLoad(t) => t.todo = {} /\ t.busy = {}
      /\ \A b \in t.busy : b[3] <= remote[b[2]] /\ b[2] \in Urls /\ b[3] \in Nat
    BY TaskFields, Constants
<1>2. \A b \in t.busy : b[3] <= remote'[b[2]]
  <2>1. CASE UNCHANGED remote
    BY <1>1, <2>1
  <2>2. CASE /\ remote \in [Urls -> Versions] /\ remote' \in [Urls -> Versions]
             /\ \A u \in Urls : remote[u] <= remote'[u]
    <3> SUFFICES ASSUME NEW b \in t.busy PROVE b[3] <= remote'[b[2]]
      OBVIOUS
    <3>1. remote[b[2]] \in Nat /\ remote'[b[2]] \in Nat
      BY <1>1, <2>2, Constants
    <3> QED
      BY <1>1, <2>2, <3>1
  <2> QED
    BY <2>1, <2>2
<1> QED
    BY <1>1, <1>2 DEF Work, IsLoad

(* A load goes on: one source is read or stored. *)
LEMMA LoadSteps ==
    ASSUME Disk, Working, LoadStep
    PROVE  Disk' /\ Working'
<1>0. UNCHANGED remote
    BY DEF LoadStep, diskVars, StoreSource
<1>00. Work \subseteq Work'
    BY <1>0, WorkStays
<1>1. ASSUME NEW k \in DOMAIN tasks, NEW p \in tasks[k].todo,
             ReadSource(k, p[1], p[2]), UNCHANGED diskVars
      PROVE  Disk' /\ Working'
  <2>1. tasks[k] \in Work /\ p \in Jobs \X Urls /\ p = <<p[1], p[2]>>
    BY TasksKeepWork, TaskFields
  <2>2. /\ TodoLess(tasks[k], p) \in Work
        /\ Begins(tasks[k], p, <<p[1], p[2], remote[p[2]]>>) \in Work
        /\ cache[p[2]] # None => Has(tasks[k], p, <<p[1], p[2], cache[p[2]]>>) \in Work
    BY <2>1, WorkSteps
  <2>3. p[2] \in fresh => cache[p[2]] # None
    BY DEF Disk
  <2>4. \E t \in Work : tasks' = [tasks EXCEPT ![k] = t]
    BY <1>1, <2>1, <2>2, <2>3, Reads
  <2>5. tasks' \in Seq(Work)
    BY <2>4, TasksKeepWork
  <2>6. Working'
    BY <1>00, <2>5, SeqMonotonic DEF Working
  <2>7. Disk'
    BY <1>1 DEF Disk, diskVars
  <2> QED
    BY <2>6, <2>7
<1>2. ASSUME NEW k \in DOMAIN tasks, NEW b \in tasks[k].busy,
             StoreSource(k, b[1], b[2], b[3])
      PROVE  Disk' /\ Working'
  <2>1. /\ tasks[k] \in Work /\ b \in Jobs \X Urls \X Versions
        /\ b = <<b[1], b[2], b[3]>> /\ b[3] <= remote[b[2]]
    BY TasksKeepWork, TaskFields
  <2>2. Stores(tasks[k], b) \in Work
    BY <2>1, WorkStores
  <2>3. tasks' = [tasks EXCEPT ![k] = Stores(tasks[k], b)]
    BY <1>2, <2>1, Zenon DEF StoreSource, Set, Stores
  <2>4. tasks' \in Seq(Work)
    BY <2>2, <2>3, TasksKeepWork
  <2>5. Working'
    BY <1>00, <2>4, SeqMonotonic DEF Working
  <2>6. /\ b[2] \in Urls /\ b[3] \in Versions /\ b[3] # None
        /\ cache' = [cache EXCEPT ![b[2]] = b[3]] /\ fresh' = fresh \cup {b[2]}
    BY <1>2, <2>1, Constants DEF StoreSource
  <2>7. /\ cache' \in [Urls -> Versions \cup {None}]
        /\ \A u \in Urls : cache'[u] = IF u = b[2] THEN b[3] ELSE cache[u]
    BY <2>6 DEF Disk
  <2>8. Disk'
    BY <1>0, <2>1, <2>6, <2>7 DEF Disk
  <2> QED
    BY <2>5, <2>8
<1> QED
    BY <1>1, <1>2 DEF LoadStep

(* No step breaks the disk or the tasks. *)
LEMMA DiskAndTasksStep ==
    ASSUME Plain, Kept, Disk, Working, [Next]_vars
    PROVE  Disk' /\ Working'
<1>0. /\ settings \in [Jobs -> Setting] /\ settings' \in [Jobs -> Setting]
      /\ tasks \in Seq(Work) /\ <<>> \in Seq(Work)
    BY KeptStep, EmptySeq DEF Kept, Working
<1>1. ASSUME UNCHANGED diskVars, tasks' \in Seq(Work) PROVE Disk' /\ Working'
  <2>1. Work \subseteq Work'
    BY <1>1, WorkStays DEF diskVars
  <2> QED
    BY <1>1, <2>1, SeqMonotonic DEF Disk, Working, diskVars
<1>2. /\ \A op \in {"wan", "on", "off", "stop"}, ts \in Seq(Work) :
             Spawn(ts, op) \in Seq(Work)
      /\ \A op \in {"start", "refresh", "view"}, sets \in [Jobs -> Setting] :
             Append(tasks, LoadOf(op, Switches, sets)) \in Seq(Work)
      /\ \A k \in DOMAIN tasks : Without(k) \in Seq(Work)
    BY <1>0, TasksBegin, TasksKeepWork, AppendProperties DEF Spawn
<1>3. CASE ToggleBlock \/ AttachRefused \/ Cancel
    BY <1>0, <1>1, <1>3 DEF ToggleBlock, AttachRefused, Cancel
<1>4. CASE ToggleAllow
  <2>1. tasks' = tasks \/ \E op \in {"off", "on", "wan"} : tasks' = Spawn(tasks, op)
    BY <1>4 DEF ToggleAllow
  <2> QED
    BY <1>0, <1>1, <1>2, <1>4, <2>1 DEF ToggleAllow
<1>5. CASE StopSharing
    BY <1>0, <1>1, <1>2, <1>5 DEF StopSharing
<1>6. CASE Fetch
  <2>1. \A applied : Op(applied) \in {"start", "refresh", "view"}
    BY DEF Op
  <2> QED
    BY <1>0, <1>1, <1>2, <1>6, <2>1, Fetches
<1>7. CASE StartSharing
  <2>1. tasks' = Append(tasks, LoadOf("start", Switches, settings))
    BY <1>7 DEF StartSharing, SpawnLoad, LoadOf
  <2> QED
    BY <1>0, <1>1, <1>2, <1>7, <2>1 DEF StartSharing
<1>8. CASE LoadStep
    BY <1>8, LoadSteps
<1>9. CASE AnswerStep
  <2>1. PICK k \in DOMAIN tasks :
            \/ DiscardStale(k) \/ OnResolverStarted(k) \/ OnListsRefreshed(k)
            \/ OnWanDetected(k) \/ OnFirewallReloaded(k) \/ OnSharingStopped(k)
    BY <1>9 DEF AnswerStep
  <2>2. UNCHANGED diskVars
    BY <2>1 DEF DiscardStale, OnResolverStarted, OnListsRefreshed, OnWanDetected,
       OnFirewallReloaded, OnSharingStopped
  <2>3. tasks' = Without(k) \/ tasks' = Spawn(Without(k), "on")
    BY <2>1 DEF DiscardStale, OnResolverStarted, OnListsRefreshed, OnWanDetected,
       OnFirewallReloaded, OnSharingStopped
  <2> QED
    BY <1>1, <1>2, <2>2, <2>3
<1>10. CASE PushStep
    BY <1>0, <1>1, <1>10 DEF PushStep, ApplyPush
<1>11. CASE Restart
    BY <1>0, <1>1, <1>11 DEF Restart
<1>12. CASE Age
  <2>1. Work \subseteq Work'
    BY <1>12, WorkStays DEF Age
  <2> QED
    BY <1>0, <1>12, <2>1, SeqMonotonic DEF Age, Disk, Working
<1>13. ASSUME NEW u \in Urls, Publish(u) PROVE Disk' /\ Working'
  <2>1. /\ remote \in [Urls -> Versions] /\ remote[u] + 1 \in Versions
        /\ remote' = [remote EXCEPT ![u] = remote[u] + 1]
        /\ UNCHANGED <<cache, fresh, tasks>>
        /\ \A x \in Urls : remote[x] \in Nat
    BY <1>13, Constants DEF Publish, Disk
  <2>2. /\ remote' \in [Urls -> Versions]
        /\ \A x \in Urls : remote'[x] = IF x = u THEN remote[u] + 1 ELSE remote[x]
    BY <2>1
  <2>3. \A x \in Urls : remote[x] <= remote'[x] /\ remote'[x] \in Nat
    BY <2>1, <2>2
  <2>4. Work \subseteq Work'
    BY <2>1, <2>2, <2>3, WorkStays
  <2>5. Working'
    BY <1>0, <2>1, <2>4, SeqMonotonic DEF Working
  <2>6. ASSUME NEW x \in Urls, cache'[x] # None PROVE cache'[x] <= remote'[x]
    <3>1. cache[x] \in Nat /\ cache[x] <= remote[x]
      BY <2>1, <2>6, Constants DEF Disk
    <3> QED
      BY <2>1, <2>3, <3>1
  <2>7. Disk'
    BY <2>1, <2>2, <2>6 DEF Disk
  <2> QED
    BY <2>5, <2>7
<1>14. CASE UNCHANGED vars
    BY <1>0, <1>1, <1>14 DEF vars
<1> QED
    BY <1>3, <1>4, <1>5, <1>6, <1>7, <1>8, <1>9, <1>10, <1>11, <1>12, <1>13, <1>14,
       Keys DEF Next, WorldStep

-----------------------------------------------------------------------------
(* The resolver and the pushes.                                            *)

(* A push waits only for a resolver that is there. *)
LEMMA PushWaits ==
    ASSUME Answering, NEW sets \in [Jobs -> (SUBSET Bodies) \cup {None}],
           NEW on \in [Jobs -> BOOLEAN],
           pushes' = IF resolver = None THEN pushes
                     ELSE Append(pushes, [set |-> sets, on |-> on])
    PROVE  /\ pushes' \in Seq(Pushed)
           /\ pushes' # <<>> => resolver # None
<1>1. [set |-> sets, on |-> on] \in Pushed
    BY DEF Pushed
<1>2. pushes \in Seq(Pushed) /\ (pushes # <<>> => resolver # None)
    BY DEF Answering
<1>3. CASE resolver = None
    BY <1>2, <1>3
<1>4. CASE resolver # None
  <2>1. pushes' = Append(pushes, [set |-> sets, on |-> on])
    BY <1>4
  <2> QED
    BY <1>1, <1>2, <1>4, <2>1, AppendProperties
<1> QED
    BY <1>3, <1>4

(* What a push brings the resolver to. *)
LEMMA PushApplies ==
    ASSUME Answering, NEW i \in DOMAIN pushes, ApplyPush(i)
    PROVE  /\ resolver # None /\ resolver' # None /\ sharing
           /\ resolver' \in Lists
           /\ pushes[i] \in Pushed
           /\ resolver'.on = pushes[i].on
           /\ \A j \in Jobs : resolver'.set[j] = IF pushes[i].set[j] = None
                                                THEN resolver.set[j]
                                                ELSE pushes[i].set[j]
           /\ pushes' \in Seq(Pushed)
<1> DEFINE p == pushes[i]
           set == [j \in Jobs |-> IF p.set[j] = None THEN resolver.set[j]
                                  ELSE p.set[j]]
<1>1. Len(pushes) \in Nat /\ DOMAIN pushes = 1..Len(pushes) /\ pushes \in Seq(Pushed)
    BY LenProperties DEF Answering
<1>2. p \in Pushed /\ pushes # <<>>
    BY <1>1, ElementOfSeq, EmptySeq
<1>3. resolver # None /\ resolver \in Lists /\ sharing
    BY <1>2 DEF Answering
<1>4. resolver' = [set |-> set, on |-> p.on]
    BY DEF ApplyPush
<1>5. set \in [Jobs -> SUBSET Bodies]
    BY <1>2, <1>3 DEF Pushed, Lists
<1>6. \A j \in Jobs : set[j] = IF p.set[j] = None THEN resolver.set[j] ELSE p.set[j]
    OBVIOUS
<1> HIDE DEF set
<1>7. resolver' \in Lists /\ resolver'.set = set /\ resolver'.on = p.on
    BY <1>2, <1>4, <1>5 DEF Lists, Pushed
<1>8. pushes' \in Seq(Pushed)
    BY <1>1, RemoveAtKeeps DEF ApplyPush
<1> QED
    BY <1>2, <1>3, <1>6, <1>7, <1>8, Constants

(* A resolver is started with what its load got. *)
LEMMA StartedLists ==
    ASSUME NEW t \in Work
    PROVE  [set |-> [j \in Jobs |-> IF t.on[j] THEN Got(t, j) ELSE {}],
            on |-> t.on] \in Lists
<1> DEFINE set == [j \in Jobs |-> IF t.on[j] THEN Got(t, j) ELSE {}]
<1>1. \A j \in Jobs : set[j] \subseteq Bodies
    BY TaskFields
<1>2. set \in [Jobs -> SUBSET Bodies] /\ t.on \in [Jobs -> BOOLEAN]
    BY <1>1, TaskFields
<1> HIDE DEF set
<1>3. [set |-> set, on |-> t.on] \in Lists
    BY <1>2 DEF Lists
<1> QED
    BY <1>3 DEF set

(* No step leaves a resolver or a push without its session. *)
LEMMA AnsweringStep ==
    ASSUME Plain, Kept, Working, Answering, [Next]_vars
    PROVE  Answering'
<1>0. /\ settings \in [Jobs -> Setting]
      /\ Switches \in [Jobs -> BOOLEAN]
      /\ [j \in Jobs |-> None] \in [Jobs -> (SUBSET Bodies) \cup {None}]
      /\ <<>> \in Seq(Pushed)
      /\ \A k \in DOMAIN tasks : tasks[k] \in Work
    BY SwitchTypes, EmptySeq, TasksKeepWork DEF Kept
<1>00. /\ resolver # None => sharing /\ resolver \in Lists
       /\ pending = "StartingResolver" => sharing /\ resolver = None
       /\ pushes \in Seq(Pushed)
       /\ pushes # <<>> => resolver # None
    BY DEF Answering
<1>1. ASSUME UNCHANGED <<sharing, resolver, pushes>>,
             pending' # "StartingResolver" \/ UNCHANGED pending
      PROVE  Answering'
    BY <1>00, <1>1 DEF Answering
<1>2. ASSUME NEW sets \in [Jobs -> (SUBSET Bodies) \cup {None}],
             NEW on \in [Jobs -> BOOLEAN],
             pushes' = IF resolver = None THEN pushes
                       ELSE Append(pushes, [set |-> sets, on |-> on]),
             UNCHANGED <<sharing, resolver>>, pending' = "none"
      PROVE  Answering'
    BY <1>00, <1>2, PushWaits DEF Answering
<1>3. CASE ToggleBlock
  <2> DEFINE on == [Switches EXCEPT !["block"] = ~Switches["block"]]
  <2>1. on \in [Jobs -> BOOLEAN]
    BY <1>0, Constants
  <2>2. pushes' = IF resolver = None THEN pushes
                  ELSE Append(pushes, [set |-> [j \in Jobs |-> None], on |-> on])
    BY <1>3 DEF ToggleBlock, Push
  <2>3. UNCHANGED <<sharing, resolver, pending>> /\ pending = "none"
    BY <1>3 DEF ToggleBlock, KeyReady
  <2> HIDE DEF on
  <2> QED
    BY <1>0, <1>2, <2>1, <2>2, <2>3
<1>4. CASE ToggleAllow
    BY <1>1, <1>4 DEF ToggleAllow
<1>5. CASE AttachRefused \/ Cancel
    BY <1>1, <1>5 DEF AttachRefused, Cancel, appVars
<1>6. CASE Fetch
    BY <1>1, <1>6, Fetches
<1>7. CASE StartSharing
    BY <1>00, <1>7 DEF StartSharing, Answering
<1>8. CASE StopSharing
    BY <1>0, <1>8 DEF StopSharing, Answering
<1>9. CASE LoadStep
    BY <1>1, <1>9 DEF LoadStep, appVars
<1>10. ASSUME NEW k \in DOMAIN tasks, DiscardStale(k) PROVE Answering'
    BY <1>1, <1>10 DEF DiscardStale, appVars
<1>11. ASSUME NEW k \in DOMAIN tasks, OnResolverStarted(k) PROVE Answering'
  <2>1. /\ sharing /\ resolver = None /\ pushes = <<>> /\ pending' = "none"
        /\ UNCHANGED pushes
    BY <1>00, <1>11 DEF OnResolverStarted, Stale
  <2>2. tasks[k] \in Work
    BY <1>0
  <2>3. CASE sharing' = FALSE /\ UNCHANGED resolver
    BY <2>1, <2>3, <1>0 DEF Answering
  <2>4. CASE /\ UNCHANGED sharing
             /\ resolver' = [set |-> [j \in Jobs |-> IF tasks[k].on[j]
                                         THEN Got(tasks[k], j) ELSE {}],
                             on |-> tasks[k].on]
    <3>1. resolver' \in Lists
      BY <2>2, <2>4, StartedLists
    <3> QED
      BY <1>0, <2>1, <2>4, <3>1 DEF Answering
  <2> QED
    BY <1>11, <2>3, <2>4 DEF OnResolverStarted
<1>12. ASSUME NEW k \in DOMAIN tasks, OnListsRefreshed(k) PROVE Answering'
  <2> DEFINE sets == [j \in Jobs |-> Got(tasks[k], j)]
  <2>1. sets \in [Jobs -> (SUBSET Bodies) \cup {None}]
    BY <1>0, TaskFields
  <2>2. \/ pushes' = IF resolver = None THEN pushes
                     ELSE Append(pushes, [set |-> sets, on |-> Switches])
        \/ UNCHANGED pushes
    BY <1>12 DEF OnListsRefreshed, Push
  <2>3. UNCHANGED <<sharing, resolver>> /\ pending' = "none"
    BY <1>12 DEF OnListsRefreshed
  <2> HIDE DEF sets
  <2> QED
    BY <1>0, <1>1, <1>2, <2>1, <2>2, <2>3
<1>13. ASSUME NEW k \in DOMAIN tasks, OnWanDetected(k) PROVE Answering'
    BY <1>1, <1>13 DEF OnWanDetected
<1>14. ASSUME NEW k \in DOMAIN tasks, OnFirewallReloaded(k) PROVE Answering'
  <2> DEFINE on == [Switches EXCEPT !["allow"] = TRUE]
  <2>1. on \in [Jobs -> BOOLEAN]
    BY <1>0, Constants
  <2>2. \/ pushes' = IF resolver = None THEN pushes
                     ELSE Append(pushes, [set |-> [j \in Jobs |-> None], on |-> on])
        \/ pushes' = IF resolver = None THEN pushes
                     ELSE Append(pushes, [set |-> [j \in Jobs |-> None], on |-> Switches])
        \/ UNCHANGED pushes
    BY <1>14 DEF OnFirewallReloaded, Push, Switches
  <2>3. UNCHANGED <<sharing, resolver>> /\ pending' = "none"
    BY <1>14 DEF OnFirewallReloaded
  <2> HIDE DEF on
  <2> QED
    BY <1>0, <1>1, <1>2, <2>1, <2>2, <2>3
<1>15. ASSUME NEW k \in DOMAIN tasks, OnSharingStopped(k) PROVE Answering'
    BY <1>0, <1>15 DEF OnSharingStopped, Answering
<1>16. ASSUME NEW i \in DOMAIN pushes, ApplyPush(i) PROVE Answering'
  <2>1. UNCHANGED <<sharing, pending>>
    BY <1>16 DEF ApplyPush
  <2> QED
    BY <1>00, <1>16, <2>1, PushApplies DEF Answering
<1>17. CASE WorldStep
  <2>1. CASE Restart
    BY <1>0, <2>1 DEF Restart, Answering
  <2>2. CASE Age \/ \E u \in Urls : Publish(u)
    BY <1>1, <2>2 DEF Age, Publish, appVars
  <2> QED
    BY <1>17, <2>1, <2>2 DEF WorldStep
<1>18. CASE UNCHANGED vars
    BY <1>1, <1>18 DEF vars, appVars
<1> QED
    BY <1>3, <1>4, <1>5, <1>6, <1>7, <1>8, <1>9, <1>10, <1>11, <1>12, <1>13, <1>14,
       <1>15, <1>16, <1>17, <1>18, Keys DEF Next, AnswerStep, PushStep

-----------------------------------------------------------------------------
(* Types, the file and the order of the sources.                           *)

(* A program that has started is sound, *)
LEMMA SoundInit ==
    ASSUME Init
    PROVE  Sound
<1>1. /\ settings = Load(file) /\ file \in [Jobs -> Setting] \cup {None}
      /\ left \in [Events -> Nat]
    BY FiltersAssumption DEF Init
<1>2. Kept
    BY <1>1, LoadIsNormal DEF Kept
<1>3. Plain
    BY <1>1 DEF Init, Plain, PendingOps
<1>4. Disk
    BY FiltersAssumption DEF Init, Disk
<1>5. Working /\ Answering
    BY EmptySeq DEF Init, Working, Answering
<1> QED
    BY <1>2, <1>3, <1>4, <1>5 DEF Sound

(* and stays so; *)
LEMMA SoundStep ==
    ASSUME Sound, [Next]_vars
    PROVE  Sound'
<1>1. settings \in [Jobs -> Setting]
    BY DEF Sound, Kept
<1>2. Plain' /\ Disk' /\ Working' /\ Answering' /\ Kept'
    BY <1>1, PlainStep, DiskAndTasksStep, AnsweringStep, KeptStep DEF Sound
<1> QED
    BY <1>2 DEF Sound

(* its variables hold values of their types. *)
LEMMA SoundTypes ==
    ASSUME Sound
    PROVE  TypeOK
<1>1. \A t \in Range(tasks) : t \in Tasks
  <2>1. \A t \in Work : t \in Tasks
    BY DEF Work
  <2> QED
    BY <2>1, RangeOfSeq DEF Sound, Working
<1>2. \A p \in Range(pushes) : resolver # None /\ p.on \in [Jobs -> BOOLEAN]
  <2>1. \A p \in Pushed : p.on \in [Jobs -> BOOLEAN]
    BY DEF Pushed
  <2>2. Range(pushes) \subseteq Pushed
    BY RangeOfSeq DEF Sound, Answering
  <2>3. Range(pushes) # {} => pushes # <<>>
    BY DEF Range
  <2> QED
    BY <2>1, <2>2, <2>3 DEF Sound, Answering
<1> QED
    BY <1>1, <1>2 DEF Sound, Plain, Disk, Answering, Kept, TypeOK

(* Every variable holds a value of its type, whatever keys are pressed,    *)
(* whatever fails, and however many loads and pushes are under way.        *)
THEOREM TypeCorrect == Spec => []TypeOK
<1>1. Init => Sound
    BY SoundInit
<1>2. Sound /\ [Next]_vars => Sound'
    BY SoundStep
<1>3. Sound => TypeOK
    BY SoundTypes
<1> QED
    BY <1>1, <1>2, <1>3, PTL DEF Spec

(* The program may die at any moment: the next one finds the settings as   *)
(* they are shown now, because a file that was written in any handler is   *)
(* normal, and reading leaves a normal list as it is.                      *)
THEOREM FileIsKept == Spec => []SurvivesCrash
<1>1. Init => Sound
    BY SoundInit
<1>2. Sound /\ [Next]_vars => Sound'
    BY SoundStep
<1>3. Sound => SurvivesCrash
    BY DEF Sound, Kept, SurvivesCrash
<1> QED
    BY <1>1, <1>2, <1>3, PTL DEF Spec

(* A normal list has the bundled sources first, as BuiltinsFirst says it. *)
LEMMA NormalIsFirst ==
    ASSUME NEW j \in Jobs, NEW sources \in Seq(Source), Normal(j, sources),
           NEW urls, urls = [i \in DOMAIN sources |-> sources[i].url]
    PROVE  /\ IsPrefix(Builtins[j], urls)
           /\ \A i \in DOMAIN urls :
                  i > Len(Builtins[j]) => urls[i] \notin Range(Builtins[j])
<1> DEFINE n == Len(Builtins[j])
           m == Len(sources)
<1>1. /\ n \in Nat /\ m \in Nat /\ DOMAIN sources = 1..m /\ DOMAIN Builtins[j] = 1..n
      /\ Builtins[j] \in Seq(Urls)
      /\ \A i \in 1..m : sources[i] \in Source
      /\ \A i \in 1..n : Builtins[j][i] \in Urls
    BY Constants, LenProperties, ElementOfSeq
<1>2. n <= m /\ \A i \in 1..m : IF i <= n THEN sources[i].url = Builtins[j][i]
                               ELSE sources[i].url \notin Range(Builtins[j])
    BY <1>1 DEF Normal
<1>3. urls \in Seq(Urls) /\ Len(urls) = m /\ \A i \in 1..m : urls[i] = sources[i].url
  <2>1. urls \in [1..m -> Urls]
    BY <1>1 DEF Source
  <2>2. urls \in Seq(Urls)
    BY <1>1, <2>1, SeqDef
  <2>3. DOMAIN urls = 1..m /\ DOMAIN urls = 1..Len(urls) /\ Len(urls) \in Nat
    BY <2>1, <2>2, LenProperties
  <2>4. Len(urls) = m
    BY <1>1, <2>3
  <2> QED
    BY <1>1, <2>2, <2>4
<1> HIDE DEF n, m
<1>4. SubSeq(urls, 1, n) = Builtins[j]
  <2>1. \A i \in 1..n : urls[i] \in Urls /\ urls[i] = Builtins[j][i]
    BY <1>1, <1>2, <1>3
  <2>2. /\ SubSeq(urls, 1, n) \in Seq(Urls)
        /\ Len(SubSeq(urls, 1, n)) = IF 1 <= n THEN n - 1 + 1 ELSE 0
        /\ \A i \in 1..n - 1 + 1 : SubSeq(urls, 1, n)[i] = urls[1 + i - 1]
    BY <1>1, <2>1, SubSeqProperties
  <2> DEFINE front == SubSeq(urls, 1, n)
  <2> HIDE DEF front
  <2>3. /\ front \in Seq(Urls)
        /\ Len(front) = IF 1 <= n THEN n - 1 + 1 ELSE 0
        /\ \A i \in 1..n - 1 + 1 : front[i] = urls[1 + i - 1]
    BY <2>2 DEF front
  <2>4. front \in Seq(Urls) /\ Len(front) = Len(Builtins[j])
        /\ \A i \in 1..Len(front) : front[i] = Builtins[j][i]
    <3>1. Len(front) = n /\ \A i \in 1..n : 1 + i - 1 = i /\ i \in 1..n - 1 + 1
      BY <1>1, <2>3
    <3>2. ASSUME NEW i \in 1..n PROVE front[i] = Builtins[j][i]
      BY <2>1, <2>3, <3>1
    <3> QED
      BY <2>3, <3>1, <3>2 DEF n
  <2>5. front = Builtins[j]
    BY <1>1, <2>4, SeqEqual
  <2> QED
    BY <2>5 DEF front
<1>5. SubSeq(Builtins[j], 1, n) = Builtins[j]
    BY <1>1, SubSeqFull DEF n
<1>6. IsPrefix(Builtins[j], urls)
    BY <1>1, <1>2, <1>3, <1>4, <1>5 DEF IsPrefix, n
<1>7. DOMAIN urls = 1..m
    BY <1>3, LenProperties
<1>8. \A i \in DOMAIN urls : i > n => urls[i] \notin Range(Builtins[j])
    BY <1>1, <1>2, <1>3, <1>7
<1> QED
    BY <1>6, <1>8 DEF n

(* Whatever the file held, the bundled sources are there, each once, in    *)
(* their order and before the others.                                      *)
THEOREM BuiltinsStayFirst == Spec => []BuiltinsFirst
<1>1. Init => Sound
    BY SoundInit
<1>2. Sound /\ [Next]_vars => Sound'
    BY SoundStep
<1>3. Sound => BuiltinsFirst
  <2> SUFFICES ASSUME Sound, NEW j \in Jobs
               PROVE  LET urls == [i \in DOMAIN settings[j].sources |->
                                       settings[j].sources[i].url]
                          n == Len(Builtins[j])
                      IN  /\ IsPrefix(Builtins[j], urls)
                          /\ \A i \in DOMAIN urls :
                                 i > n => urls[i] \notin Range(Builtins[j])
    BY DEF BuiltinsFirst
  <2>1. settings[j].sources \in Seq(Source) /\ Normal(j, settings[j].sources)
    BY DEF Sound, Kept, Setting
  <2> QED
    BY <2>1, NormalIsFirst
<1> QED
    BY <1>1, <1>2, <1>3, PTL DEF Spec

-----------------------------------------------------------------------------
(* One task at a time.                                                     *)

(* The list of tasks with one and with none. *)
LEMMA OneTask ==
    ASSUME Working, NEW t \in Work
    PROVE  /\ Append(<<>>, t) = <<t>>
           /\ Len(<<t>>) = 1 /\ DOMAIN <<t>> = {1} /\ <<t>>[1] = t
           /\ \A k \in DOMAIN tasks : Len(tasks) <= 1 =>
                  k = 1 /\ tasks = <<tasks[1]>> /\ Without(k) = <<>>
<1>1. Append(<<>>, t) = <<t>> /\ Len(<<t>>) = 1 /\ DOMAIN <<t>> = {1} /\ <<t>>[1] = t
    OBVIOUS
<1>2. tasks \in Seq(Work) /\ Len(tasks) \in Nat /\ DOMAIN tasks = 1..Len(tasks)
    BY LenProperties DEF Working
<1>3. ASSUME NEW k \in DOMAIN tasks, Len(tasks) <= 1
      PROVE  k = 1 /\ tasks = <<tasks[1]>> /\ Without(k) = <<>>
  <2>1. k = 1 /\ Len(tasks) = 1
    BY <1>2, <1>3
  <2>2. tasks[1] \in Work
    BY <1>2, <2>1, ElementOfSeq
  <2>3. <<tasks[1]>> \in Seq(Work) /\ Len(<<tasks[1]>>) = 1
    BY <2>2
  <2>4. \A i \in 1..1 : tasks[i] = <<tasks[1]>>[i]
    OBVIOUS
  <2>5. tasks = <<tasks[1]>>
    BY <1>2, <2>1, <2>3, <2>4, SeqEqual
  <2>6. Without(k) \in Seq(Work) /\ Len(Without(k)) = 0
    BY <1>2, <2>1, RemoveAtKeeps DEF Without
  <2>7. Without(k) = <<>>
    BY <2>6, EmptySeq
  <2> QED
    BY <2>1, <2>5, <2>7
<1> QED
    BY <1>1, <1>3

(* Without a cancelled one there is no task while nothing is pending. *)
LEMMA IdleHasNone ==
    ASSUME Working, Single, pending = "none", "cancelled" \notin mishaps
    PROVE  tasks = <<>>
<1>1. tasks \in Seq(Work) /\ Len(tasks) \in Nat /\ DOMAIN tasks = 1..Len(tasks)
    BY LenProperties DEF Working
<1>2. \A k \in DOMAIN tasks : FALSE
    BY DEF Single, Awaited
<1>3. Len(tasks) = 0
  <2> DEFINE n == Len(tasks)
  <2>1. n \in Nat /\ \A k \in 1..n : FALSE
    BY <1>1, <1>2
  <2> HIDE DEF n
  <2>2. n = 0
    <3>1. n # 0 => 1 \in 1..n
      BY <2>1
    <3> QED
      BY <2>1, <3>1
  <2> QED
    BY <2>2 DEF n
<1> QED
    BY <1>1, <1>3, EmptySeq

(* Nor when a key begins a load that is not noted as one after another. *)
LEMMA FetchesAlone ==
    ASSUME Working, Single, pending = "none", NEW sets, NEW applied,
           "cancelled" \notin Noticed(sets, applied)
    PROVE  tasks = <<>>
<1>1. CASE "cancelled" \in mishaps
    BY <1>1 DEF Noticed, Quiet
<1>2. CASE "cancelled" \notin mishaps
    BY <1>2, IdleHasNone
<1> QED
    BY <1>1, <1>2

(* A load that goes on is the same task. *)
LEMMA LoadIsTask ==
    ASSUME Working, LoadStep
    PROVE  /\ Len(tasks') = Len(tasks) /\ DOMAIN tasks' = DOMAIN tasks
           /\ \A k \in DOMAIN tasks : tasks'[k].op = tasks[k].op
           /\ \E k \in DOMAIN tasks : IsLoad(tasks[k])
           /\ UNCHANGED <<appVars, pushes, mishaps>>
<1>0. /\ tasks \in Seq(Work) /\ Len(tasks) \in Nat /\ DOMAIN tasks = 1..Len(tasks)
      /\ \A k \in DOMAIN tasks : tasks[k] \in Work
    BY LenProperties, TasksKeepWork DEF Working
<1> DEFINE Same == /\ DOMAIN tasks' = DOMAIN tasks
                   /\ \A k \in DOMAIN tasks : tasks'[k].op = tasks[k].op
                   /\ \E k \in DOMAIN tasks : IsLoad(tasks[k])
                   /\ \E t : \E k \in DOMAIN tasks : tasks' = [tasks EXCEPT ![k] = t]
<1>1. ASSUME NEW k \in DOMAIN tasks, NEW t, t.op = tasks[k].op, IsLoad(tasks[k]),
             tasks' = [tasks EXCEPT ![k] = t]
      PROVE  Same
    BY <1>1
<1>2. ASSUME NEW k \in DOMAIN tasks, NEW p \in tasks[k].todo, ReadSource(k, p[1], p[2])
      PROVE  Same
  <2> DEFINE r == tasks[k]
             q == <<p[1], p[2]>>
             g == <<p[1], p[2], cache[p[2]]>>
             b == <<p[1], p[2], remote[p[2]]>>
  <2>1. /\ Has(r, q, g).op = r.op /\ Begins(r, q, b).op = r.op
        /\ TodoLess(r, q).op = r.op
    <3>1. r \in Tasks
      BY <1>0, TaskFields
    <3> QED
      BY <3>1 DEF Has, Begins, TodoLess, Tasks
  <2>2. IsLoad(r)
    BY <1>0, TaskFields
  <2>3. \/ tasks' = [tasks EXCEPT ![k] = Has(r, q, g)]
        \/ tasks' = [tasks EXCEPT ![k] = Begins(r, q, b)]
        \/ tasks' = [tasks EXCEPT ![k] = TodoLess(r, q)]
    BY <1>2, Reads
  <2> HIDE DEF Same, r, q, b, g
  <2>4. \E t : t.op = r.op /\ tasks' = [tasks EXCEPT ![k] = t]
    BY <2>1, <2>3
  <2> QED
    BY <1>1, <2>2, <2>4 DEF r
<1>3. ASSUME NEW k \in DOMAIN tasks, NEW b \in tasks[k].busy,
             StoreSource(k, b[1], b[2], b[3])
      PROVE  Same
  <2> DEFINE r == tasks[k]
             c == <<b[1], b[2], b[3]>>
  <2>1. tasks' = [tasks EXCEPT ![k] = Stores(r, c)]
    BY <1>3, Zenon DEF StoreSource, Set, Stores
  <2>2. Stores(r, c).op = r.op
    <3>1. r \in Tasks
      BY <1>0, TaskFields
    <3> QED
      BY <3>1 DEF Stores, Tasks
  <2>3. IsLoad(r)
    BY <1>0, TaskFields
  <2> HIDE DEF Same
  <2> QED
    BY <1>1, <2>1, <2>2, <2>3
<1> HIDE DEF Same
<1>4. Same /\ UNCHANGED <<appVars, pushes, mishaps>>
    BY <1>2, <1>3 DEF LoadStep
<1>5. Len(tasks') = Len(tasks)
  <2>1. PICK t : \E k \in DOMAIN tasks : tasks' = [tasks EXCEPT ![k] = t]
    BY <1>4 DEF Same
  <2> DEFINE S == Work \cup {t}
  <2>2. tasks \in Seq(S) /\ t \in S
    BY <1>0, SeqMonotonic
  <2> HIDE DEF S
  <2> QED
    BY <1>0, <2>1, <2>2, ExceptSeq
<1> QED
    BY <1>4, <1>5 DEF Same

(* The keys, but for those that begin a load, the answers and a restart. *)
Turn == \/ ToggleBlock \/ ToggleAllow \/ AttachRefused \/ StopSharing \/ Cancel
        \/ AnswerStep \/ Restart

(* They leave no task, or one that is no load, if nothing is cancelled. *)
LEMMA Turns ==
    ASSUME Sound, Single, Turn, "cancelled" \notin mishaps'
    PROVE  \/ tasks' = <<>>
           \/ \E t : /\ tasks' = <<t>>
                     /\ \/ pending' = "DetectingWan" /\ t.op = "wan"
                        \/ pending' = "ReloadingFirewall" /\ t.op \in {"on", "off"}
                        \/ pending' = "StoppingSharing" /\ t.op = "stop"
<1>0. Working /\ settings \in [Jobs -> Setting]
    BY DEF Sound, Kept
<1> DEFINE Few ==
        \/ tasks' = <<>>
        \/ \E t : /\ tasks' = <<t>>
                  /\ \/ pending' = "DetectingWan" /\ t.op = "wan"
                     \/ pending' = "ReloadingFirewall" /\ t.op \in {"on", "off"}
                     \/ pending' = "StoppingSharing" /\ t.op = "stop"
<1>1. ASSUME tasks' = <<>> PROVE Few
    BY <1>1
<1>2. ASSUME NEW t, tasks' = <<t>>,
             \/ pending' = "DetectingWan" /\ t.op = "wan"
             \/ pending' = "ReloadingFirewall" /\ t.op \in {"on", "off"}
             \/ pending' = "StoppingSharing" /\ t.op = "stop"
      PROVE  Few
    BY <1>2
<1>3. SUFFICES Few
    OBVIOUS
<1> HIDE DEF Few
<1>4. ASSUME NEW op \in {"wan", "on", "off", "stop"}
      PROVE  Spawn(<<>>, op) = <<[op |-> op, on |-> Switches, todo |-> {},
                                  busy |-> {}, got |-> {}]>>
  <2>1. [op |-> op, on |-> Switches, todo |-> {}, busy |-> {}, got |-> {}] \in Work
    BY <1>0, TasksBegin
  <2> QED
    BY <1>0, <2>1, OneTask DEF Spawn
<1>5. CASE ToggleBlock
  <2>1. tasks' = <<>>
    BY <1>0, <1>5, IdleHasNone DEF ToggleBlock, KeyReady
  <2> QED
    BY <1>1, <2>1
<1>6. CASE ToggleAllow
  <2>1. tasks = <<>>
    BY <1>0, <1>6, IdleHasNone DEF ToggleAllow, KeyReady
  <2>2. \/ tasks' = <<>>
        \/ pending' = "ReloadingFirewall" /\ tasks' = Spawn(<<>>, "off")
        \/ pending' = "ReloadingFirewall" /\ tasks' = Spawn(<<>>, "on")
        \/ pending' = "DetectingWan" /\ tasks' = Spawn(<<>>, "wan")
    BY <1>6, <2>1 DEF ToggleAllow
  <2> QED
    BY <1>1, <1>2, <1>4, <2>2
<1>7. CASE AttachRefused
  <2>1. tasks' = <<>>
    BY <1>0, <1>7, IdleHasNone DEF AttachRefused, KeyReady
  <2> QED
    BY <1>1, <2>1
<1>8. CASE Cancel
    BY <1>8 DEF Cancel
<1>9. CASE StopSharing
  <2>1. tasks = <<>>
    BY <1>0, <1>9, IdleHasNone DEF StopSharing, KeyReady
  <2> QED
    BY <1>2, <1>4, <1>9, <2>1 DEF StopSharing
<1>10. ASSUME NEW k \in DOMAIN tasks,
              \/ DiscardStale(k) \/ OnResolverStarted(k) \/ OnListsRefreshed(k)
              \/ OnWanDetected(k) \/ OnFirewallReloaded(k) \/ OnSharingStopped(k)
       PROVE  Few
  <2>1. mishaps \subseteq mishaps'
    BY <1>10 DEF DiscardStale, OnResolverStarted, OnListsRefreshed, OnWanDetected,
       OnFirewallReloaded, OnSharingStopped
  <2>2. Len(tasks) <= 1 /\ Awaited(tasks[k])
    BY <2>1 DEF Single
  <2>3. tasks[k] \in Work
    BY <1>0, TasksKeepWork
  <2>4. Without(k) = <<>>
    BY <1>0, <2>2, <2>3, OneTask
  <2>5. \/ tasks' = <<>>
        \/ pending' = "ReloadingFirewall" /\ tasks' = Spawn(<<>>, "on")
    BY <1>10, <2>4 DEF DiscardStale, OnResolverStarted, OnListsRefreshed, OnWanDetected,
       OnFirewallReloaded, OnSharingStopped
  <2> QED
    BY <1>1, <1>2, <1>4, <2>5
<1>11. CASE Restart
    BY <1>1, <1>11 DEF Restart
<1>12. CASE AnswerStep
  <2>1. PICK k \in DOMAIN tasks :
            \/ DiscardStale(k) \/ OnResolverStarted(k) \/ OnListsRefreshed(k)
            \/ OnWanDetected(k) \/ OnFirewallReloaded(k) \/ OnSharingStopped(k)
    BY <1>12 DEF AnswerStep
  <2> QED
    BY <1>10, <2>1
<1> QED
    BY <1>5, <1>6, <1>7, <1>8, <1>9, <1>11, <1>12 DEF Turn

(* An answer is the one of the only task, and leaves none or one. *)
LEMMA Answers ==
    ASSUME Sound, Single, "cancelled" \notin mishaps', NEW k \in DOMAIN tasks,
           \/ DiscardStale(k) \/ OnResolverStarted(k) \/ OnListsRefreshed(k)
           \/ OnWanDetected(k) \/ OnFirewallReloaded(k) \/ OnSharingStopped(k)
    PROVE  /\ k = 1 /\ tasks = <<tasks[1]>> /\ tasks[1] \in Work
           /\ Awaited(tasks[1]) /\ ~DiscardStale(k)
<1>1. mishaps \subseteq mishaps'
    BY DEF DiscardStale, OnResolverStarted, OnListsRefreshed, OnWanDetected,
       OnFirewallReloaded, OnSharingStopped
<1>2. Len(tasks) <= 1 /\ Awaited(tasks[k])
    BY <1>1 DEF Single
<1>3. tasks[k] \in Work /\ Working
    BY TasksKeepWork DEF Sound
<1>4. k = 1 /\ tasks = <<tasks[1]>>
    BY <1>2, <1>3, OneTask
<1>5. ~DiscardStale(k)
    BY <1>2 DEF DiscardStale, Stale, Awaited
<1> QED
    BY <1>2, <1>3, <1>4, <1>5

(* A load that is begun is by itself, if nothing is cancelled. *)
LEMMA LoadBegins ==
    ASSUME Sound, Single, Fetch \/ StartSharing, "cancelled" \notin mishaps',
           settings' \in [Jobs -> Setting]
    PROVE  /\ tasks = <<>>
           /\ "twice" \notin mishaps' => InBoth(settings') = {}
           /\ \E op \in {"start", "refresh", "view"} :
                  /\ tasks' = <<LoadOf(op, Switches, settings')>>
                  /\ op = "start" => /\ pending' = "StartingResolver"
                                     /\ UNCHANGED settings
                  /\ op # "start" => pending' = "RefreshingLists"
                  /\ op = "view" /\ "viewed" \notin mishaps' => ~sharing'
<1>0. /\ Working /\ settings \in [Jobs -> Setting]
      /\ \A op \in {"start", "refresh", "view"}, sets \in [Jobs -> Setting] :
             LoadOf(op, Switches, sets) \in Work
    BY TasksBegin DEF Sound, Kept
<1>1. CASE Fetch
  <2>1. PICK applied \in {sharing, FALSE} :
            /\ tasks' = Append(tasks, LoadOf(Op(applied), Switches, settings'))
            /\ mishaps' = Noticed(settings', applied)
            /\ pending = "none" /\ pending' = "RefreshingLists"
            /\ UNCHANGED sharing
    BY <1>1, Fetches
  <2>2. tasks = <<>>
    BY <1>0, <2>1, FetchesAlone
  <2>3. /\ Op(applied) \in {"refresh", "view"}
        /\ Op(applied) = "view" => ~applied
    BY DEF Op
  <2> DEFINE t == LoadOf(Op(applied), Switches, settings')
  <2>4. t \in Work
    BY <1>0, <2>3
  <2> HIDE DEF t
  <2>5. tasks' = <<t>>
    BY <1>0, <2>1, <2>2, <2>4, OneTask DEF t
  <2>6. /\ "twice" \notin mishaps' => InBoth(settings') = {}
        /\ "viewed" \notin mishaps' /\ ~applied => ~sharing'
    BY <2>1 DEF Noticed
  <2> QED
    BY <2>1, <2>2, <2>3, <2>5, <2>6 DEF t
<1>2. CASE StartSharing
  <2>1. /\ tasks' = Append(tasks, LoadOf("start", Switches, settings))
        /\ mishaps' = Noticed(settings, TRUE)
        /\ pending = "none" /\ pending' = "StartingResolver"
        /\ settings' = settings
    BY <1>2 DEF StartSharing, SpawnLoad, LoadOf, KeyReady
  <2>2. tasks = <<>>
    BY <1>0, <2>1, FetchesAlone
  <2> DEFINE t == LoadOf("start", Switches, settings)
  <2>4. t \in Work
    BY <1>0
  <2> HIDE DEF t
  <2>5. tasks' = <<t>>
    BY <1>0, <2>1, <2>2, <2>4, OneTask DEF t
  <2>6. "twice" \notin mishaps' => InBoth(settings') = {}
    BY <2>1 DEF Noticed
  <2> QED
    BY <2>1, <2>2, <2>5, <2>6 DEF t
<1> QED
    BY <1>1, <1>2

(* The other steps leave the tasks, but for a load that goes on. *)
Rest == PushStep \/ Age \/ (\E u \in Urls : Publish(u)) \/ UNCHANGED vars

(* What they leave. *)
LEMMA Rests ==
    ASSUME Rest
    PROVE  UNCHANGED <<settings, file, cache, sharing, pending, tasks>>
           /\ mishaps \subseteq mishaps'
<1>1. CASE PushStep
    BY <1>1 DEF PushStep, ApplyPush, diskVars
<1>2. CASE Age \/ (\E u \in Urls : Publish(u)) \/ UNCHANGED vars
    BY <1>2 DEF Age, Publish, vars, appVars, diskVars
<1> QED
    BY <1>1, <1>2 DEF Rest

(* Every step is one of these. *)
LEMMA StepKinds ==
    ASSUME [Next]_vars
    PROVE  Turn \/ Fetch \/ StartSharing \/ LoadStep \/ Rest
    BY Keys DEF Next, Turn, Rest, WorldStep

(* As long as nothing was cancelled there is one task, which is awaited. *)
LEMMA SingleStep ==
    ASSUME Sound, Single, [Next]_vars
    PROVE  Single'
<1>0. /\ Working /\ settings' \in [Jobs -> Setting]
      /\ Len(<<>>) = 0 /\ DOMAIN <<>> = {}
    BY SoundStep DEF Sound, Kept
<1>1. SUFFICES ASSUME "cancelled" \notin mishaps' PROVE Single'
    BY DEF Single
<1>2. ASSUME NEW t, tasks' = <<t>>,
             \/ pending' = "StartingResolver" /\ t.op = "start"
             \/ pending' = "RefreshingLists" /\ t.op \in {"refresh", "view"}
             \/ pending' = "DetectingWan" /\ t.op = "wan"
             \/ pending' = "ReloadingFirewall" /\ t.op \in {"on", "off"}
             \/ pending' = "StoppingSharing" /\ t.op = "stop"
      PROVE  Single'
    BY <1>2 DEF Single, Awaited
<1>3. CASE Turn
  <2>1. ASSUME tasks' = <<>> PROVE Single'
    BY <1>0, <2>1 DEF Single
  <2> QED
    BY <1>1, <1>2, <1>3, <2>1, Turns
<1>4. CASE Fetch \/ StartSharing
  <2>1. \A op, sets : LoadOf(op, Switches, sets).op = op
    BY DEF LoadOf
  <2> QED
    BY <1>0, <1>1, <1>2, <1>4, <2>1, LoadBegins
<1>5. CASE LoadStep
    BY <1>0, <1>5, LoadIsTask DEF Single, Awaited, appVars
<1>6. CASE Rest
    BY <1>1, <1>6, Rests DEF Single, Awaited
<1> QED
    BY <1>3, <1>4, <1>5, <1>6, StepKinds

-----------------------------------------------------------------------------
(* A load by itself.                                                       *)

(* It tracks the cache when it begins, *)
LEMMA TracksBegin ==
    ASSUME NEW op, NEW on, NEW sets, NEW disk, InBoth(sets) = {},
           op = "start" => \A j \in Jobs : on[j] = sets[j].enabled
    PROVE  TracksIn(LoadOf(op, on, sets), sets, disk)
<1> DEFINE t == LoadOf(op, on, sets)
<1>1. /\ t.op = op /\ t.on = on /\ t.busy = {} /\ t.got = {}
      /\ t.todo = UNION {{j} \X EnabledUrls(sets[j]) : j \in Jobs}
    BY DEF LoadOf
<1> HIDE DEF t
<1>2. Ahead(t) = t.todo
    BY <1>1 DEF Ahead
<1>3. \A p \in t.todo : p[2] \in EnabledUrls(sets[p[1]])
    BY <1>1
<1>4. \A j \in Jobs, u \in Urls : u \in EnabledUrls(sets[j]) => <<j, u>> \in t.todo
    BY <1>1
<1>5. TracksIn(t, sets, disk)
    BY <1>1, <1>2, <1>3, <1>4 DEF TracksIn
<1> QED
    BY <1>5 DEF t

(* The parts of a load that is through with a source, or downloads it. *)
LEMMA LoadFields ==
    ASSUME NEW t \in Tasks, NEW p, NEW b
    PROVE  /\ LET r == Begins(t, p, b)
              IN  /\ r.op = t.op /\ r.on = t.on /\ r.todo = t.todo \ {p}
                  /\ r.busy = t.busy \cup {b} /\ r.got = t.got
           /\ LET r == Has(t, p, b)
              IN  /\ r.op = t.op /\ r.on = t.on /\ r.todo = t.todo \ {p}
                  /\ r.busy = t.busy /\ r.got = t.got \cup {b}
    BY DEF TodoLess, Begins, Has, Tasks

(* when it reads a source that there is no cache of, *)
LEMMA TracksWithout ==
    ASSUME NEW t \in Tasks, NEW sets, NEW disk, TracksIn(t, sets, disk),
           NEW p, p \in t.todo, disk[p[2]] = None
    PROVE  TracksIn(TodoLess(t, p), sets, disk)
<1> DEFINE r == TodoLess(t, p)
<1>1. /\ r.op = t.op /\ r.on = t.on /\ r.todo = t.todo \ {p}
      /\ r.busy = t.busy /\ r.got = t.got
    BY DEF TodoLess, Tasks
<1>2. p \in Jobs \X Urls /\ p = <<p[1], p[2]>>
    BY DEF Tasks
<1> HIDE DEF r
<1>3. Ahead(r) = Ahead(t) \ {p}
    BY <1>1, <1>2 DEF Ahead, TracksIn
<1>4. p \in Ahead(t)
    BY DEF Ahead
<1>5. \A j \in Jobs, u \in Urls, v \in Versions :
          <<j, u, v>> \in r.got <=> /\ u \in EnabledUrls(sets[j])
                                    /\ <<j, u>> \notin Ahead(r)
                                    /\ disk[u] = v
  <2> SUFFICES ASSUME NEW j \in Jobs, NEW u \in Urls, NEW v \in Versions
               PROVE  <<j, u, v>> \in r.got <=> /\ u \in EnabledUrls(sets[j])
                                                /\ <<j, u>> \notin Ahead(r)
                                                /\ disk[u] = v
    OBVIOUS
  <2>1. <<j, u, v>> \in t.got <=> /\ u \in EnabledUrls(sets[j])
                                  /\ <<j, u>> \notin Ahead(t)
                                  /\ disk[u] = v
    BY DEF TracksIn
  <2>2. CASE <<j, u>> = p
    <3>1. disk[u] # v
      BY <2>2, Constants
    <3> QED
      BY <1>1, <2>1, <3>1
  <2>3. CASE <<j, u>> # p
    BY <1>1, <1>3, <2>1, <2>3
  <2> QED
    BY <2>2, <2>3
<1>6. TracksIn(r, sets, disk)
    BY <1>1, <1>3, <1>5 DEF TracksIn
<1> QED
    BY <1>6 DEF r

(* when it takes the cache that there is, *)
LEMMA TracksHas ==
    ASSUME NEW t \in Tasks, NEW sets, NEW disk, TracksIn(t, sets, disk),
           NEW p, p \in t.todo
    PROVE  TracksIn(Has(t, p, <<p[1], p[2], disk[p[2]]>>), sets, disk)
<1> DEFINE g == <<p[1], p[2], disk[p[2]]>>
           r == Has(t, p, g)
<1>1. /\ r.op = t.op /\ r.on = t.on /\ r.todo = t.todo \ {p}
      /\ r.busy = t.busy /\ r.got = t.got \cup {g}
    BY LoadFields
<1>2. p \in Jobs \X Urls /\ p = <<p[1], p[2]>>
    BY DEF Tasks
<1> HIDE DEF r
<1>3. Ahead(r) = Ahead(t) \ {p}
    BY <1>1, <1>2 DEF Ahead, TracksIn
<1>4. p \in Ahead(t) /\ p[2] \in EnabledUrls(sets[p[1]])
    BY DEF Ahead, TracksIn
<1>5. \A j \in Jobs, u \in Urls, v \in Versions :
          <<j, u, v>> \in r.got <=> /\ u \in EnabledUrls(sets[j])
                                    /\ <<j, u>> \notin Ahead(r)
                                    /\ disk[u] = v
  <2> SUFFICES ASSUME NEW j \in Jobs, NEW u \in Urls, NEW v \in Versions
               PROVE  <<j, u, v>> \in r.got <=> /\ u \in EnabledUrls(sets[j])
                                                /\ <<j, u>> \notin Ahead(r)
                                                /\ disk[u] = v
    OBVIOUS
  <2>1. <<j, u, v>> \in t.got <=> /\ u \in EnabledUrls(sets[j])
                                  /\ <<j, u>> \notin Ahead(t)
                                  /\ disk[u] = v
    BY DEF TracksIn
  <2>2. CASE <<j, u>> = p
    <3>1. /\ p[1] = j /\ p[2] = u
      BY <2>2
    <3>2. <<j, u, v>> = g <=> disk[u] = v
      BY <3>1
    <3>3. <<j, u>> \notin Ahead(r) /\ <<j, u>> \in Ahead(t) /\ u \in EnabledUrls(sets[j])
      BY <1>3, <1>4, <2>2, <3>1
    <3> HIDE DEF g
    <3> QED
      BY <1>1, <2>1, <3>2, <3>3
  <2>3. CASE <<j, u>> # p
    <3>1. <<j, u, v>> # g
      BY <1>2, <2>3
    <3> HIDE DEF g
    <3> QED
      BY <1>1, <1>3, <2>1, <2>3, <3>1
  <2> QED
    BY <2>2, <2>3
<1>6. TracksIn(r, sets, disk)
    BY <1>1, <1>3, <1>5 DEF TracksIn
<1> QED
    BY <1>6 DEF r

(* when it downloads what is newer, *)
LEMMA TracksBegins ==
    ASSUME NEW t \in Tasks, NEW sets, NEW disk, TracksIn(t, sets, disk),
           NEW p, p \in t.todo, NEW v, disk[p[2]] # None => disk[p[2]] <= v
    PROVE  TracksIn(Begins(t, p, <<p[1], p[2], v>>), sets, disk)
<1> DEFINE b == <<p[1], p[2], v>>
           r == Begins(t, p, b)
<1>1. /\ r.op = t.op /\ r.on = t.on /\ r.todo = t.todo \ {p}
      /\ r.busy = t.busy \cup {b} /\ r.got = t.got
    BY LoadFields
<1>2. p \in Jobs \X Urls /\ p = <<p[1], p[2]>>
    BY DEF Tasks
<1>3. b[1] = p[1] /\ b[2] = p[2] /\ b[3] = v
    OBVIOUS
<1> HIDE DEF r, b
<1>4. Ahead(r) = Ahead(t)
    BY <1>1, <1>2, <1>3 DEF Ahead
<1>5. \A c \in t.busy : ~(c[1] = b[1] /\ c[2] = b[2])
    BY <1>2, <1>3 DEF TracksIn
<1>6. \A c \in r.busy :
          /\ <<c[1], c[2]>> \notin r.todo
          /\ disk[c[2]] # None => disk[c[2]] <= c[3]
          /\ \A d \in r.busy : d[1] = c[1] /\ d[2] = c[2] => d = c
    BY <1>1, <1>2, <1>3, <1>5 DEF TracksIn
<1>7. TracksIn(r, sets, disk)
    BY <1>1, <1>4, <1>6 DEF TracksIn
<1> QED
    BY <1>7 DEF r, b

(* and when it puts that into the cache. *)
LEMMA TracksStores ==
    ASSUME NEW t \in Tasks, NEW sets, NEW disk \in [Urls -> Versions \cup {None}],
           TracksIn(t, sets, disk), NEW b, b \in t.busy
    PROVE  TracksIn(Stores(t, b), sets, [disk EXCEPT ![b[2]] = b[3]])
<1> DEFINE r == Stores(t, b)
           new == [disk EXCEPT ![b[2]] = b[3]]
           q == <<b[1], b[2]>>
<1>1. /\ r.op = t.op /\ r.on = t.on /\ r.todo = t.todo
      /\ r.busy = t.busy \ {b} /\ r.got = t.got \cup {b}
    BY DEF Stores, Tasks
<1>2. /\ b \in Jobs \X Urls \X Versions /\ b = <<b[1], b[2], b[3]>>
      /\ b[1] \in Jobs /\ b[2] \in Urls /\ b[3] \in Versions
      /\ \A c \in t.busy : /\ c[1] \in Jobs /\ c[2] \in Urls
                           /\ c \in Jobs \X Urls \X Versions
    BY DEF Tasks
<1>3. \A u \in Urls : new[u] = IF u = b[2] THEN b[3] ELSE disk[u]
    BY <1>2
<1> HIDE DEF r, new
<1>4. /\ q \in Ahead(t) /\ q \notin t.todo
      /\ \A c \in t.busy : c # b => <<c[1], c[2]>> # q
    BY DEF Ahead, TracksIn
<1>5. Ahead(r) = Ahead(t) \ {q}
    BY <1>1, <1>4 DEF Ahead
<1>6. \A p \in Ahead(t) : p[2] \in EnabledUrls(sets[p[1]])
    BY DEF TracksIn
<1>7. b[2] \in EnabledUrls(sets[b[1]])
    BY <1>4, <1>6
<1>8. \A j \in Jobs : b[2] \in EnabledUrls(sets[j]) => j = b[1]
  <2>1. EnabledUrls(sets["block"]) \cap EnabledUrls(sets["allow"]) = {}
    BY DEF TracksIn, InBoth
  <2> QED
    BY <1>2, <1>7, <2>1 DEF Jobs
<1>9. ASSUME NEW c \in r.busy
      PROVE  /\ <<c[1], c[2]>> \notin r.todo
             /\ new[c[2]] # None => new[c[2]] <= c[3]
             /\ \A d \in r.busy : d[1] = c[1] /\ d[2] = c[2] => d = c
  <2>1. /\ c \in t.busy /\ <<c[1], c[2]>> # q /\ <<c[1], c[2]>> \notin t.todo
        /\ disk[c[2]] # None => disk[c[2]] <= c[3]
        /\ \A d \in r.busy : d[1] = c[1] /\ d[2] = c[2] => d = c
    BY <1>1, <1>4 DEF TracksIn
  <2>2. <<c[1], c[2]>> \in Ahead(t)
    BY <2>1 DEF Ahead
  <2>3. c[2] \in EnabledUrls(sets[c[1]])
    BY <1>6, <2>2
  <2>4. c[2] # b[2]
    BY <1>2, <1>8, <2>1, <2>3
  <2> QED
    BY <1>1, <1>2, <1>3, <2>1, <2>4
<1>10. ASSUME NEW j \in Jobs, NEW u \in Urls, NEW v \in Versions
       PROVE  <<j, u, v>> \in r.got <=> /\ u \in EnabledUrls(sets[j])
                                        /\ <<j, u>> \notin Ahead(r)
                                        /\ new[u] = v
  <2>1. <<j, u, v>> \in t.got <=> /\ u \in EnabledUrls(sets[j])
                                  /\ <<j, u>> \notin Ahead(t)
                                  /\ disk[u] = v
    BY DEF TracksIn
  <2>2. CASE <<j, u>> = q
    <3>1. j = b[1] /\ u = b[2]
      BY <2>2
    <3>2. <<j, u, v>> = b <=> b[3] = v
      BY <1>2, <3>1
    <3>3. new[u] = b[3] /\ u \in EnabledUrls(sets[j]) /\ <<j, u>> \notin Ahead(r)
          /\ <<j, u, v>> \notin t.got
      BY <1>3, <1>4, <1>5, <1>7, <2>1, <2>2, <3>1
    <3> QED
      BY <1>1, <3>2, <3>3
  <2>3. CASE <<j, u>> # q
    <3>1. <<j, u, v>> # b
      BY <2>3
    <3>2. <<j, u>> \notin Ahead(r) <=> <<j, u>> \notin Ahead(t)
      BY <1>5, <2>3
    <3>3. u \in EnabledUrls(sets[j]) => new[u] = disk[u]
      <4>1. u = b[2] => j # b[1]
        BY <2>3
      <4> QED
        BY <1>3, <1>8, <4>1
    <3> QED
      BY <1>1, <2>1, <3>1, <3>2, <3>3
  <2> QED
    BY <2>2, <2>3
<1>11. \A p \in Ahead(r) : p[2] \in EnabledUrls(sets[p[1]])
    BY <1>5, <1>6
<1>12. InBoth(sets) = {} /\ (r.op = "start" => \A j \in Jobs : r.on[j] = sets[j].enabled)
    BY <1>1 DEF TracksIn
<1>13. TracksIn(r, sets, new)
    BY <1>9, <1>10, <1>11, <1>12 DEF TracksIn
<1> QED
    BY <1>13 DEF r, new

(* A load that goes on keeps track. *)
LEMMA LoadTracks ==
    ASSUME Sound, Single, Loading, LoadStep,
           mishaps \cap {"cancelled", "twice"} = {}
    PROVE  /\ \A k \in DOMAIN tasks' : IsLoad(tasks'[k]) =>
                  TracksIn(tasks'[k], settings', cache')
           /\ \A u \in Urls : cache[u] # None => cache'[u] >= cache[u]
<1>0. /\ Disk /\ Working /\ Len(tasks) <= 1
      /\ \A k \in DOMAIN tasks : tasks[k] \in Work /\ tasks[k] \in Tasks
      /\ \A u \in Urls : cache[u] # None => cache[u] \in Nat
  <2>1. \A k \in DOMAIN tasks : tasks[k] \in Work
    BY TasksKeepWork DEF Sound
  <2> QED
    BY <2>1, Constants DEF Sound, Single, Work, Disk
<1>1. UNCHANGED settings
    BY DEF LoadStep, appVars
<1>2. ASSUME NEW k \in DOMAIN tasks, NEW t, TracksIn(t, settings, cache'),
             tasks' = [tasks EXCEPT ![k] = t]
      PROVE  \A i \in DOMAIN tasks' : IsLoad(tasks'[i]) =>
                 TracksIn(tasks'[i], settings', cache')
  <2>1. \A i \in DOMAIN tasks : i = k
    <3>1. \A i \in DOMAIN tasks : i = 1
      BY <1>0, OneTask
    <3> QED
      BY <3>1
  <2>2. \A i \in DOMAIN tasks' : tasks'[i] = t
    BY <1>2, <2>1
  <2> QED
    BY <1>1, <1>2, <2>2
<1>3. ASSUME NEW k \in DOMAIN tasks, NEW p \in tasks[k].todo,
             ReadSource(k, p[1], p[2]), UNCHANGED diskVars
      PROVE  /\ \A i \in DOMAIN tasks' : IsLoad(tasks'[i]) =>
                    TracksIn(tasks'[i], settings', cache')
             /\ \A u \in Urls : cache[u] # None => cache'[u] >= cache[u]
  <2> DEFINE t == tasks[k]
  <2>1. /\ t \in Tasks /\ IsLoad(t) /\ p \in Jobs \X Urls /\ p = <<p[1], p[2]>>
    BY <1>0, TaskFields
  <2>2. TracksIn(t, settings, cache) /\ UNCHANGED cache
    BY <1>3, <2>1 DEF Loading, diskVars
  <2>3. cache[p[2]] # None => cache[p[2]] <= remote[p[2]]
    BY <1>0, <2>1 DEF Disk
  <2>4. \/ tasks' = [tasks EXCEPT ![k] = Has(t, p, <<p[1], p[2], cache[p[2]]>>)]
        \/ tasks' = [tasks EXCEPT ![k] = Begins(t, p, <<p[1], p[2], remote[p[2]]>>)]
        \/ cache[p[2]] = None /\ tasks' = [tasks EXCEPT ![k] = TodoLess(t, p)]
    BY <1>3, <2>1, Reads
  <2> HIDE DEF t
  <2>5. p \in t.todo
    BY DEF t
  <2>6. /\ TracksIn(Has(t, p, <<p[1], p[2], cache[p[2]]>>), settings, cache)
        /\ TracksIn(Begins(t, p, <<p[1], p[2], remote[p[2]]>>), settings, cache)
        /\ cache[p[2]] = None => TracksIn(TodoLess(t, p), settings, cache)
    BY <2>1, <2>2, <2>3, <2>5, TracksHas, TracksBegins, TracksWithout
  <2>7. \A u \in Urls : cache[u] # None => cache'[u] >= cache[u]
    BY <1>0, <2>2
  <2> QED
    BY <1>2, <2>2, <2>4, <2>6, <2>7
<1>4. ASSUME NEW k \in DOMAIN tasks, NEW b \in tasks[k].busy,
             StoreSource(k, b[1], b[2], b[3])
      PROVE  /\ \A i \in DOMAIN tasks' : IsLoad(tasks'[i]) =>
                    TracksIn(tasks'[i], settings', cache')
             /\ \A u \in Urls : cache[u] # None => cache'[u] >= cache[u]
  <2> DEFINE t == tasks[k]
  <2>1. /\ t \in Tasks /\ IsLoad(t) /\ b \in Jobs \X Urls \X Versions
        /\ b = <<b[1], b[2], b[3]>>
    BY <1>0, TaskFields
  <2>2. TracksIn(t, settings, cache)
    BY <1>3, <2>1 DEF Loading
  <2>3. /\ tasks' = [tasks EXCEPT ![k] = Stores(t, <<b[1], b[2], b[3]>>)]
        /\ cache' = [cache EXCEPT ![b[2]] = b[3]]
    BY <1>4, Zenon DEF StoreSource, Set, Stores
  <2>4. tasks' = [tasks EXCEPT ![k] = Stores(t, b)]
    BY <2>1, <2>3
  <2> HIDE DEF t
  <2>5. b \in t.busy /\ cache \in [Urls -> Versions \cup {None}]
    BY <1>0 DEF t, Disk
  <2>6. TracksIn(Stores(t, b), settings, cache')
    BY <2>1, <2>2, <2>3, <2>5, TracksStores
  <2>7. ASSUME NEW u \in Urls, cache[u] # None PROVE cache'[u] >= cache[u]
    <3>1. b[2] = u => cache[u] <= b[3]
      BY <2>2, <2>5, <2>7 DEF TracksIn
    <3>2. b[3] \in Nat /\ cache[u] \in Nat
      BY <1>0, <2>1, <2>7, Constants
    <3>3. cache'[u] = IF u = b[2] THEN b[3] ELSE cache[u]
      BY <2>3, <2>5
    <3> QED
      BY <3>1, <3>2, <3>3
  <2> QED
    BY <1>2, <2>4, <2>6, <2>7
<1> QED
    BY <1>3, <1>4 DEF LoadStep

(* A load that is by itself goes on tracking the cache. *)
LEMMA LoadingStep ==
    ASSUME Sound, Single, Loading, [Next]_vars
    PROVE  Loading'
<1>0. settings' \in [Jobs -> Setting] /\ settings \in [Jobs -> Setting]
    BY SoundStep DEF Sound, Kept
<1>1. SUFFICES ASSUME mishaps' \cap {"cancelled", "twice"} = {},
                      NEW k \in DOMAIN tasks', IsLoad(tasks'[k])
               PROVE  TracksIn(tasks'[k], settings', cache')
    BY DEF Loading, IsLoad
<1>2. CASE Turn
  <2>1. \A t : DOMAIN <<t>> = {1} /\ <<t>>[1] = t
    OBVIOUS
  <2>2. DOMAIN <<>> = {}
    OBVIOUS
  <2>3. ~IsLoad(tasks'[k])
    BY <1>1, <1>2, <2>1, <2>2, Turns DEF IsLoad
  <2> QED
    BY <1>1, <2>3
<1>3. CASE Fetch \/ StartSharing
  <2>1. PICK op \in {"start", "refresh", "view"} :
            /\ tasks' = <<LoadOf(op, Switches, settings')>>
            /\ op = "start" => UNCHANGED settings
    BY <1>0, <1>1, <1>3, LoadBegins
  <2>2. InBoth(settings') = {}
    BY <1>0, <1>1, <1>3, LoadBegins
  <2> DEFINE t == LoadOf(op, Switches, settings')
             sets == settings'
             disk == cache'
             on == Switches
  <2>3. op = "start" => \A j \in Jobs : on[j] = sets[j].enabled
    BY <1>0, <2>1, SwitchTypes
  <2>4. InBoth(sets) = {}
    BY <2>2
  <2>5. k = 1 /\ tasks'[k] = t
    BY <2>1
  <2>6. t = LoadOf(op, on, sets)
    OBVIOUS
  <2> HIDE DEF t, sets, disk, on
  <2>8. TracksIn(t, sets, disk)
    BY <2>3, <2>4, <2>6, TracksBegin
  <2> QED
    BY <2>5, <2>8 DEF sets, disk
<1>4. CASE LoadStep
  <2>1. UNCHANGED mishaps
    BY <1>4 DEF LoadStep
  <2> QED
    BY <1>1, <1>4, <2>1, LoadTracks
<1>5. CASE Rest
  <2>1. UNCHANGED <<settings, cache, tasks>> /\ mishaps \subseteq mishaps'
    BY <1>5, Rests
  <2>2. TracksIn(tasks[k], settings, cache)
    BY <1>1, <2>1 DEF Loading, IsLoad
  <2> QED
    BY <2>1, <2>2
<1> QED
    BY <1>2, <1>3, <1>4, <1>5, StepKinds

(* A list that was published longer ago is not put over a newer one that   *)
(* the cache already has, unless a load was cancelled or a URL is in both  *)
(* jobs: what a load has downloaded is newer than the cache as long as it  *)
(* is the only one that writes there.                                      *)
THEOREM CacheOnlyGrows == Spec => CacheOnlyAdvances
<1> DEFINE I == Sound /\ Single /\ Loading
           Grows == \A u \in Urls :
                       cache[u] # None /\ mishaps \cap {"cancelled", "twice"} = {}
                           => cache'[u] >= cache[u]
<1>1. Init => I
  <2> SUFFICES ASSUME Init PROVE I
    OBVIOUS
  <2>1. Sound
    BY SoundInit
  <2>2. tasks = <<>>
    BY DEF Init
  <2>3. Single /\ Loading
    BY <2>2 DEF Single, Loading
  <2> QED
    BY <2>1, <2>3
<1>2. I /\ [Next]_vars => I'
    BY SoundStep, SingleStep, LoadingStep
<1>3. I /\ [Next]_vars => [Grows]_vars
  <2> SUFFICES ASSUME I, [Next]_vars, NEW u \in Urls, cache[u] # None,
                      mishaps \cap {"cancelled", "twice"} = {}
               PROVE  cache'[u] >= cache[u]
    OBVIOUS
  <2>1. CASE LoadStep
    BY <2>1, LoadTracks
  <2>2. CASE ~LoadStep
    <3>1. UNCHANGED cache
      <4>1. AnswerStep => UNCHANGED cache
        BY DEF AnswerStep, DiscardStale, OnResolverStarted, OnListsRefreshed,
           OnWanDetected, OnFirewallReloaded, OnSharingStopped, diskVars
      <4>2. ToggleBlock \/ ToggleAllow \/ AttachRefused \/ StopSharing \/ Cancel
                \/ Restart => UNCHANGED cache
        BY DEF ToggleBlock, ToggleAllow, AttachRefused, StopSharing, Cancel, Restart,
           diskVars
      <4>3. Fetch \/ StartSharing => UNCHANGED cache
        BY Fetches DEF StartSharing, diskVars
      <4> QED
        BY <2>2, <4>1, <4>2, <4>3, StepKinds, Rests DEF Turn
    <3>2. cache[u] \in Nat
      BY Constants DEF Sound, Disk
    <3> QED
      BY <3>1, <3>2
  <2> QED
    BY <2>1, <2>2
<1> QED
    BY <1>1, <1>2, <1>3, PTL DEF Spec, CacheOnlyAdvances

-----------------------------------------------------------------------------
(* What the resolver serves.                                               *)

(* A push without lists leaves them, and sets the switches. *)
LEMMA SwitchesPushed ==
    ASSUME Answering, UNCHANGED resolver,
           NEW on \in [Jobs -> BOOLEAN],
           pushes' = Append(pushes, [set |-> [j \in Jobs |-> None], on |-> on])
    PROVE  /\ LastOn' = on
           /\ \A j \in Jobs, bodies \in SUBSET Bodies :
                  Serves(resolver, pushes, j, bodies) =>
                      Serves(resolver', pushes', j, bodies)
<1> DEFINE p == [set |-> [j \in Jobs |-> None], on |-> on]
           n == Len(pushes)
<1>1. p \in Pushed /\ p.on = on /\ \A j \in Jobs : p.set[j] = None
    BY DEF Pushed
<1> HIDE DEF p
<1>2. pushes \in Seq(Pushed) /\ pushes' = Append(pushes, p)
    BY DEF Answering, p
<1>3. /\ n \in Nat /\ DOMAIN pushes = 1..n
      /\ Len(pushes') = n + 1 /\ pushes' # <<>> /\ pushes' \in Seq(Pushed)
      /\ \A i \in 1..n : pushes'[i] = pushes[i]
      /\ pushes'[n + 1] = p
    BY <1>1, <1>2, LenProperties, AppendProperties
<1>4. DOMAIN pushes' = 1..n + 1
    BY <1>3, LenProperties
<1>5. LastOn' = on
    BY <1>1, <1>3 DEF LastOn
<1> HIDE DEF n
<1>6. ASSUME NEW j \in Jobs, NEW bodies \in SUBSET Bodies,
             Serves(resolver, pushes, j, bodies)
      PROVE  Serves(resolver', pushes', j, bodies)
  <2>1. CASE /\ resolver.set[j] = bodies
             /\ \A i \in DOMAIN pushes : pushes[i].set[j] = None
    <3>1. ASSUME NEW i \in 1..n + 1 PROVE pushes'[i].set[j] = None
      <4>1. CASE i \in 1..n
        BY <1>3, <2>1, <4>1
      <4>2. CASE i = n + 1
        BY <1>1, <1>3, <4>2
      <4> QED
        BY <1>3, <4>1, <4>2
    <3> QED
      BY <1>4, <2>1, <3>1 DEF Serves
  <2>2. ASSUME NEW i \in DOMAIN pushes, pushes[i].set[j] = bodies,
               \A k \in DOMAIN pushes : k > i => pushes[k].set[j] = None
        PROVE  Serves(resolver', pushes', j, bodies)
    <3>1. i \in 1..n /\ i \in 1..n + 1 /\ pushes'[i].set[j] = bodies
      BY <1>3, <2>2
    <3>2. ASSUME NEW k \in 1..n + 1, k > i PROVE pushes'[k].set[j] = None
      <4>1. CASE k \in 1..n
        BY <1>3, <2>2, <3>2, <4>1
      <4>2. CASE k = n + 1
        BY <1>1, <1>3, <4>2
      <4> QED
        BY <1>3, <4>1, <4>2
    <3> QED
      BY <1>4, <3>1, <3>2 DEF Serves
  <2> QED
    BY <1>6, <2>1, <2>2 DEF Serves
<1> QED
    BY <1>5, <1>6

(* A push with lists brings them. *)
LEMMA ListsPushed ==
    ASSUME Answering, NEW sets \in [Jobs -> SUBSET Bodies],
           NEW on \in [Jobs -> BOOLEAN],
           pushes' = Append(pushes, [set |-> sets, on |-> on])
    PROVE  /\ LastOn' = on
           /\ \A j \in Jobs : Serves(resolver', pushes', j, sets[j])
<1> DEFINE p == [set |-> sets, on |-> on]
           n == Len(pushes)
<1>1. p \in Pushed /\ p.on = on /\ p.set = sets
    BY DEF Pushed
<1> HIDE DEF p
<1>2. pushes \in Seq(Pushed) /\ pushes' = Append(pushes, p)
    BY DEF Answering, p
<1>3. /\ n \in Nat /\ Len(pushes') = n + 1 /\ pushes' # <<>> /\ pushes' \in Seq(Pushed)
      /\ pushes'[n + 1] = p
    BY <1>1, <1>2, LenProperties, AppendProperties
<1>4. DOMAIN pushes' = 1..n + 1
    BY <1>3, LenProperties
<1>5. LastOn' = on
    BY <1>1, <1>3 DEF LastOn
<1> HIDE DEF n
<1>6. ASSUME NEW j \in Jobs PROVE Serves(resolver', pushes', j, sets[j])
  <2>1. n + 1 \in 1..n + 1 /\ \A k \in 1..n + 1 : ~(k > n + 1)
    BY <1>3
  <2>2. pushes'[n + 1].set[j] = sets[j]
    BY <1>1, <1>3
  <2> QED
    BY <1>4, <2>1, <2>2 DEF Serves
<1> QED
    BY <1>5, <1>6

(* The first push, when it gets the lock, brings nothing that the pushes   *)
(* were not to bring.                                                      *)
LEMMA FirstApplied ==
    ASSUME Answering, 1 \in DOMAIN pushes, ApplyPush(1)
    PROVE  /\ LastOn' = LastOn
           /\ \A j \in Jobs, bodies \in SUBSET Bodies :
                  Serves(resolver, pushes, j, bodies) =>
                      Serves(resolver', pushes', j, bodies)
<1> DEFINE n == Len(pushes)
<1>1. /\ pushes \in Seq(Pushed) /\ n \in Nat /\ DOMAIN pushes = 1..n
    BY LenProperties DEF Answering
<1>2. /\ resolver'.on = pushes[1].on
      /\ \A j \in Jobs : resolver'.set[j] = IF pushes[1].set[j] = None
                                            THEN resolver.set[j]
                                            ELSE pushes[1].set[j]
      /\ pushes' = RemoveAt(pushes, 1)
    BY PushApplies DEF ApplyPush
<1>3. /\ pushes' \in Seq(Pushed) /\ Len(pushes') = n - 1
      /\ \A k \in 1..n - 1 : pushes'[k] = IF k < 1 THEN pushes[k] ELSE pushes[k + 1]
    BY <1>1, <1>2, RemoveAtKeeps
<1>4. DOMAIN pushes' = 1..n - 1 /\ (pushes' # <<>> => Len(pushes') \in Nat \ {0})
    BY <1>3, LenProperties, EmptySeq
<1>5. Len(pushes') = 0 => pushes' = <<>>
    BY <1>3, EmptySeq
<1>6. pushes # <<>> /\ Len(<<>>) = 0
    BY <1>1, EmptySeq
<1> DEFINE m == Len(pushes')
<1>7. /\ LastOn = pushes[n].on
      /\ LastOn' = IF pushes' = <<>> THEN resolver'.on ELSE pushes'[m].on
    BY <1>6 DEF LastOn
<1>8. /\ m = n - 1 /\ 1 \in 1..n
      /\ pushes' = <<>> => m = 0
      /\ pushes' # <<>> => m \in Nat \ {0}
    BY <1>1, <1>3, <1>4, <1>6
<1> HIDE DEF n, m
<1>9. \A k \in 1..n - 1 : pushes'[k] = pushes[k + 1]
  <2> SUFFICES ASSUME NEW k \in 1..n - 1 PROVE pushes'[k] = pushes[k + 1]
    OBVIOUS
  <2>1. ~(k < 1)
    BY <1>1
  <2> QED
    BY <1>3, <2>1
<1>10. LastOn' = LastOn
  <2>1. CASE pushes' = <<>>
    BY <1>1, <1>2, <1>7, <1>8, <2>1
  <2>2. CASE pushes' # <<>>
    <3>1. m \in 1..n - 1 /\ m + 1 = n
      BY <1>1, <1>8, <2>2
    <3> QED
      BY <1>7, <1>9, <2>2, <3>1
  <2> QED
    BY <2>1, <2>2
<1>11. ASSUME NEW j \in Jobs, NEW bodies \in SUBSET Bodies,
              Serves(resolver, pushes, j, bodies)
       PROVE  Serves(resolver', pushes', j, bodies)
  <2>0. bodies # None
    BY Constants
  <2>1. CASE /\ resolver.set[j] = bodies
             /\ \A i \in DOMAIN pushes : pushes[i].set[j] = None
    <3>1. resolver'.set[j] = bodies
      BY <1>1, <1>2, <1>8, <2>1
    <3>2. ASSUME NEW i \in 1..n - 1 PROVE pushes'[i].set[j] = None
      <4>1. i + 1 \in 1..n
        BY <1>1
      <4> QED
        BY <1>1, <1>9, <2>1, <4>1
    <3> QED
      BY <1>4, <3>1, <3>2 DEF Serves, n
  <2>2. ASSUME NEW i \in DOMAIN pushes, pushes[i].set[j] = bodies,
               \A k \in DOMAIN pushes : k > i => pushes[k].set[j] = None
        PROVE  Serves(resolver', pushes', j, bodies)
    <3>1. CASE i = 1
      <4>1. resolver'.set[j] = bodies
        BY <1>2, <2>0, <2>2, <3>1
      <4>2. ASSUME NEW k \in 1..n - 1 PROVE pushes'[k].set[j] = None
        <5>1. k + 1 \in 1..n /\ k + 1 > i
          BY <1>1, <3>1
        <5> QED
          BY <1>1, <1>9, <2>2, <5>1
      <4> QED
        BY <1>4, <4>1, <4>2 DEF Serves, n
    <3>2. CASE i # 1
      <4>1. i - 1 \in 1..n - 1 /\ (i - 1) + 1 = i
        BY <1>1, <3>2
      <4>2. pushes'[i - 1].set[j] = bodies
        BY <1>9, <2>2, <4>1
      <4>3. ASSUME NEW k \in 1..n - 1, k > i - 1 PROVE pushes'[k].set[j] = None
        <5>1. k + 1 \in 1..n /\ k + 1 > i
          BY <1>1, <4>1, <4>3
        <5> QED
          BY <1>1, <1>9, <2>2, <5>1
      <4>4. i - 1 \in DOMAIN pushes'
        BY <1>4, <4>1 DEF n
      <4>5. \A k \in DOMAIN pushes' : k > i - 1 => pushes'[k].set[j] = None
        BY <1>4, <4>3 DEF n
      <4> QED
        BY <4>2, <4>4, <4>5 DEF Serves
    <3> QED
      BY <3>1, <3>2
  <2> QED
    BY <1>11, <2>1, <2>2 DEF Serves
<1> QED
    BY <1>10, <1>11

(* What is on the disk of a list, and that it depends on no switch. *)
LEMMA CachedTypes ==
    ASSUME Sound
    PROVE  /\ \A j \in Jobs : CachedBodies(settings[j]) \in SUBSET Bodies
           /\ \A j \in Jobs : UNCHANGED cache /\ settings'[j].sources = settings[j].sources
                  => CachedBodies(settings[j])' = CachedBodies(settings[j])
<1>1. ASSUME NEW j \in Jobs PROVE CachedBodies(settings[j]) \in SUBSET Bodies
  <2>1. EnabledUrls(settings[j]) \subseteq Urls
    BY SwitchTypes DEF Sound, Kept
  <2>2. \A u \in Urls : cache[u] # None => cache[u] \in Versions
    BY DEF Sound, Disk
  <2> QED
    BY <2>1, <2>2 DEF CachedBodies, Bodies
<1>2. ASSUME NEW j \in Jobs, UNCHANGED cache,
             settings'[j].sources = settings[j].sources
      PROVE  CachedBodies(settings[j])' = CachedBodies(settings[j])
    BY <1>2 DEF CachedBodies, EnabledUrls
<1> QED
    BY <1>1, <1>2

(* A step that leaves resolver, pushes and lists, and switches off what it *)
(* changes, stays in step; unless it begins to switch a job off.           *)
LEMMA InStepStays ==
    ASSUME Sound, InStep, UNCHANGED <<resolver, pushes, cache>>,
           \A k \in DOMAIN tasks : ~IsLoad(tasks[k]) /\ tasks[k].op # "off",
           \A j \in Jobs : /\ settings'[j].sources = settings[j].sources
                           /\ settings'[j].enabled => settings[j].enabled,
           UNCHANGED settings \/ \E k \in DOMAIN tasks' : tasks'[k].op = "off"
    PROVE  InStep'
<1>1. SUFFICES ASSUME resolver # None PROVE InStep'
    BY DEF InStep
<1>2. /\ \A j \in Jobs : settings[j].enabled =>
             Serves(resolver, pushes, j, CachedBodies(settings[j]))
      /\ LastOn = Switches
    BY <1>1 DEF InStep
<1>3. \A j \in Jobs : CachedBodies(settings[j])' = CachedBodies(settings[j])
    BY CachedTypes
<1>4. \A bodies : \A j \in Jobs :
          Serves(resolver, pushes, j, bodies) => Serves(resolver', pushes', j, bodies)
    BY DEF Serves
<1>5. ASSUME NEW j \in Jobs, settings'[j].enabled
      PROVE  Serves(resolver', pushes', j, CachedBodies(settings[j])')
  <2>1. Serves(resolver, pushes, j, CachedBodies(settings[j]))
    BY <1>2, <1>5
  <2> DEFINE b == CachedBodies(settings[j])
  <2>2. CachedBodies(settings[j])' = b
    BY <1>3
  <2> QED
    BY <2>1, <2>2 DEF Serves
<1>6. UNCHANGED settings => LastOn' = Switches'
    BY <1>2 DEF LastOn, Switches
<1> QED
    BY <1>5, <1>6 DEF InStep

(* Nor does one that pushes the switches it leaves, and switches none on. *)
LEMMA InStepPushed ==
    ASSUME Sound, InStep, UNCHANGED <<resolver, cache>>,
           \A k \in DOMAIN tasks : ~IsLoad(tasks[k]),
           \A j \in Jobs : /\ settings'[j].sources = settings[j].sources
                           /\ settings'[j].enabled => settings[j].enabled,
           NEW on \in [Jobs -> BOOLEAN], Switches' = on,
           pushes' = IF resolver = None THEN pushes
                     ELSE Append(pushes, [set |-> [j \in Jobs |-> None], on |-> on])
    PROVE  InStep'
<1>1. SUFFICES ASSUME resolver # None PROVE InStep'
    BY DEF InStep
<1>2. \A j \in Jobs : settings[j].enabled =>
          Serves(resolver, pushes, j, CachedBodies(settings[j]))
    BY <1>1 DEF InStep
<1>3. pushes' = Append(pushes, [set |-> [j \in Jobs |-> None], on |-> on])
    BY <1>1
<1>4. /\ LastOn' = on
      /\ \A j \in Jobs, bodies \in SUBSET Bodies :
             Serves(resolver, pushes, j, bodies) => Serves(resolver', pushes', j, bodies)
    BY <1>3, SwitchesPushed DEF Sound
<1>5. ASSUME NEW j \in Jobs, settings'[j].enabled
      PROVE  Serves(resolver', pushes', j, CachedBodies(settings[j])')
  <2> DEFINE b == CachedBodies(settings[j])
  <2>1. b \in SUBSET Bodies /\ CachedBodies(settings[j])' = b
    BY CachedTypes
  <2>2. Serves(resolver, pushes, j, b)
    BY <1>2, <1>5
  <2> HIDE DEF b
  <2>3. Serves(resolver', pushes', j, b)
    BY <1>4, <2>1, <2>2
  <2> QED
    BY <2>1, <2>3 DEF Serves
<1> QED
    BY <1>4, <1>5 DEF InStep

(* A load that is by itself and done got what the disk has. *)
LEMMA GotIsCached ==
    ASSUME Sound, NEW t \in Work, TracksIn(t, settings, cache),
           t.todo = {}, t.busy = {}, NEW j \in Jobs
    PROVE  Got(t, j) = CachedBodies(settings[j])
<1>1. Ahead(t) = {}
    BY DEF Ahead
<1>2. t.got \subseteq Jobs \X Urls \X Versions
    BY TaskFields
<1>3. \A u \in Urls : cache[u] # None => cache[u] \in Versions
    BY DEF Sound, Disk
<1>4. EnabledUrls(settings[j]) \subseteq Urls
    BY SwitchTypes DEF Sound, Kept
<1>5. \A u \in Urls, v \in Versions :
          <<j, u, v>> \in t.got <=> u \in EnabledUrls(settings[j]) /\ cache[u] = v
    BY <1>1 DEF TracksIn
<1>6. \A v \in Versions : v # None
    BY Constants
<1>7. ASSUME NEW x \in Got(t, j) PROVE x \in CachedBodies(settings[j])
  <2>1. PICK g \in t.got : g[1] = j /\ x = <<g[2], g[3]>>
    BY DEF Got
  <2>2. g = <<j, g[2], g[3]>> /\ g[2] \in Urls /\ g[3] \in Versions
    BY <1>2, <2>1
  <2>3. g[2] \in EnabledUrls(settings[j]) /\ cache[g[2]] = g[3]
    BY <1>5, <2>1, <2>2
  <2> QED
    BY <1>6, <2>1, <2>2, <2>3 DEF CachedBodies
<1>8. ASSUME NEW x \in CachedBodies(settings[j]) PROVE x \in Got(t, j)
  <2>1. PICK u \in EnabledUrls(settings[j]) : cache[u] # None /\ x = <<u, cache[u]>>
    BY DEF CachedBodies
  <2>2. u \in Urls /\ cache[u] \in Versions
    BY <1>3, <1>4, <2>1
  <2>3. <<j, u, cache[u]>> \in t.got
    BY <1>5, <2>2
  <2> QED
    BY <2>1, <2>3 DEF Got
<1> QED
    BY <1>7, <1>8

(* A resolver that is started serves what its load got. *)
LEMMA StartedInStep ==
    ASSUME Sound, Single, Loading, mishaps = {}, NEW k \in DOMAIN tasks,
           OnResolverStarted(k)
    PROVE  InStep'
<1> DEFINE t == tasks[k]
<1>0. /\ resolver = None /\ pushes = <<>> /\ pushes' = <<>>
      /\ UNCHANGED <<settings, cache>>
    BY DEF OnResolverStarted, Stale, Sound, Answering, diskVars
<1>1. /\ t \in Work /\ t.op = "start" /\ t.todo = {} /\ t.busy = {}
    BY TasksKeepWork DEF OnResolverStarted, Done, Sound
<1>2. TracksIn(t, settings, cache)
    BY <1>1 DEF Loading, IsLoad
<1>3. \A j \in Jobs : Got(t, j) = CachedBodies(settings[j])
    BY <1>1, <1>2, GotIsCached
<1>4. /\ t.on \in [Jobs -> BOOLEAN]
      /\ \A j \in Jobs : t.on[j] = settings[j].enabled
    BY <1>1, <1>2, TaskFields DEF TracksIn
<1>5. t.on = Switches'
    BY <1>0, <1>4 DEF Switches
<1>6. \/ resolver' = None
      \/ resolver' = [set |-> [j \in Jobs |-> IF t.on[j] THEN Got(t, j) ELSE {}],
                      on |-> t.on]
    BY <1>0 DEF OnResolverStarted
<1> HIDE DEF t
<1>7. CASE resolver' = None
    BY <1>7 DEF InStep
<1>8. CASE resolver' = [set |-> [j \in Jobs |-> IF t.on[j] THEN Got(t, j) ELSE {}],
                        on |-> t.on]
  <2>1. LastOn' = Switches'
    BY <1>0, <1>5, <1>8 DEF LastOn
  <2>2. ASSUME NEW j \in Jobs, settings'[j].enabled
        PROVE  Serves(resolver', pushes', j, CachedBodies(settings[j])')
    <3>1. t.on[j]
      BY <1>0, <1>4, <2>2
    <3>2. resolver'.set[j] = Got(t, j)
      BY <1>8, <3>1
    <3>3. CachedBodies(settings[j])' = Got(t, j)
      BY <1>0, <1>3, CachedTypes
    <3> QED
      BY <1>0, <3>2, <3>3 DEF Serves
  <2> QED
    BY <2>1, <2>2 DEF InStep
<1> QED
    BY <1>6, <1>7, <1>8

(* A load that is applied is pushed. *)
LEMMA RefreshedInStep ==
    ASSUME Sound, Single, Loading, Unviewed, mishaps = {}, NEW k \in DOMAIN tasks,
           OnListsRefreshed(k)
    PROVE  InStep'
<1> DEFINE t == tasks[k]
           sets == [j \in Jobs |-> Got(t, j)]
<1>1. UNCHANGED <<settings, cache, resolver>>
    BY DEF OnListsRefreshed, diskVars
<1>2. SUFFICES ASSUME resolver # None PROVE InStep'
    BY <1>1 DEF InStep
<1>3. sharing
    BY <1>2 DEF Sound, Answering
<1>4. /\ t \in Work /\ t.op = "refresh" /\ t.todo = {} /\ t.busy = {}
    BY <1>3, TasksKeepWork DEF OnListsRefreshed, Done, Sound, Unviewed
<1>5. TracksIn(t, settings, cache)
    BY <1>4 DEF Loading, IsLoad
<1>6. \A j \in Jobs : Got(t, j) = CachedBodies(settings[j]) /\ Got(t, j) \in SUBSET Bodies
    BY <1>4, <1>5, GotIsCached, TaskFields
<1>7. pushes' = Append(pushes, [set |-> sets, on |-> Switches])
    BY <1>2, <1>4 DEF OnListsRefreshed, Push
<1>8. /\ sets \in [Jobs -> SUBSET Bodies] /\ Switches \in [Jobs -> BOOLEAN]
      /\ \A j \in Jobs : sets[j] = CachedBodies(settings[j])'
  <2>1. \A j \in Jobs : sets[j] = CachedBodies(settings[j])
    BY <1>6
  <2>2. sets \in [Jobs -> SUBSET Bodies] /\ Switches \in [Jobs -> BOOLEAN]
    BY <1>6, SwitchTypes DEF Sound, Kept
  <2> HIDE DEF sets
  <2> QED
    BY <1>1, <2>1, <2>2, CachedTypes
<1> HIDE DEF sets
<1>9. /\ LastOn' = Switches
      /\ \A j \in Jobs : Serves(resolver', pushes', j, sets[j])
    BY <1>7, <1>8, ListsPushed DEF Sound
<1>10. LastOn' = Switches'
    BY <1>1, <1>9 DEF Switches
<1>11. ASSUME NEW j \in Jobs
      PROVE  Serves(resolver', pushes', j, CachedBodies(settings[j])')
    BY <1>8, <1>9 DEF Serves
<1> QED
    BY <1>10, <1>11 DEF InStep

(* The keys that throw a switch keep it in step. *)
LEMMA InStepByToggle ==
    ASSUME Sound, Single, InStep, mishaps = {}, mishaps' = {},
           ToggleBlock \/ ToggleAllow
    PROVE  InStep'
<1>1. settings \in [Jobs -> Setting] /\ Working /\ "block" \in Jobs /\ "allow" \in Jobs
    BY Constants DEF Sound, Kept
<1>2. pending = "none"
    BY DEF ToggleBlock, ToggleAllow, KeyReady
<1>3. tasks = <<>> /\ DOMAIN tasks = {}
    BY <1>1, <1>2, IdleHasNone
<1>4. CASE ToggleBlock
  <2> DEFINE was == settings["block"].enabled
             new == [settings EXCEPT !["block"].enabled = ~was]
             on == [Switches EXCEPT !["block"] = ~@]
  <2>1. /\ settings' = new
        /\ pushes' = IF resolver = None THEN pushes
                     ELSE Append(pushes, [set |-> [j \in Jobs |-> None], on |-> on])
        /\ mishaps' = IF on["block"] /\ resolver # None
                      THEN mishaps \cup {"switchedOn"} ELSE mishaps
        /\ UNCHANGED <<resolver, cache>>
    BY <1>4 DEF ToggleBlock, Change, Push, diskVars
  <2>2. /\ (~was) \in BOOLEAN
        /\ \A j \in Jobs : Switches[j] = settings[j].enabled
        /\ Switches \in [Jobs -> BOOLEAN]
    BY <1>1, SwitchTypes
  <2>3. /\ on \in [Jobs -> BOOLEAN]
        /\ \A j \in Jobs : on[j] = IF j = "block" THEN ~was ELSE settings[j].enabled
    BY <1>1, <2>2
  <2>4. /\ settings' \in [Jobs -> Setting]
        /\ \A j \in Jobs : /\ settings'[j].sources = settings[j].sources
                           /\ settings'[j].enabled = IF j = "block" THEN ~was
                                                     ELSE settings[j].enabled
    <3> DEFINE no == ~was
    <3>1. no \in BOOLEAN /\ settings' = [settings EXCEPT !["block"].enabled = no]
      BY <2>1, <2>2
    <3> HIDE DEF no
    <3>2. /\ settings' \in [Jobs -> Setting]
          /\ \A j \in Jobs : /\ settings'[j].sources = settings[j].sources
                             /\ settings'[j].enabled = IF j = "block" THEN no
                                                       ELSE settings[j].enabled
      BY <1>1, <3>1, SwitchThrown
    <3> QED
      BY <3>2 DEF no
  <2> HIDE DEF on, new
  <2>5. Switches' = on
    BY <2>3, <2>4 DEF Switches
  <2>6. CASE resolver = None
    BY <2>1, <2>6 DEF InStep
  <2>7. CASE resolver # None
    <3>1. ~on["block"]
      BY <2>1, <2>7
    <3>2. \A j \in Jobs : settings'[j].enabled => settings[j].enabled
      BY <1>1, <2>3, <2>4, <3>1
    <3> QED
      BY <1>3, <2>1, <2>3, <2>4, <2>5, <3>2, InStepPushed
  <2> QED
    BY <2>6, <2>7
<1>5. CASE ToggleAllow
  <2> DEFINE was == settings["allow"].enabled
             new == [settings EXCEPT !["allow"].enabled = ~was]
             off == [op |-> "off", on |-> Switches, todo |-> {}, busy |-> {},
                     got |-> {}]
  <2>1. /\ \/ ~sharing
           \/ was /\ settings' = new /\ tasks' = Append(tasks, off)
           \/ UNCHANGED settings
        /\ UNCHANGED <<resolver, cache, pushes>>
    BY <1>5 DEF ToggleAllow, Change, Spawn, diskVars
  <2>2. ~sharing => resolver = None
    BY DEF Sound, Answering
  <2>3. CASE resolver = None
    BY <2>1, <2>3 DEF InStep
  <2>4. CASE UNCHANGED settings
    BY <1>3, <2>1, <2>4, InStepStays
  <2>5. CASE was /\ settings' = new /\ tasks' = Append(tasks, off)
    <3>1. \A j \in Jobs : /\ settings'[j].sources = settings[j].sources
                          /\ settings'[j].enabled => settings[j].enabled
      BY <1>1, <2>5, SwitchThrown
    <3>2. off \in Work /\ off.op = "off"
      BY <1>1, TasksBegin
    <3> HIDE DEF off
    <3>3. 1 \in DOMAIN tasks' /\ tasks'[1] = off
      BY <1>1, <1>3, <2>5, <3>2, OneTask
    <3>4. \E k \in DOMAIN tasks' : tasks'[k].op = "off"
      BY <3>2, <3>3
    <3> QED
      BY <1>3, <2>1, <3>1, <3>4, InStepStays
  <2> QED
    BY <2>1, <2>2, <2>3, <2>4, <2>5
<1> QED
    BY <1>4, <1>5

(* And so do the answers. *)
LEMMA InStepByAnswer ==
    ASSUME Sound, Single, Loading, Unviewed, InStep, mishaps = {}, mishaps' = {},
           AnswerStep
    PROVE  InStep'
<1>0. settings \in [Jobs -> Setting] /\ Working
    BY DEF Sound, Kept
<1>1. PICK k \in DOMAIN tasks :
          \/ DiscardStale(k) \/ OnResolverStarted(k) \/ OnListsRefreshed(k)
          \/ OnWanDetected(k) \/ OnFirewallReloaded(k) \/ OnSharingStopped(k)
    BY DEF AnswerStep
<1>2. /\ k = 1 /\ tasks = <<tasks[1]>> /\ tasks[1] \in Work
      /\ ~DiscardStale(k) /\ DOMAIN tasks = {1}
  <2>1. "cancelled" \notin mishaps'
    OBVIOUS
  <2>2. /\ k = 1 /\ tasks = <<tasks[1]>> /\ tasks[1] \in Work /\ ~DiscardStale(k)
    BY <1>1, <2>1, Answers
  <2> DEFINE t == tasks[1]
  <2>3. t \in Work /\ tasks = <<t>>
    BY <2>2
  <2> HIDE DEF t
  <2>4. DOMAIN tasks = {1}
    BY <1>0, <2>3, OneTask
  <2> QED
    BY <2>2, <2>4
<1>3. CASE OnResolverStarted(k)
    BY <1>3, StartedInStep
<1>4. CASE OnListsRefreshed(k)
    BY <1>4, RefreshedInStep
<1>5. CASE OnWanDetected(k)
  <2>1. /\ UNCHANGED <<settings, resolver, pushes, cache>>
        /\ tasks[k].op = "wan"
    BY <1>5 DEF OnWanDetected, diskVars
  <2>2. \A i \in DOMAIN tasks : ~IsLoad(tasks[i]) /\ tasks[i].op # "off"
    BY <1>2, <2>1 DEF IsLoad
  <2> QED
    BY <2>1, <2>2, InStepStays
<1>6. CASE OnFirewallReloaded(k)
  <2> DEFINE switches == [j \in Jobs |-> settings[j].enabled]
  <2>1. tasks[k].op \in {"on", "off"} /\ UNCHANGED <<resolver, cache>>
    BY <1>6 DEF OnFirewallReloaded, diskVars
  <2>2. \/ resolver = None
        \/ /\ pushes' = IF resolver = None THEN pushes
                        ELSE Append(pushes, [set |-> [j \in Jobs |-> None],
                                             on |-> switches])
           /\ UNCHANGED settings
    BY <1>6 DEF OnFirewallReloaded, Push
  <2>3. CASE resolver = None
    BY <2>1, <2>3 DEF InStep
  <2>4. CASE resolver # None
    <3>1. \A i \in DOMAIN tasks : ~IsLoad(tasks[i])
      BY <1>2, <2>1 DEF IsLoad
    <3>2. switches = Switches /\ Switches \in [Jobs -> BOOLEAN]
      BY <1>0, SwitchTypes DEF Switches
    <3> HIDE DEF switches
    <3>3. Switches' = Switches
      BY <2>2, <2>4 DEF Switches
    <3> QED
      BY <2>1, <2>2, <2>4, <3>1, <3>2, <3>3, InStepPushed
  <2> QED
    BY <2>3, <2>4
<1>7. CASE OnSharingStopped(k)
    BY <1>7 DEF OnSharingStopped, InStep
<1> QED
    BY <1>1, <1>2, <1>3, <1>4, <1>5, <1>6, <1>7

(* No step leaves the load of a session unapplied without noting it. *)
LEMMA UnviewedStep ==
    ASSUME Sound, Single, Served, [Next]_vars, mishaps' = {}
    PROVE  Unviewed'
<1>0. /\ "cancelled" \notin mishaps' /\ "viewed" \notin mishaps'
      /\ settings' \in [Jobs -> Setting]
    BY SoundStep DEF Sound, Kept
<1>1. CASE Turn
  <2>1. \A t : DOMAIN <<t>> = {1} /\ <<t>>[1] = t
    OBVIOUS
  <2>2. DOMAIN <<>> = {}
    OBVIOUS
  <2>3. \A k \in DOMAIN tasks' : tasks'[k].op # "view"
    BY <1>0, <1>1, <2>1, <2>2, Turns
  <2> QED
    BY <2>3 DEF Unviewed
<1>2. CASE Fetch \/ StartSharing
  <2>1. PICK op \in {"start", "refresh", "view"} :
            /\ tasks' = <<LoadOf(op, Switches, settings')>>
            /\ op = "view" => ~sharing'
    BY <1>0, <1>2, LoadBegins
  <2> DEFINE t == LoadOf(op, Switches, settings')
  <2>2. t.op = op /\ tasks' = <<t>>
    BY <2>1 DEF LoadOf
  <2> HIDE DEF t
  <2>3. \A k \in DOMAIN tasks' : tasks'[k].op = op
    BY <2>2
  <2> QED
    BY <2>1, <2>3 DEF Unviewed
<1>3. CASE LoadStep
    BY <1>3, LoadIsTask DEF Sound, Served, Unviewed, appVars
<1>4. CASE Rest
  <2>1. UNCHANGED <<sharing, tasks>> /\ mishaps = {}
    BY <1>4, Rests
  <2> QED
    BY <2>1 DEF Served, Unviewed
<1> QED
    BY <1>1, <1>2, <1>3, <1>4, StepKinds

(* Without a mishap the resolver is, or will be, where settings and cache  *)
(* are.                                                                    *)
LEMMA ServedStep ==
    ASSUME Sound, Single, Loading, Served, [Next]_vars
    PROVE  Served'
<1>1. SUFFICES ASSUME mishaps' = {} PROVE InStep'
    BY UnviewedStep DEF Served
<1>0. "cancelled" \notin mishaps' /\ settings' \in [Jobs -> Setting] /\ Working
    BY <1>1, SoundStep DEF Sound, Kept
<1>2. CASE ToggleBlock \/ ToggleAllow
  <2>1. mishaps = {}
    BY <1>1, <1>2 DEF ToggleBlock, ToggleAllow
  <2> QED
    BY <1>1, <1>2, <2>1, InStepByToggle DEF Served
<1>3. CASE AttachRefused
  <2>1. UNCHANGED <<settings, resolver, pushes, cache, tasks, mishaps>> /\ pending = "none"
    BY <1>3 DEF AttachRefused, KeyReady, appVars, diskVars
  <2>2. tasks = <<>>
    BY <1>0, <1>1, <2>1, IdleHasNone
  <2>3. DOMAIN tasks = {}
    BY <2>2
  <2> QED
    BY <1>1, <2>1, <2>3, InStepStays DEF Served
<1>4. CASE StopSharing \/ Restart
    BY <1>4 DEF StopSharing, Restart, InStep
<1>5. CASE Cancel
    BY <1>1, <1>5 DEF Cancel
<1>6. CASE AnswerStep
  <2>1. mishaps = {}
    BY <1>1, <1>6 DEF AnswerStep, DiscardStale, OnResolverStarted, OnListsRefreshed,
       OnWanDetected, OnFirewallReloaded, OnSharingStopped
  <2> QED
    BY <1>1, <1>6, <2>1, InStepByAnswer DEF Served
<1>7. CASE Fetch \/ StartSharing
  <2>1. PICK op \in {"start", "refresh", "view"} :
            tasks' = <<LoadOf(op, Switches, settings')>>
    BY <1>0, <1>7, LoadBegins
  <2> DEFINE t == LoadOf(op, Switches, settings')
  <2>2. t.op = op /\ tasks' = <<t>>
    BY <2>1 DEF LoadOf
  <2> HIDE DEF t
  <2>3. 1 \in DOMAIN tasks' /\ IsLoad(tasks'[1])
    BY <2>2 DEF IsLoad
  <2> QED
    BY <2>3 DEF InStep, IsLoad
<1>8. CASE LoadStep
  <2>1. \E k \in DOMAIN tasks' : IsLoad(tasks'[k])
    BY <1>0, <1>8, LoadIsTask DEF IsLoad
  <2> QED
    BY <2>1 DEF InStep, IsLoad
<1>9. CASE PushStep
  <2>1. PICK i \in DOMAIN pushes : ApplyPush(i)
    BY <1>9 DEF PushStep
  <2>2. UNCHANGED <<settings, cache, tasks>> /\ resolver # None
    BY <2>1, PushApplies DEF ApplyPush, diskVars, Sound
  <2>3. i = 1 /\ mishaps = {}
    <3>1. i \in Nat \ {0}
      BY LenProperties DEF Sound, Answering
    <3> QED
      BY <1>1, <2>1, <3>1 DEF ApplyPush
  <2>4. /\ LastOn' = LastOn
        /\ \A j \in Jobs, bodies \in SUBSET Bodies :
               Serves(resolver, pushes, j, bodies) =>
                   Serves(resolver', pushes', j, bodies)
    BY <2>1, <2>3, FirstApplied DEF Sound
  <2>5. /\ \A j \in Jobs : CachedBodies(settings[j]) \in SUBSET Bodies
        /\ \A j \in Jobs : CachedBodies(settings[j])' = CachedBodies(settings[j])
    BY <2>2, CachedTypes
  <2>6. SUFFICES ASSUME \A k \in DOMAIN tasks' : ~IsLoad(tasks'[k])
                 PROVE  InStep'
    BY DEF InStep, IsLoad
  <2>7. /\ \A j \in Jobs : settings[j].enabled =>
               Serves(resolver, pushes, j, CachedBodies(settings[j]))
        /\ (\A k \in DOMAIN tasks : tasks[k].op # "off") => LastOn = Switches
    BY <2>2, <2>3, <2>6 DEF Served, InStep
  <2>8. ASSUME NEW j \in Jobs, settings'[j].enabled
        PROVE  Serves(resolver', pushes', j, CachedBodies(settings[j])')
    <3> DEFINE b == CachedBodies(settings[j])
    <3>1. b \in SUBSET Bodies /\ CachedBodies(settings[j])' = b
      BY <2>5
    <3>2. Serves(resolver, pushes, j, b)
      BY <2>2, <2>7, <2>8
    <3> HIDE DEF b
    <3>3. Serves(resolver', pushes', j, b)
      BY <2>4, <3>1, <3>2
    <3> QED
      BY <3>1, <3>3 DEF Serves
  <2>9. (\A k \in DOMAIN tasks' : tasks'[k].op # "off") => LastOn' = Switches'
    BY <2>2, <2>4, <2>7 DEF Switches
  <2> QED
    BY <2>8, <2>9 DEF InStep
<1>10. CASE Age \/ (\E u \in Urls : Publish(u)) \/ UNCHANGED vars
  <2>1. UNCHANGED <<settings, cache, resolver, pushes, tasks, mishaps>>
    BY <1>10 DEF Age, Publish, vars, appVars, diskVars
  <2>2. InStep
    BY <1>1, <2>1 DEF Served
  <2>3. InStep' = InStep
    BY <2>1 DEF InStep, IsLoad, Serves, LastOn, Switches, CachedBodies
  <2> QED
    BY <2>2, <2>3
<1> QED
    BY <1>2, <1>3, <1>4, <1>5, <1>6, <1>7, <1>8, <1>9, <1>10, StepKinds DEF Turn, Rest

(* What `tunshare status` expects is what the settings and the cache say.  *)
LEMMA StepAgrees ==
    ASSUME Sound, Served, Quiet, resolver # None, mishaps = {}
    PROVE  Agrees
<1>1. /\ tasks = <<>> /\ pushes = <<>> /\ DOMAIN tasks = {} /\ DOMAIN pushes = {}
    BY DEF Quiet
<1>2. /\ Load(file) = settings /\ settings \in [Jobs -> Setting]
      /\ "block" \in Jobs /\ "allow" \in Jobs
    BY Constants DEF Sound, Kept
<1>3. InStep
    BY DEF Served
<1>4. \A j \in Jobs : resolver.on[j] = settings[j].enabled
  <2>1. resolver.on = Switches
    BY <1>1, <1>3 DEF InStep, LastOn
  <2> QED
    BY <1>2, <2>1, SwitchTypes
<1>5. \A j \in Jobs : settings[j].enabled => resolver.set[j] = CachedBodies(settings[j])
    BY <1>1, <1>3 DEF InStep, Serves
<1>6. ASSUME NEW name \in Names PROVE Classify(name, resolver) = StatusClassify(name)
  <2> DEFINE On(j) == settings[j].enabled /\ Holds(CachedBodies(settings[j]), name)
  <2>1. StatusClassify(name) = IF On("block") THEN "Block"
                               ELSE IF On("allow") THEN "Allow" ELSE "Vpn"
    BY <1>2 DEF StatusClassify
  <2>2. \A j \in Jobs : On(j) <=> resolver.on[j] /\ Holds(resolver.set[j], name)
    BY <1>4, <1>5
  <2>3. Classify(name, resolver) = IF On("block") THEN "Block"
                                   ELSE IF On("allow") THEN "Allow" ELSE "Vpn"
    BY <1>2, <2>2 DEF Classify
  <2> QED
    BY <2>1, <2>3
<1> QED
    BY <1>6 DEF Agrees

(* At rest the LAN is answered as `tunshare status --check` says from the  *)
(* settings and the cache, unless one of the mishaps happened since the    *)
(* last load that was begun at rest and applied.                           *)
THEOREM StatusIsTrue == Spec => []StatusAgrees
<1>1. Init => IInv
  <2> SUFFICES ASSUME Init PROVE IInv
    OBVIOUS
  <2>1. Sound
    BY SoundInit
  <2>2. tasks = <<>> /\ resolver = None
    BY DEF Init
  <2>3. Single /\ Loading /\ Served
    BY <2>2 DEF Single, Loading, Served, Unviewed, InStep
  <2> QED
    BY <2>1, <2>3 DEF IInv
<1>2. IInv /\ [Next]_vars => IInv'
    BY SoundStep, SingleStep, LoadingStep, ServedStep DEF IInv
<1>3. IInv => StatusAgrees
    BY StepAgrees DEF IInv, StatusAgrees
<1> QED
    BY <1>1, <1>2, <1>3, PTL DEF Spec
=============================================================================
