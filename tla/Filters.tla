------------------------------ MODULE Filters ------------------------------
(***************************************************************************)
(* The domain filters: two jobs, Block and WAN bypass ("allow"), each a    *)
(* switch and a list of sources (config.rs), kept in config.json; the      *)
(* lists behind the sources and their on-disk cache (system/lists.rs); the *)
(* copy the LAN resolver answers from (system/resolver.rs); and the keys   *)
(* and results of the App that move lists and switches from one to the     *)
(* next (app/input.rs, app/result.rs, app/async_ops.rs).                   *)
(*                                                                         *)
(* A list is the set of <<url, version>> of the bodies it was parsed from. *)
(* Loads, reloads and pushes are tasks: the App goes on while they run.  A *)
(* task's answer is handled where it would be sent: sending has no effect  *)
(* of its own, and the channel keeps the order.                            *)
(***************************************************************************)
EXTENDS Naturals, Sequences, FiniteSets, SequencesExt, Sieve

CONSTANTS Customs,     \* URLs a user may add
          Builtins,    \* job -> its bundled sources, in order
          DefaultOn,   \* the bundled sources that are on by default
          Versions,    \* successive contents of a list: 0..n
          Body,        \* url -> version -> the names in that content
          Parents,    \* name -> the names it is, or is a subdomain of
          Edits,       \* configurations edited by hand, or of an old release
          None,
          Budgets      \* scenarios: how often each rare event may happen

Jobs == {"block", "allow"}
Urls == Customs \cup UNION {Range(Builtins[j]) : j \in Jobs}
Names == DOMAIN Parents

Events == {"switch", "source", "custom", "refresh", "open", "start", "stop",
           "cancel", "restart", "publish", "age", "fail", "overtake"}

Source == [url : Urls, on : BOOLEAN]
Setting == [enabled : BOOLEAN, sources : Seq(Source)]
Bodies == Urls \X Versions
Lists == [set : [Jobs -> SUBSET Bodies], on : [Jobs -> BOOLEAN]]

\* No source is bundled twice with a job.
ASSUME FiltersAssumption ==
    /\ Builtins \in [Jobs -> Seq(Urls)]
    /\ \A j \in Jobs : IsInjective(Builtins[j])
    /\ Versions \subseteq Nat /\ 0 \in Versions
    /\ \A u \in Urls, v \in Versions : Body[u][v] \subseteq Names
    /\ Edits \subseteq [Jobs -> Setting]
    /\ None \notin Versions \cup Lists \cup [Jobs -> Setting]
    /\ \A bodies \in SUBSET Bodies : bodies # None
    /\ Budgets \subseteq [Events -> Nat]

VARIABLES
    settings,  \* App.lists: job -> [enabled, sources]
    file,      \* what config.json holds, None if there is none
    cache,     \* url -> the version on disk, or None
    fresh,     \* the cached lists younger than refresh_interval_hours
    remote,    \* url -> the version its server has
    sharing,   \* App.session is Some
    wan,       \* session.wan is Some
    resolver,  \* the resolver's ResolverLists, None without a DnsServer
    pending,   \* App.pending_op
    counted,   \* the screen shows a count above zero
    tasks,     \* outstanding tasks, in the order they were spawned
    pushes,    \* pushes to the resolver that have not got its lock yet
    mishaps,   \* what may have parted the resolver from the settings
    left       \* what is left of the budget of this behaviour

appVars == <<settings, file, sharing, wan, resolver, pending, counted>>
diskVars == <<cache, fresh, remote>>
vars == <<appVars, diskVars, tasks, pushes, mishaps, left>>

PendingOps == {"none", "StartingResolver", "RefreshingLists", "DetectingWan",
               "ReloadingFirewall", "StoppingSharing"}
Mishaps == {"cancelled", "overtaken", "reloadFailed", "viewed", "twice",
            "switchedOn"}

Tasks == [op   : {"start", "refresh", "view", "wan", "on", "off", "stop"},
          on   : [Jobs -> BOOLEAN],               \* the switches it saw
          todo : SUBSET (Jobs \X Urls),           \* sources not begun
          busy : SUBSET (Jobs \X Urls \X Versions), \* downloaded, not stored
          got  : SUBSET (Jobs \X Urls \X Versions)] \* sources read

Spend(event) == /\ left[event] > 0
                /\ left' = [left EXCEPT ![event] = @ - 1]

-----------------------------------------------------------------------------
(* Settings and the file they are kept in. *)

Bundled(u) == [url |-> u, on |-> u \in DefaultOn]
IsBuiltin(u) == \E j \in Jobs : u \in Range(Builtins[j])

DefaultSetting(j) ==
    [enabled |-> FALSE,
     sources |-> [i \in DOMAIN Builtins[j] |-> Bundled(Builtins[j][i])]]

EnabledUrls(setting) == {s.url : s \in {s \in Range(setting.sources) : s.on}}

\* Mutant: sources that are already there stay where they are.
EnsureBuiltinsAppends(j, sources) ==
    LET has == {s.url : s \in Range(sources)}
        missing == Only(Builtins[j], Urls \ has)
    IN  sources \o [i \in DOMAIN missing |-> Bundled(missing[i])]

\* The bundled sources come first, each as the file has it last, or as it is
\* by default; what is not bundled with this job follows.
EnsureBuiltins(j, sources) ==
    LET Kept(u) == LET at == {i \in DOMAIN sources : sources[i].url = u}
                   IN  IF at = {} THEN Bundled(u)
                       ELSE sources[CHOOSE i \in at : \A k \in at : k <= i]
        others == {s \in Range(sources) : s.url \notin Range(Builtins[j])}
    IN  [i \in DOMAIN Builtins[j] |-> Kept(Builtins[j][i])]
            \o Only(sources, others)

\* A file that is missing, or does not parse, leaves the defaults.
Load(f) ==
    [j \in Jobs |->
        IF f = None THEN DefaultSetting(j)
        ELSE [f[j] EXCEPT !.sources = EnsureBuiltins(j, @)]]

Switches == [j \in Jobs |-> settings[j].enabled]

-----------------------------------------------------------------------------
(* Lists and the two places that look names up in them. *)

Holds(bodies, name) ==
    \E b \in bodies : Parents[name] \cap Body[b[1]][b[2]] # {}

\* resolver.rs classify, for a query of a LAN client.
Classify(name, lists) ==
    IF lists.on["block"] /\ Holds(lists.set["block"], name) THEN "Block"
    ELSE IF lists.on["allow"] /\ Holds(lists.set["allow"], name) THEN "Allow"
    ELSE "Vpn"

\* load_cached_list: the enabled sources that have a cache.
CachedBodies(setting) ==
    {<<u, cache[u]>> : u \in {u \in EnabledUrls(setting) : cache[u] # None}}

\* status.rs: what `tunshare status --check` expects, from the file and the
\* cache alone.
StatusClassify(name) ==
    LET config == Load(file)
        on(j) == config[j].enabled /\ Holds(CachedBodies(config[j]), name)
    IN  IF on("block") THEN "Block" ELSE IF on("allow") THEN "Allow" ELSE "Vpn"

Got(t, j) == {<<g[2], g[3]>> : g \in {g \in t.got : g[1] = j}}

-----------------------------------------------------------------------------
(* Tasks and pushes. *)

Quiet == tasks = <<>> /\ pushes = <<>>

Spawn(ts, op) ==
    Append(ts, [op |-> op, on |-> Switches, todo |-> {}, busy |-> {},
                got |-> {}])

\* Every enabled source of both jobs, whatever their switches say.
SpawnLoad(op, sets) ==
    tasks' = Append(tasks,
        [op |-> op, on |-> Switches, busy |-> {}, got |-> {},
         todo |-> UNION {{j} \X EnabledUrls(sets[j]) : j \in Jobs}])

InBoth(sets) == EnabledUrls(sets["block"]) \cap EnabledUrls(sets["allow"])

\* An applied load that is begun at rest brings file, cache and resolver
\* together.  A load that is not applied moves the cache alone; a URL that is
\* in both jobs is downloaded twice, and may change in between.
Noticed(sets, applied) ==
    (IF applied /\ Quiet THEN {} ELSE mishaps)
        \cup (IF ~applied /\ sharing THEN {"viewed"} ELSE {})
        \cup (IF InBoth(sets) # {} THEN {"twice"} ELSE {})

RefreshLists(sets, apply) ==
    /\ pending' = "RefreshingLists"
    /\ SpawnLoad(IF apply THEN "refresh" ELSE "view", sets)
    /\ mishaps' = Noticed(sets, apply)

\* Mutant: the lists are pushed without the switches.
PushSets(sets, on) ==
    pushes' = IF resolver = None THEN pushes
              ELSE Append(pushes, [set |-> sets, on |-> resolver.on])

\* push_lists_to_resolver: a task that waits for the lock of the resolver.
Push(sets, on) ==
    pushes' = IF resolver = None THEN pushes
              ELSE Append(pushes, [set |-> sets, on |-> on])

\* Mutant: the change is kept in memory only.
ChangeUnsaved(new) == settings' = new /\ UNCHANGED file

\* A change of the lists, and save_preferences.
Change(new) == settings' = new /\ file' = new

-----------------------------------------------------------------------------
(* Keys.  While an operation is pending only Esc does anything. *)

\* Mutant: keys work while a load is under way.
KeyReadyInLoads == pending \in {"none", "RefreshingLists"}

KeyReady == pending = "none"

\* toggle_block_master
ToggleBlock ==
    /\ KeyReady /\ Spend("switch")
    /\ LET new == [settings EXCEPT !["block"].enabled = ~@]
           on  == [Switches EXCEPT !["block"] = ~@]
       IN  /\ Change(new)
           /\ Push([j \in Jobs |-> None], on)
           /\ mishaps' = IF on["block"] /\ resolver # None
                         THEN mishaps \cup {"switchedOn"} ELSE mishaps
    /\ UNCHANGED <<sharing, wan, resolver, pending, counted, diskVars, tasks>>

\* toggle_allow_master, and enable_allowlist_live: with a session the switch
\* is thrown when the rules are loaded, not before.
ToggleAllow ==
    /\ KeyReady /\ Spend("switch")
    /\ LET now == settings["allow"].enabled
           new == [settings EXCEPT !["allow"].enabled = ~@]
       IN  \/ /\ ~sharing
              /\ Change(new)
              /\ UNCHANGED <<pending, tasks>>
           \/ /\ sharing /\ now
              /\ Change(new)
              /\ pending' = "ReloadingFirewall"
              /\ tasks' = Spawn(tasks, "off")
           \/ /\ sharing /\ ~now
              /\ pending' = IF wan THEN "ReloadingFirewall" ELSE "DetectingWan"
              /\ tasks' = Spawn(tasks, IF wan THEN "on" ELSE "wan")
              /\ UNCHANGED <<settings, file>>
    /\ UNCHANGED <<sharing, wan, resolver, counted, diskVars, pushes, mishaps>>

\* attach_wan refuses before anything is reloaded.
AttachRefused ==
    /\ KeyReady /\ sharing /\ wan /\ resolver # None
    /\ ~settings["allow"].enabled
    /\ Spend("fail")
    /\ UNCHANGED <<appVars, diskVars, tasks, pushes, mishaps>>

\* toggle_source
ToggleSource(j, i) ==
    /\ KeyReady /\ Spend("source")
    /\ i \in DOMAIN settings[j].sources
    /\ LET new == [settings EXCEPT ![j].sources[i].on = ~@]
       IN  Change(new) /\ RefreshLists(new, sharing)
    /\ UNCHANGED <<sharing, wan, resolver, counted, diskVars, pushes>>

\* commit_custom_source: any URL that this list does not have yet.
AddCustom(j, u) ==
    /\ KeyReady /\ Spend("custom")
    /\ \A s \in Range(settings[j].sources) : s.url # u
    /\ LET new == [settings EXCEPT ![j].sources =
                                  Append(@, [url |-> u, on |-> TRUE])]
       IN  Change(new) /\ RefreshLists(new, sharing)
    /\ UNCHANGED <<sharing, wan, resolver, counted, diskVars, pushes>>

\* remove_selected_custom: not what is bundled, with either job.
RemoveCustom(j, i) ==
    /\ KeyReady /\ Spend("custom")
    /\ i \in DOMAIN settings[j].sources
    /\ ~IsBuiltin(settings[j].sources[i].url)
    /\ LET new == [settings EXCEPT ![j].sources = RemoveAt(@, i)]
       IN  Change(new) /\ RefreshLists(new, sharing)
    /\ UNCHANGED <<sharing, wan, resolver, counted, diskVars, pushes>>

\* 'r' on the screen.
Refresh ==
    /\ KeyReady /\ Spend("refresh")
    /\ RefreshLists(settings, sharing)
    /\ UNCHANGED <<settings, file, sharing, wan, resolver, counted, diskVars,
                   pushes>>

\* open_lists fetches only when it has nothing to show, and never applies.
OpenLists ==
    /\ KeyReady /\ ~counted /\ Spend("open")
    /\ RefreshLists(settings, FALSE)
    /\ UNCHANGED <<settings, file, sharing, wan, resolver, counted, diskVars,
                   pushes>>

\* A start, up to maybe_start_resolver; with the bypass on it has found a WAN
\* uplink or failed.
StartSharing ==
    /\ KeyReady /\ ~sharing /\ Spend("start")
    /\ sharing' = TRUE
    /\ wan' = settings["allow"].enabled
    /\ pending' = "StartingResolver"
    /\ SpawnLoad("start", settings)
    /\ mishaps' = Noticed(settings, TRUE)
    /\ UNCHANGED <<settings, file, resolver, counted, diskVars, pushes>>

\* stop_sharing_async lets go of the resolver at once.
StopSharing ==
    /\ KeyReady /\ sharing /\ Spend("stop")
    /\ pending' = "StoppingSharing"
    /\ resolver' = None /\ pushes' = <<>>
    /\ tasks' = Spawn(tasks, "stop")
    /\ UNCHANGED <<settings, file, sharing, wan, counted, diskVars, mishaps>>

\* Esc: the task runs on, its answer will be stale.
Cancel ==
    /\ pending # "none" /\ Spend("cancel")
    /\ pending' = "none"
    /\ mishaps' = mishaps \cup {"cancelled"}
    /\ UNCHANGED <<settings, file, sharing, wan, resolver, counted, diskVars,
                   tasks, pushes>>

KeyStep ==
    \/ ToggleBlock \/ ToggleAllow \/ AttachRefused
    \/ \E j \in Jobs, u \in Urls : AddCustom(j, u)
    \/ \E j \in Jobs : \E i \in DOMAIN settings[j].sources :
           ToggleSource(j, i) \/ RemoveCustom(j, i)
    \/ Refresh \/ OpenLists \/ StartSharing \/ StopSharing \/ Cancel

-----------------------------------------------------------------------------
(* Tasks: reading the sources. *)

Set(k, t) == tasks' = [tasks EXCEPT ![k] = t]

\* Mutant: after a failure a cache is taken for granted.
ReadSourceTrusting(k, j, u) ==
    LET t == tasks[k]
        rest == [t EXCEPT !.todo = @ \ {<<j, u>>}]
        young == t.op = "start" /\ u \in fresh
        Have(v) == Set(k, [rest EXCEPT !.got = @ \cup {<<j, u, v>>}])
    IN  /\ <<j, u>> \in t.todo
        /\ \/ young /\ Have(cache[u]) /\ UNCHANGED left
           \/ /\ ~young
              /\ Set(k, [rest EXCEPT !.busy = @ \cup {<<j, u, remote[u]>>}])
              /\ UNCHANGED left
           \/ ~young /\ Spend("fail") /\ Have(cache[u])

\* load_source: a cache that is young enough (unless forced), the content the
\* server has, or after a failure the cache as it was read before.
ReadSource(k, j, u) ==
    LET t == tasks[k]
        rest == [t EXCEPT !.todo = @ \ {<<j, u>>}]
        young == t.op = "start" /\ u \in fresh
        Have(v) == Set(k, [rest EXCEPT !.got = @ \cup {<<j, u, v>>}])
    IN  /\ <<j, u>> \in t.todo
        /\ \/ young /\ Have(cache[u]) /\ UNCHANGED left
           \/ /\ ~young
              /\ Set(k, [rest EXCEPT !.busy = @ \cup {<<j, u, remote[u]>>}])
              /\ UNCHANGED left
           \/ /\ ~young /\ Spend("fail")
              /\ IF cache[u] = None THEN Set(k, rest) ELSE Have(cache[u])

\* The body has arrived: it is written to the cache, then used.
StoreSource(k, j, u, v) ==
    LET t == tasks[k]
    IN  /\ <<j, u, v>> \in t.busy
        /\ Set(k, [t EXCEPT !.busy = @ \ {<<j, u, v>>},
                            !.got  = @ \cup {<<j, u, v>>}])
        /\ cache' = [cache EXCEPT ![u] = v]
        /\ fresh' = fresh \cup {u}
        /\ UNCHANGED <<remote, left>>

LoadStep ==
    /\ \E k \in DOMAIN tasks :
           \/ /\ \E p \in tasks[k].todo : ReadSource(k, p[1], p[2])
              /\ UNCHANGED diskVars
           \/ \E b \in tasks[k].busy : StoreSource(k, b[1], b[2], b[3])
    /\ UNCHANGED <<appVars, pushes, mishaps>>

-----------------------------------------------------------------------------
(* Answers. *)

\* Mutant: a start that could read no list at all does not go on.
DoneWithLists(k) == /\ tasks[k].todo = {} /\ tasks[k].busy = {}
                    /\ tasks[k].op # "start" \/ tasks[k].got # {}

Done(k) == tasks[k].todo = {} /\ tasks[k].busy = {}
Without(k) == RemoveAt(tasks, k)

Stale(k) == \/ tasks[k].op = "start" /\ pending # "StartingResolver"
            \/ tasks[k].op \in {"refresh", "view"} /\ pending # "RefreshingLists"
            \/ tasks[k].op = "wan" /\ pending # "DetectingWan"

DiscardStale(k) ==
    /\ Done(k) /\ Stale(k)
    /\ tasks' = Without(k)
    /\ UNCHANGED <<appVars, diskVars, pushes, mishaps, left>>

Counts(t) == \E g \in t.got : Body[g[2]][g[3]] # {}

\* A job that is off gets no list; a failure (:53 is taken) ends the session.
OnResolverStarted(k) ==
    LET t == tasks[k]
    IN  /\ Done(k) /\ t.op = "start" /\ ~Stale(k)
        /\ pending' = "none" /\ tasks' = Without(k)
        /\ \/ /\ resolver' = [set |-> [j \in Jobs |->
                                         IF t.on[j] THEN Got(t, j) ELSE {}],
                              on  |-> t.on]
              /\ counted' = Counts(t)
              /\ UNCHANGED <<sharing, left>>
           \/ /\ Spend("fail")
              /\ sharing' = FALSE /\ counted' = FALSE
              /\ UNCHANGED resolver
        /\ UNCHANGED <<settings, file, wan, diskVars, pushes, mishaps>>

OnListsRefreshed(k) ==
    LET t == tasks[k]
    IN  /\ Done(k) /\ t.op \in {"refresh", "view"} /\ ~Stale(k)
        /\ pending' = "none" /\ tasks' = Without(k)
        /\ counted' = Counts(t)
        /\ IF t.op = "refresh" THEN Push([j \in Jobs |-> Got(t, j)], Switches)
                               ELSE UNCHANGED pushes
        /\ UNCHANGED <<settings, file, sharing, wan, resolver, diskVars,
                       mishaps, left>>

\* on_wan_detected: an uplink that is found stays with the session.
OnWanDetected(k) ==
    /\ Done(k) /\ tasks[k].op = "wan" /\ ~Stale(k)
    /\ \/ /\ sharing
          /\ wan' = TRUE
          /\ pending' = "ReloadingFirewall"
          /\ tasks' = Spawn(Without(k), "on")
          /\ UNCHANGED left
       \/ /\ ~sharing \/ left["fail"] > 0
          /\ IF sharing THEN Spend("fail") ELSE UNCHANGED left
          /\ pending' = "none" /\ tasks' = Without(k)
          /\ UNCHANGED wan
    /\ UNCHANGED <<settings, file, sharing, resolver, counted, diskVars,
                   pushes, mishaps>>

\* The answer of a reload, or of a stop, is taken whatever is pending, and
\* ends that too: what was pending is then lost.
Interrupted(own) == IF pending \in {"none", own} THEN {} ELSE {"cancelled"}

\* on_firewall_reloaded: with an error nothing is pushed.
OnFirewallReloaded(k) ==
    LET t == tasks[k]
        With(on) == [settings EXCEPT !["allow"].enabled = on]
        switches == [j \in Jobs |-> settings[j].enabled]
        late == Interrupted("ReloadingFirewall")
    IN  /\ Done(k) /\ t.op \in {"on", "off"}
        /\ pending' = "none" /\ tasks' = Without(k)
        /\ \/ /\ t.op = "on"
              /\ Change(With(TRUE))
              /\ Push([j \in Jobs |-> None], [switches EXCEPT !["allow"] = TRUE])
              /\ mishaps' = mishaps \cup late
                    \cup IF resolver = None THEN {} ELSE {"switchedOn"}
              /\ UNCHANGED left
           \/ /\ t.op = "off"
              /\ Push([j \in Jobs |-> None], switches)
              /\ mishaps' = mishaps \cup late
              /\ UNCHANGED <<settings, file, left>>
           \/ /\ Spend("fail")
              /\ Change(With(FALSE))
              /\ mishaps' = mishaps \cup late \cup {"reloadFailed"}
              /\ UNCHANGED pushes
        /\ UNCHANGED <<sharing, wan, resolver, counted, diskVars>>

OnSharingStopped(k) ==
    /\ Done(k) /\ tasks[k].op = "stop"
    /\ pending' = "none" /\ tasks' = Without(k)
    /\ sharing' = FALSE /\ wan' = FALSE
    /\ resolver' = None /\ pushes' = <<>>
    /\ mishaps' = mishaps \cup Interrupted("StoppingSharing")
    /\ UNCHANGED <<settings, file, counted, diskVars, left>>

AnswerStep ==
    \E k \in DOMAIN tasks :
        \/ DiscardStale(k) \/ OnResolverStarted(k) \/ OnListsRefreshed(k)
        \/ OnWanDetected(k) \/ OnFirewallReloaded(k) \/ OnSharingStopped(k)

\* A push gets the lock; nothing keeps the pushes in order.
ApplyPush(i) ==
    LET p == pushes[i]
    IN  /\ resolver' = [set |-> [j \in Jobs |-> IF p.set[j] = None
                                                THEN resolver.set[j]
                                                ELSE p.set[j]],
                        on  |-> p.on]
        /\ pushes' = RemoveAt(pushes, i)
        /\ IF i > 1 THEN Spend("overtake") /\ mishaps' = mishaps \cup {"overtaken"}
                    ELSE UNCHANGED <<left, mishaps>>
        /\ UNCHANGED <<settings, file, sharing, wan, pending, counted,
                       diskVars, tasks>>

PushStep == \E i \in DOMAIN pushes : ApplyPush(i)

-----------------------------------------------------------------------------
(* The world. *)

\* The program ends, at any moment, and is started again; the file may have
\* been edited, or be gone.
Restart ==
    /\ Spend("restart")
    /\ file' \in {file, None} \cup Edits
    /\ settings' = Load(file')
    /\ sharing' = FALSE /\ wan' = FALSE /\ resolver' = None
    /\ pending' = "none" /\ counted' = FALSE
    /\ tasks' = <<>> /\ pushes' = <<>> /\ mishaps' = {}
    /\ UNCHANGED diskVars

Publish(u) ==
    /\ Spend("publish") /\ remote[u] + 1 \in Versions
    /\ remote' = [remote EXCEPT ![u] = @ + 1]
    /\ UNCHANGED <<appVars, cache, fresh, tasks, pushes, mishaps>>

\* refresh_interval_hours go by.
Age ==
    /\ Spend("age")
    /\ fresh' = {}
    /\ UNCHANGED <<appVars, cache, remote, tasks, pushes, mishaps>>

WorldStep == Restart \/ Age \/ \E u \in Urls : Publish(u)

Init ==
    /\ file \in Edits \cup {None} /\ settings = Load(file)
    /\ cache = [u \in Urls |-> None] /\ fresh = {}
    /\ remote = [u \in Urls |-> 0]
    /\ sharing = FALSE /\ wan = FALSE /\ resolver = None
    /\ pending = "none" /\ counted = FALSE
    /\ tasks = <<>> /\ pushes = <<>> /\ mishaps = {}
    /\ left \in Budgets

Next == KeyStep \/ LoadStep \/ AnswerStep \/ PushStep \/ WorldStep

Spec == Init /\ [][Next]_vars

\* The runtime runs every task and the App takes every answer; nothing is
\* owed by the user or by the world.
FairSpec == Spec /\ WF_vars(LoadStep) /\ WF_vars(AnswerStep) /\ WF_vars(PushStep)

-----------------------------------------------------------------------------
(* Every variable holds a value of its type. *)
TypeOK ==
    /\ settings \in [Jobs -> Setting]
    /\ file \in [Jobs -> Setting] \cup {None}
    /\ cache \in [Urls -> Versions \cup {None}]
    /\ remote \in [Urls -> Versions]
    /\ \A u \in fresh : u \in Urls /\ cache[u] # None
    /\ {sharing, wan, counted} \subseteq BOOLEAN
    /\ resolver = None \/ (sharing /\ resolver \in Lists)
    /\ pending \in PendingOps
    /\ \A t \in Range(tasks) : t \in Tasks
    /\ \A p \in Range(pushes) : resolver # None /\ p.on \in [Jobs -> BOOLEAN]
    /\ mishaps \subseteq Mishaps
    /\ left \in [Events -> Nat]

(* Whatever the file held, the bundled sources are there, each once, in    *)
(* their order and before the others (ListSetting::ensure_builtins).       *)
BuiltinsFirst ==
    \A j \in Jobs :
        LET urls == [i \in DOMAIN settings[j].sources |->
                        settings[j].sources[i].url]
            n == Len(Builtins[j])
        IN  /\ IsPrefix(Builtins[j], urls)
            /\ \A i \in DOMAIN urls : i > n => urls[i] \notin Range(Builtins[j])

(* The program may die at any moment: the next one finds the settings as   *)
(* they are shown now (save_preferences in every handler that changes      *)
(* them, fill_list_source_defaults).                                       *)
SurvivesCrash == Load(file) = settings

\* What `--check` compares: file and cache against the running resolver.
Agrees == \A name \in Names : Classify(name, resolver) = StatusClassify(name)

(* At rest the LAN is answered as `tunshare status --check` says from the  *)
(* settings and the cache, unless one of the mishaps happened since the    *)
(* last load that was begun at rest and applied.                           *)
StatusAgrees == Quiet /\ resolver # None /\ mishaps = {} => Agrees

(* A job that is switched on during a session filters at once: the toggle  *)
(* swaps the live matching state (resolver.rs:36).                         *)
SwitchedOnIsServed ==
    Quiet /\ resolver # None /\ mishaps \subseteq {"switchedOn"} => Agrees

(* A list that was published longer ago is not put over a newer one that   *)
(* the cache already has, unless a load was cancelled or a URL is in both  *)
(* jobs.                                                                   *)
CacheOnlyAdvances ==
    [][\A u \in Urls : cache[u] # None /\ mishaps \cap {"cancelled", "twice"} = {}
            => cache'[u] >= cache[u]]_vars

(* Loads, reloads and pushes end, whatever fails, and nothing stays        *)
(* pending: the screen is released and the resolver has its last push.     *)
Settles == []<>(Quiet /\ pending = "none")
=============================================================================
