# tunshare: a verification project

tunshare shares a macOS VPN tunnel with a wired LAN. It turns IP forwarding on,
loads pf rules, runs a LAN resolver, dnsmasq and a NAT-PMP server, follows the
VPN from tunnel to tunnel, and promises to leave the machine as it found it.
This directory models it in TLA+, checks the models with TLC and proves the
main theorems with TLAPS. Source paths are relative to the repository
(`src/` is its code).

## 1. Inventory

The program is one UI thread (`run_app`, 50 ms frames) that owns an `App`;
everything slow is a tokio task that answers once on an unbounded channel which
the UI thread drains every frame. `pending_op` locks the keyboard to Esc and q
while an operation is under way. `tunshare status` and `tunshare doctor` are
processes of their own that read the same machine.

| Component | State | Operations | Hard behaviour | Correct if |
|---|---|---|---|---|
| Session lifecycle: `app/input.rs`, `app/result.rs`, `app/async_ops.rs`, `app/mod.rs`, `session.rs`, `main.rs` | `pending_op`, screen, `SharingSession` with its two managers, queued results | start (chain of resolver, DHCP, NAT-PMP), stop, cancel, quit, toggle the bypass, follow a tunnel | managers travel through tasks; cancelled tasks go on; results arrive in another world; timeouts drop a future between two commands; Ctrl+C and panics drop everything | the machine is given back; live rules stay; the screen is true; nothing stays pending |
| Host managers: `system/firewall.rs`, `sysctl.rs`, `dhcp.rs` | pf anchor and MAIN hooks, original forwarding state, dnsmasq | load, heal, cleanup, enable, restore; `Drop` | two writes per load; undo commands that fail and are ignored; `Drop` of a manager nobody thinks of | every change is undone by who made it, as far as the commands to undo it succeed |
| pf's main rule set: `system/firewall.rs`, pf part of `status.rs` | MAIN, the anchor, two files under `/tmp` | generate, snapshot, merge, check, load, strip; read back as a contract | foreign rules, other programs between a read and a load, files shared by two tasks | idempotent; foreign rules kept; what was loaded is recognised |
| Health and self-heal: `health.rs` | none; reads pf and the default route | probe, heal, drop strategies | probe overtaken by stop, reload, swap | the upstream follows the route; a dead VPN stops the session |
| NAT-PMP server: `system/natpmp.rs` | mapping table, anchor `com.tunshare/natpmp`, shutdown channel | map, renew, delete (three ways), expire, start, stop | reload and two flushes of one anchor from two tasks; port exhaustion | anchor = table; true answers; others' mappings untouched |
| LAN resolver: `system/resolver.rs` | lists, bypass map, pf table | query (UDP, TCP), evict, swap lists, flush, shutdown | map and table written in two steps by concurrent tasks | table entries end; answered addresses are in the table |
| Domain filters: `system/lists.rs`, `config.rs`, lists screen, lists part of `status.rs` | settings, config.json, disk cache, the resolver's sets | switch, edit sources, refresh, push, load at start; restart | stale and cancelled refreshes, pushes in any order, downloads that fail, bodies that age | the resolver, the status command and the settings say the same |
| Screens and keys: `app/input.rs`, `app/state.rs`, `app/dns.rs`, `app/mtu.rs`, `app/result.rs` | screen, cursors, selection, pickers, doctor, lists of interfaces | every key; detection, doctor, installer, DNS discovery and their answers | answers that come after a cancel, cursors over lists that shrank | cursors stay in their lists; a session starts only on what was offered |
| Preferences: `config.rs`, `app/mod.rs` | config.json | DNS server and history, MTU, switches | what is saved when, and what a start makes of it | what was chosen survives a restart |
| Network detection: `system/network.rs` | none; reads interfaces, routes, ARP | choose tunnels, LANs, the WAN uplink | an uplink that leads back into the shared LAN | the uplink lies outside the share |
| Path-MTU probe: `system/pmtu.rs`, clamp in `session.rs` | bounds, retries, budget | ping, bisect, fall back | lost pings, u16 arithmetic, budget | never a black hole; no panic; in time |
| Traffic sampling, log, drawing; checks of the doctor; brew | reports and display | | | |

The App calls managers directly on `Drop`, tasks call them otherwise; the
health task and the reload tasks write the same anchor and the same files;
resolver and reload task share the pf table; session and NAT-PMP task share the
NAT-PMP anchor; the status process shares config.json and the list cache.

## 2. Modules

| Module | Models | State and actions |
|---|---|---|
| `Host` | what tunshare changes on the machine and the managers that undo it | operators on a record `host`: forwarding, anchor body (the upstream it names and whether it carries the bypass), hooks in MAIN, dnsmasq, NAT-PMP server, and which undo commands the machine refuses now (`refuses`) or has refused (`refused`) |
| `Sharing` | App, session, tasks and channel, over `Host` | variables are fields of `App`, one record per task slot, the channel as a sequence of slots. One action per key, per result handler and per command of a task |
| `SharingProperties` | the invariants and properties of `Sharing` | |
| `SharingInvariants` | the inductive invariants behind them, and the scenarios they are for | |
| `Lease` | what the program promises the machine: acquired by a session, used, returned pristine | abstract specification; `ImplementsLease` is the refinement, in which pristine is `GivenBack` |
| `PfMain` | MAIN, the anchor and the files behind them; merge, strip, contract and status verdict as operators on sequences of lines | restores and cleanups as tasks of one step per pfctl call or file; other programs rewrite, flush and extend MAIN |
| `NatPmp` | the NAT-PMP server and the session that starts and stops it | table, anchor, request under way, `pc` of the server task; a unit of time is an expiry interval |
| `Resolver` | resolver loops, TCP tasks, eviction, bypass table | one record per query under way; a unit of time is `EVICT_TICK` |
| `Filters` | settings, file, cache, servers, and the resolver's copy | one action per key of the lists screen and per result; a load takes a step per download and per store; a push is a task; `Restart` is a crash followed by a start |
| `Network` | detection and uplink choice | operators on what the tools report |
| `Sieve` | `Iterator::filter`, as detection, the lists and the lines of pf use it | one recursive function, over a set in the place of a predicate |
| `Screens` | menu, selections, pickers, doctor, installer, preferences, over `Network` | one action per key on each screen and per answer; a task reads the machine in one step and answers in another |
| `PathMtu` | the bisection over lossy pings and the MSS clamp | one action per end of a ping; time in tenths of a second |
| `MCSharing`, `MCFilters`, `MCScreens`, `MCPfMain` | instances: networks, lists, rule sets, and the budgets of each run | |
| `SharingProofs` | theorems of `Sharing`: one task at a time, what follows for the machine, and the four promises of a session | |
| `NatPmpProofs`, `ResolverProofs`, `PathMtuProofs`, `ScreensProofs`, `FiltersProofs`, `PfMainProofs` | theorems of the module each is named after | |
| `SieveProofs` | what a filter, and a removal from a list, yield | |

Definitions whose comment begins with "Mutant" are changed forms of a definition,
each a plausible bug. They are used by no specification; each property has one that breaks it.

How the code's control became actions in `Sharing`:

* A key or a result is handled by one thread without an await, hence in one
  step, with everything the handler calls: `TakenFw`, `GiveBack` and
  `DropSession` are the `Option::take`, the overwriting `restore_managers` and
  the `Drop` impls, in the order in which Rust runs them.
* A task takes one step per command that changes the machine (`Writes`) and one
  for its answer. `TimeoutStep` may end it between any two of them. `LingerStep`
  leaves the command it was awaiting behind, to take effect at any later time.
* The answer is queued in `chan` and handled in order. `DiscardStale` is
  `result_matches_pending`, with the same exceptions as in the code.
* The commands that undo something may fail at any call: `Deny` makes the sysctl,
  the flush of the anchor, the load of the stripped MAIN or the kill of dnsmasq
  fail until `Relent`. As in the code, nobody makes up for it: a restore has
  taken the remembered state before it runs sysctl (sysctl.rs:50), a failed start
  and the session's `Drop` ignore the result, a stop reports it and goes on; rules
  and dnsmasq get a second try when the session is dropped after the stop,
  forwarding does not. `refused` is history: it has what was left undone, for
  forwarding for ever (the memory is gone), for the others until the next command
  about it succeeds.
* `BeginExit` is the App's `Drop` and `RuntimeDrop` that of the tokio runtime:
  what a task holds then is dropped wherever the task is.

`Sharing`, `Filters` and `Screens` are three views of one App: `Sharing` has what
changes the machine, `Filters` what changes the lists, `Screens` how a session is
chosen. Each keeps `pending_op` and of the others' operations only those
that interfere with its own (a reload or a stop ends a list refresh in `Filters`;
starting and stopping is one task each in `Screens`).

In `NatPmp` every pfctl call, the rewrites of the server as well as its last
flush and those of the session, is `Accepted` or `Refused`, and nobody looks
which (natpmp.rs:85, 178-182, 476-501). `fresh` is history: pf took the last one.

In `PfMain` a line of pf is its first word, those of its words the code searches
for, and the interface the code reads from it. `others` is history: what other
programs want in MAIN. `raced` is history too: it is set when MAIN changes while
a task is between its first read and its load, or a read fails, the two cases in
which the code cannot keep foreign rules. `last` and `calm` single out tasks
beside which nothing ran.

In `Filters` a list is the set of (URL, version) whose bodies it was parsed from,
and `Body` says which names are in one. `mishaps` names what may have parted the
resolver from the settings since the last load that was begun at rest and
applied: `cancelled` (a refresh, reload or start lost its operation),
`overtaken` (a push got the lock out of turn), `reloadFailed` (the resolver keeps
its allow flag), `viewed` (the lists screen fills cache and counts but not the
resolver), `twice` (one URL in both jobs), `switchedOn` (see `EmptySwitch`).
Each of these really breaks agreement: without it, `StatusAgrees` fails.

## 3. Runs

`Budget(s)` bound how often each rare event happens in a behaviour (starts,
toggles, cancels, interrupts, failures, timeouts, late commands, heals, swaps,
drops, flushes, spells of refused undo commands, edits of MAIN, published lists, restarts, edits of preferences);
everything else is unbounded. A run with several budgets explores all behaviours
of each: they are chosen so that the events that interact meet, in every order.
Two tunnels are enough because nothing compares more than the old and the new one.

| Run | Question | Bounds |
|---|---|---|
| `Lifecycle` | Is the machine held and given back on the terms of `Lease`? Is the original forwarding state handed on and restored, do live rules stay, is the Active screen true? | three budgets: 2 starts, 1 toggle, 1 failure, 1 timeout, 1 swap; 2 starts, 1 failure, 1 timeout, 1 kind of undo command refused; 2 starts, 2 kinds (or twice one); DHCP and NAT-PMP on; nothing cancelled; 1.7 million states |
| `Cancel` | With two generations of tasks answering one App, do loaded rules keep an owner, does everything pending have a task? | three budgets: 2 starts, 2 cancels, 1 DHCP start that times out; 1 start, 2 toggles, 1 cancel; 1 start, 1 cancel, 1 kind of undo command refused; 3 slots; 1.7 million states |
| `Live` | Does every operation end, every start settle, do rules and session follow the tunnel the route stays on, does AutoStop stop? | five budgets, 1 start each: 2 swaps with a toggle; a swap and a drop; 1 each of failure, lingering command, flush, heal, interrupt; the same with a toggle, without flush and heal; a toggle, a flush and a heal; fair; 296,000 states |
| `PfMain` | Do foreign rules survive, is every file in order, is what was loaded recognised by health check and status? | MAIN of a Mac at rest, of a VPN with its own NAT, of an old tunshare, and empty; two settings, one with a bypass; 2 restores and a cleanup beside each other, or with 1 to 2 edits or failures; 256,000 states |
| `Filters` | Do settings survive a crash, does the cache advance, does everything settle, do resolver and status agree at rest? | one job with two bundled sources, one with one, a custom URL; names listed themselves, by a parent, in both jobs, in none; two versions of each list; nine budgets; 202,000 states; fair |
| `Screens` | Are cursors in their lists, sessions only on what was offered, the uplink outside the share, preferences kept? | five machines (plain, hairpin, unreadable ARP, one subnet on two ports, no tunnel); two presets and two or three typed servers; six groups of starts; 455,000 states |
| `NatPmp` | Section 1, NAT-PMP | 2 clients, 2 ports, 1 protocol (protocols are disjoint key spaces), 2 sessions, 1 refused pf command, lifetime 1 and 2 (capped) |
| `Resolver` | Section 1, resolver | 1 name in any list, 1 address (entries are independent), UDP loop and 1 TCP task, lifetime of 2 ticks over 4, 1 failure, 1 flush, 1 swap of lists |
| `PathMtu` | Section 1, path MTU | link and path MTUs on, beside, below the grid and above the ceiling; replies fast, slow and just in time; any loss pattern |
| `CancelledStart`, `EvictRace`, `EmptySwitch` | disagreements between the code and what it says of itself, see section 6 | the smallest budget that shows each |

Deadlock checking is off: the program may exit, a search ends, and clocks and
budgets run out.

What the properties are for:

* `ImplementsLease`: the end of a session, by whatever way, leaves forwarding,
  pf and dnsmasq as they were, each unless the command that was given to undo it
  was refused, and NAT-PMP at most shutting down. This is the refinement of
  `Lease`. That a refusal of one thing excuses only that thing is what the
  property says of a stop that half fails.
* `OriginalRemembered`, `ForwardingRestored`: the remembered sysctl value is never
  replaced by the one the program itself set, is lost only by a restore that
  sysctl refuses, and is what the program leaves behind if none was refused.
* `RulesStayLoaded`, `RulesHaveOwner`: no `Drop` of a placeholder or of an
  overtaken manager takes down live rules; no rules stay without a manager that
  at least tried to take them out.
* `ActiveIsServed`, `RulesFollowUpstream`: what the screen shows is in the machine.
* `SwapConverges`, `DownStops`, `PendingEnds`, `StartSettles`: what must happen in the end.
* `PendingHasTask`: a spinner is never left behind.
* `OthersAreKept`: however tasks of tunshare interleave, foreign rules keep
  their place and order. `MergeStands`: what is about to be loaded is accepted by
  pf, with every hook once and before foreign translations and filters, so the
  merge is idempotent over anything it may read. `ResultIsSeen`: writer and two
  readers (health check, status) of the rules agree on what they mean.
* `StatusAgrees`: `tunshare status --check`, which classifies from file and
  cache, says what the running resolver does. `SurvivesCrash`: what the App holds is
  what a restart would load. `BuiltinsFirst`: files of old releases and
  hand-made ones are normalised. `CacheOnlyAdvances`, `Settles`.
* `StartIsOffered`: a session starts on a tunnel and a wired LAN that the last
  detection offered, on a subnet no other LAN had then. `UplinkIsOutside`: no
  uplink is found that is a tunnel or an end of the share, or whose gateway was
  seen to be a neighbor on the LAN, though the links change during the search.
  `PreferencesSurvive`: what the App shows is what a restart shows, but for the
  exceptions in section 6. `Screens!TypeOK` includes that every cursor is in its list.
* `AnchorIsTable`, `AnswerIsTrue`, `ExpiredIsClosed`, `OthersAreUntouched`,
  `StopsClean` for NAT-PMP, all but the fourth for the time after a pf command
  that was accepted; `BypassEnds`, `StopFrees` for the resolver;
  `ResultIsCarried`, `ResultIsSharp`, `ClampIsOrdered`, `EndsInTime` for the probe.

Fairness. `Sharing`: weak fairness of every task step (tokio polls ready tasks,
each await has a timeout), of the poll that the UI loop makes in every frame, of
the runtime's drop and of a signalled NAT-PMP task; none for the user or the
machine. `Filters`: weak fairness of loads (every download has a timeout), of
answers and of pushes (tokio's lock is fair). `NatPmp` and `Resolver`: weak
fairness for commands and sends under way; strong fairness for seeing the
shutdown, because `tokio::select!` picks among ready branches at random, so a
branch that is ready again and again is taken. Clients are not fair: they may
flood both servers. `PfMain`, `Screens` and `PathMtu` state safety only.

The clock actions require that a due sweep or eviction is done before the next
tick; the properties `ExpiredIsClosed` and `BypassEnds` say "one interval", and
without this no interval would bound anything.

## 4. Theorems

They hold for every value of the constants that the named assumption of each
module allows: any tunnels, slots and budgets, any links, routes and ARP tables,
any lists, names and edits of the file, any clients, ports and lifetimes, any
MTUs, any addresses and connections. The assumptions are types, the bounds of the
code, and where it matters what the code makes sure of: no source is bundled twice
with a job (`FiltersAssumption`, config.rs:44-69), a config.json that `Screens`
starts from is one the program wrote (`ScreensAssumption`: no double in the
history, an MTU in range), no rule of `/etc/pf.conf` looks like one of tunshare
(`PfMainAssumption`: it is the system's own file, and a cleanup that puts it back
strips nothing from it, firewall.rs:843-853), and a value that stands for "none" is no other value.

### Sharing

Two theorems hold in every scenario. `TypeCorrect` and `PendingOwned` state
`[]TypeOK` and `[]PendingHasTask`. `PendingHasTask` is not inductive: a slot
that is filled, or a command left behind by a task, must not be mistaken for the
task of the pending operation. `PendingInv` adds that an empty slot has no
operation, a left-over command is none that an App waits for, and an App that is
leaving waits for nothing. The proof goes by the kind of step: task steps keep
operations (`OpsKept`), begun operations are launched in the same step, and a
handler that consumes a task clears or hands on what was pending.

The others are false in some scenarios, which section 6 lists. Their hypothesis
names the events that may not occur, as `Never(events)`: no budget has them.
Everything else may happen any number of times; no theorem excludes that undo
commands are refused (`deny`), which the properties except by `refused`.

| Theorem | Property | Without | Because | Invariant |
|---|---|---|---|---|
| `MemoryIsKept` | `OriginalRemembered` | `Disturbances` | a cancelled start is dropped with its managers; a Ctrl+C drops them wherever they are; a command that lingers changes what nobody remembers | `SoloInv` |
| `ForwardingIsRestored` | `ForwardingRestored` | `Disturbances` | the same | `SoloInv` |
| `RulesAreKept` | `RulesStayLoaded` | `Disturbances` | an overlapping reload drops the Firewall of the live rules | `SoloInv` |
| `SessionIsLease` | `ImplementsLease` | `Disturbances`, `Uncertain` | a heal may load rules for a session that is over; a dnsmasq that started after its time-out is known to nobody | `SoloInv`, `AccountedInv` |
| `ActiveMeansServed` | `ActiveIsServed` | `Disturbances`, `Upheavals` | MAIN has no hooks between a flush and the heal, and a late heal overwrites what was loaded since | `SoloInv`, `ServedInv` |
| `RulesAreOwned` | `RulesHaveOwner` | `Losses` | what fails or is cut short between the anchor body and MAIN leaves rules that its Firewall does not count as loaded; a heal has no Firewall | `OwnerInv` |
| `RulesNameUpstream` | `RulesFollowUpstream` | `Disturbances`, `Losses` | a swap that fails half-way leaves the new tunnel in the rules of a session that names the old one | `SoloInv`, `OwnerInv`, `FollowInv` |

`Disturbances` are cancels, interrupts and lingering commands; `Uncertain` heals
and DHCP starts that time out; `Upheavals` heals and flushes of MAIN by others;
`Losses` failures, timeouts, lingering commands and heals. The budgets of
`Lifecycle` meet the first three, those of `Cancel` the last, the first two of
`Live` both that `RulesNameUpstream` needs; that is where TLC checks these
properties too. `RulesAreOwned` is the theorem about cancelled operations: any
number of generations of tasks answer one App there.

* `SoloInv`: one task is at work, the pending one; the managers are with the
  session, or with that task, and nowhere else; whoever has the remembered state
  of forwarding has the original (`Knows`), and who has none finds the machine as
  it was, unless a restore was refused before (`Lost`).
  Every property of the first group is an invariant of the hand-over of the
  managers, which no single variable shows.
* `AccountedInv`: dnsmasq and NAT-PMP run for a session that knows of them or for
  an answer that says so, and without a session the machine is given back
  (`GivenBack`: each part is as it was or its undo was refused).
  `SessionIsLease` is the refinement: every step acquires, uses or returns, or
  changes nothing that `Lease` sees.
* `ServedInv`: how far a start has come and what it has put in place by then;
  from there on, what stays in place under a toggle or a swap.
* `OwnerInv`: rules that are in pf, or are about to be, have a Firewall, in the
  session or in a task, and no result is queued twice (so that no Firewall is
  dropped twice or handed over twice).
* `FollowInv`: from the write of the anchor body to the answer the rules name the
  tunnel that the task carries, which the session adopts with the answer.

### Filters

`TypeCorrect`, `FileIsKept` (`SurvivesCrash`), `BuiltinsStayFirst`
(`BuiltinsFirst`), `CacheOnlyGrows` (`CacheOnlyAdvances`) and `StatusIsTrue`
(`StatusAgrees`), with no hypothesis but the assumption. `IInv` has four parts:

* `Sound`: types; what is cached or being downloaded was published;
  there is a resolver with a session only, and a push with a resolver only; the
  settings are normal (bundled sources first, each once) and what the file is
  read as. `BuiltinsFirst` follows from the order that `EnsureBuiltins` makes, for
  files of any length (`EnsureNormal`), and `SurvivesCrash` from that it changes
  nothing that is normal (`NormalIsKept`).
* `Single`: as long as nothing was cancelled there is at most one task, and it is
  the one that is pending. This is what makes the keyboard lock a lock.
* `Loading`: a load that is by itself (`TracksIn`) has read exactly what the
  cache now has of the sources it is through with, and carries nothing older
  than the cache for the others. It is needed for both: a cache that only
  advances, and a resolver that gets what the cache has.
* `Served`: without a mishap the resolver has, or will have after the pushes that
  wait, the switches and the lists that settings and cache say, unless a load or
  a reload that is under way is about to bring them. The list a job will have is
  that of the last push that brings one, or its own if none does.

### Screens

`TypeCorrect` (with it: no cursor leaves its list), `PreferencesAreKept`
(`PreferencesSurvive`), `UplinksAreOutside` (`UplinkIsOutside`) and
`StartsAreOffered` (`StartIsOffered`). `IInv` has, besides types: beside a
session that is up no screen leads to the selection of another (`Flow`); the file
has what is shown, but that a history may lack the address in use until the next
save (`Prefs`); what a task that probes has read, it has read (`Around`), so that
an uplink it then finds was judged by its own reading and not by a later one;
cursors stay in lists that shrink while they are shown (`Cursors`).

### PfMain

`FilesStand` (`MergeStands`), `OthersStay` (`OthersAreKept`) and `ResultSeen`
(`ResultIsSeen`), for MAINs of any length and content, any settings, any number
of restores and cleanups beside each other, and any edits and failures between
their steps. There are two halves.

The first is about the operators, for any text, and rests on places: pf wants
options, normalizations, queues, translations and filters in this order, and
`Place` says which a line is. `MergeKeeps` and `StripKeeps`: sieved for what
others have at one place, the output is the input. They go section by section
(`SectionKeeps`); the hooks drop out as lines of tunshare, the other buckets as
those of other places. `AssembleStands`: a file that stands, followed by hooks
and by a section of a later or the same place, stands (`TwoStand`); a merge adds
every hook once, since `Others` has removed what looked like one.
`ShownByPlace`, `LoadedByPlace` and `AddedByPlace` say what pf and other
programs do to one place, and `RulesAreParsed` what `parse_pf` reads from the
rules of any settings.

The second is four invariants of the steps.

* `TypeInv`: types, and a file on disk stands. Any task may load what another
  wrote, so the claim is about the file and not about the task.
* `KeptInv`: unless something raced, MAIN has at each place what others want, a
  task that has read the translations has those and nothing else, one that has
  read all has all, and so has the file on disk while a task is about to load
  it. It is indexed by the place because the two reads of a snapshot
  show different places, and neither is MAIN in its order.
* `CalmInv`: a task that nothing ran beside is the only one, and so far has put
  the body of its settings, or nothing, into the anchor, and a file with the
  hooks, or without anything of tunshare, on the disk.
* `LastInv`: as long as nothing has begun since, what succeeded last has done
  all of it. `ResultSeen` reads it back.

### NatPmp, Resolver, PathMtu

* `NatPmpProofs`: `TypeCorrect`, `AnchorFollowsTable` (`AnchorIsTable`),
  `AnswersAreTrue` (`AnswerIsTrue`), `ExpiredAreClosed` (`ExpiredIsClosed`) and
  `ClientsAreIsolated` (`OthersAreUntouched`), from one `IInv`: a request is
  handled from its first change to its answer, between two events the table is in
  pf, what the answer will say holds from the change on, and a sweep leaves
  nothing expired. That `find_external_port` returns the least free port rests on
  `MinIsLeast`, the library's well-foundedness of the natural numbers.
* `ResolverProofs`: `TypeCorrect`, `BypassIsBounded` (`BypassEnds`). `BypassInv`
  separates what the clock does not matter for (every address in the table is
  accounted for by map, a query, the eviction or pf's refusal) from what holds
  between an eviction and the next tick (nothing in the map is expired), which
  needs that a query waiting for the lock carries an expiry that is ahead.
* `PathMtuProofs`: `TypeCorrect`, `NoBlackHole`, `Sharp`, `NoPanic`, `InTime`: the
  five properties of `PathMtu` from one invariant `MtuInv`: `lo` was answered
  and, if nothing was lost, `hi` cannot be; in each phase the time spent is
  bounded by the sizes and waits so far. Sizes on the grid are at least `STEP`
  apart, which gives both the ordered clamp and the sharp result.

### Sequences of any length

Lists of sources, links, tunnels, pushes and rules of pf have no bound in the theorems.
The library's induction theorem takes an operator, which the provers cannot
instantiate; but the well-foundedness it rests on is stated with sets. `SieveProofs`
takes the set of lengths at which a claim about `Only` fails, picks the least one
and derives a contradiction, and so says what a filter keeps, in which order, and
that it distributes over concatenation. That is why `Only` is written
over a set of members and not over a predicate, and why `PfMain` names the kinds of
lines it searches for as sets (`Of`, `With`, `Rule`).

### Only model-checked

* Liveness (`PendingEnds`, `StartSettles`, `SwapConverges`, `DownStops`,
  `StopsClean`, `StopFrees`, `Settles`): out of the prover's reach, as is ENABLED.
  Every other property of a passing run is a theorem.
* `EmptySwitch`, `EvictRace` and `CancelledStart` are counterexamples.
* Every inductive invariant was also checked by TLC, as an invariant of the run
  of its module, before it was proved.

## 5. Not modelled

* Traffic sampling, the log and the drawing: they read state and change none.
* The single checks of the doctor and the DNS probes of `status --check`: I/O
  with a report. When the doctor runs and flushes is in `Screens`, what status
  concludes is in `PfMain` and `Filters`.
* Parsing: of the output of `ifconfig`, `route`, `arp`, of list bodies, of
  requests and DNS packets. A parsed list is a table from bodies to names.
* `Sharing`: the branch of `attach_wan` that fails during a live toggle (it only
  clears the switch; it is in `Filters`). The sysctl is read and written in one step, since nobody
  else writes it; a sysctl that is to set what is set already has no effect to lose. A DHCP start that times out takes effect at once.
* `Resolver`: one session; what its late TCP tasks do to the next is not modelled,
  nor the encoding of answers. `NatPmp`: a server whose handle was lost, and the
  answer with the external address.
* `PfMain`: `/etc/pf.conf` exists (without it a cleanup would leave its hooks);
  a foreign `no nat` line, which the code would take for a filter; the nested
  NAT-PMP anchor (in `NatPmp`) and the contents of tables (in `Resolver`).
* `Filters` and `Screens`: a write of config.json or of the cache that fails or
  is cut short (neither is atomic, config.rs:484, lists.rs:163); the 90 s timeout
  of a whole load, since curl gives up after 30 s and the downloads of a list run at once; the
  debug overlay, the health line, and the wording of presets.
* brew itself, beyond its outcomes.

## 6. What the runs found, and known limits

Findings (violation runs): a start cancelled by quitting leaves forwarding on
(`CancelledStart`); the eviction deletes an address that was just renewed and
answered (`EvictRace`); a list that is switched on during a session filters
nothing until the next refresh (`EmptySwitch`).

Further disagreements between the code and what it says, which the model shows but
no run keeps:

* A quit on a live session waits for a second key: main.rs:319 looks at
  `should_quit` after a key only, input.rs:800-801 says it fires once the stop
  completes (`QuitFires` of `SharingProperties`).
* A heal overtaken by the stop reloads the rules of a session that is over:
  async_ops.rs:606 decides when the probe is spawned; see 464-465 there
  (`RulesHaveOwner` with a heal in the budget).
* Of two reloads that overlap after a cancel, the second result drops the
  Firewall of the live rules: result.rs:417, against result.rs:281
  (`RulesStayLoaded` with a cancel and a toggle).
* A swap after the bypass was switched off puts the bypass back, since the
  session keeps its WAN uplink: async_ops.rs:680, against README.md:128.

The budgets of the passing runs leave out the events under which a property
fails as the code stands, and some properties name an exception; these are:

* The undo commands. One `sysctl -w` that is refused in a stop, after a failed
  start or in the session's `Drop` leaves forwarding on for good: `original_state`
  was taken before (sysctl.rs:50, 77), no later restore knows what to do, and the
  next start remembers "on" as the original. A refused flush leaves rules, a
  refused kill leaves dnsmasq. The stop logs that it failed and the session is
  dropped all the same; the others say nothing (async_ops.rs:331, 340, 358, 380,
  sysctl.rs:79, firewall.rs:288, 512, dhcp.rs:183), although README.md:132 promises
  the teardown without a condition. The properties except what was refused, and
  nothing else.
* NAT-PMP's pf calls. When pf refuses the later of the two flushes of a stop
  after a late reload, the redirects stay until the next start flushes them;
  when it refuses a rewrite, the client is told success for a mapping that does
  not forward, or a closed redirect stays open, until the next rewrite is accepted
  (natpmp.rs:85, 178-182, 492-501). `StopsClean`, `AnchorIsTable`, the pf part of
  `AnswerIsTrue` and `ExpiredIsClosed` are about the time after a command that
  was accepted.
* `ForwardingRestored`, `RulesHaveOwner` do not survive an interrupt (Ctrl+C)
  while a task holds the managers, nor, the former, a cancelled start; hence no
  cancel or interrupt in `Lifecycle`, no heal or interrupt in `Cancel`.
* A command that lingers after its task timed out (`linger`) may load rules for
  a session that is over; `ImplementsLease` therefore runs without it.
* A cancelled or timed-out DHCP start leaves a dnsmasq, a cancelled NAT-PMP start
  a server, that no session knows; hence no such timeout where `ImplementsLease`
  is checked.
* A reload restarts NAT-PMP only if the old server has freed the port in time.
* `RulesFollowUpstream` speaks of the tunnel only, for the sake of the swap above.
  A swap that fails between the anchor body and MAIN's hooks leaves the new tunnel
  in the rules while the session goes on naming the old one, until the next probe
  repeats the swap.
* A late reload or stop result clears whatever is pending. Two starts, or a
  cancelled start followed by `l` and Esc, may show Active over a session that is
  not served.
* A load that fails after its first write, under a start that was cancelled,
  leaves an anchor body without an owner.
* A NAT-PMP deletion that names another client's port is answered as a success
  and deletes nothing. One path-MTU search may take longer than `TOTAL_BUDGET`,
  which is looked at between two sizes (bounded by `EndsInTime`).
* `OthersAreKept` is about rules. `pfctl -sn` and `-sr` show neither options nor
  tables, so a load of MAIN drops those of other programs and puts back
  `set skip on lo0` only. Lines that look like tunshare's (a redirect of port 53,
  `route-to` with `keep state`, an anchor named natpmp) are taken for its own and
  dropped. A read that fails makes MAIN be loaded without what was not read, and
  a restore that has read before a cleanup or another program loads undoes it (`raced`).
* `StatusAgrees` excepts the mishaps of section 2. A stale refresh is taken for a
  newer one (result.rs:126-129 against 144-146); a failed reload leaves the resolver's allow
  flag on (result.rs:442-446); pushes are not ordered (result.rs:491). A built-in
  URL of the other job that was added as a custom source can never be removed.
* `PreferencesSurvive` excepts a forgotten history entry that is still in use
  (it comes back at the next start), and the DHCP switch: `mod.rs:162` masks it with
  whether dnsmasq is there, and any later save persists the mask, against
  config.rs:388-389. A preset server in use enters the history at a load
  (config.rs:460), against dns.rs:83.
* Subnets are compared as of the last detection; the answer of a DNS discovery
  that nobody waits for may be taken for the pending one; the hairpin check looks
  at the first ARP entry of the gateway only (`UplinkIsOutside` says so). With key
  1 a session may start while the cursor is below the menu of a session; Enter
  then does nothing until it is moved.

## 7. Plan

1. Restarts of the resolver: late TCP tasks and the next session's map.
2. Writes of config.json and of the cache that are cut short by a crash.
