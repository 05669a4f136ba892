------------------------------- MODULE PfMain -------------------------------
(***************************************************************************)
(* The main rule set of pf, which tunshare shares with every other program *)
(* of the machine: how system/firewall.rs merges its hooks into it and     *)
(* strips them again, step by step, while other programs edit it, and what *)
(* the health check and `tunshare status` read back from it (parse_pf,     *)
(* PfContract, status.rs).                                                 *)
(*                                                                         *)
(* A line is its first word, the words of it that the code searches for,   *)
(* and the interface the code reads from it.                               *)
(***************************************************************************)
EXTENDS Integers, Sequences, FiniteSets, SequencesExt, Sieve

CONSTANTS Settings,     \* what a session may load: [vpn, lan, wan]
          Foreign,      \* files that others may load as MAIN
          ForeignLines, \* rules that others may add to MAIN
          DefaultConf,  \* the lines of /etc/pf.conf
          Interfaces, None,
          Budgets       \* scenarios: how often each event may happen

Events == {"restore", "cleanup", "rewrite", "flush", "add", "fail"}
Words == {"com.tunshare", "*", "natpmp", "<bypass>", "! <bypass>", "port 53",
          "route-to", "keep state", "skip on lo0"}
FirstWords == {"set", "table", "scrub", "scrub-anchor", "dummynet-anchor",
               "nat", "rdr", "nat-anchor", "rdr-anchor", "anchor", "pass"}
Line == [first : FirstWords, has : SUBSET Words, on : Interfaces \cup {None}]
Of(firsts) == {line \in Line : line.first \in firsts}
With(word) == {line \in Line : word \in line.has}

\* Options and tables are no rules.
Rule == Line \ Of({"set", "table"})
Translations == {"nat", "rdr", "nat-anchor", "rdr-anchor"}

\* is_tunshare_main_line: also what only looks like a line of tunshare.
IsOurs(line) ==
    \/ line.has \cap {"skip on lo0", "com.tunshare", "<bypass>", "! <bypass>"}
           # {}
    \/ /\ line.first \in {"rdr-anchor", "nat-anchor", "anchor"}
       /\ "natpmp" \in line.has
    \/ line.first \in {"rdr", "rdr-anchor"} /\ "port 53" \in line.has
    \/ {"route-to", "keep state"} \subseteq line.has
Ours == {line \in Line : IsOurs(line)}

\* /etc/pf.conf is the machine's own: no rule of it looks like one of tunshare.
ASSUME PfMainAssumption ==
    /\ None \notin Interfaces
    /\ Settings \subseteq [vpn : Interfaces, lan : Interfaces,
                           wan : Interfaces \cup {None}]
    /\ Foreign \cup {DefaultConf} \subseteq Seq(Line)
    /\ ForeignLines \subseteq Rule
    /\ Range(DefaultConf) \cap Rule \cap Ours = {}
    /\ Budgets \subseteq [Events -> Nat]

VARIABLES main,      \* the rules of MAIN
          others,    \* the rules that other programs want in it
          raced,     \* whether they were changed while a task was between
                     \* its reads and its load, or a read failed
          body,      \* the lines of the anchor com.tunshare
          bodyFile,  \* /tmp/tunshare_pf.conf, or None
          mainFile,  \* /tmp/tunshare_pf_main.conf, or None
          tasks,     \* restores and cleanups under way
          last,      \* the task that succeeded last, as long as nothing has
                     \* happened beside it or since
          left       \* what is left of the budget of this behaviour

vars == <<main, others, raced, body, bodyFile, mainFile, tasks, last, left>>

L(first, has, on) == [first |-> first, has |-> has, on |-> on]

-----------------------------------------------------------------------------
(* The lines tunshare writes. *)

Skip == L("set", {"skip on lo0"}, None)

\* MAIN_HOOKS
Hook(kind) == <<L(kind, {"com.tunshare"}, None),
                L(kind, {"com.tunshare", "*"}, None)>>
ScrubHooks == Hook("scrub-anchor")
NatHooks == Hook("nat-anchor") \o Hook("rdr-anchor")
FilterHooks == Hook("anchor")
MainHooks == ScrubHooks \o NatHooks \o FilterHooks

\* generate_rules, with its macros expanded.
Rules(s) ==
    LET bypass == s.wan # None
        When(lines) == IF bypass THEN lines ELSE <<>>
        rest == IF bypass THEN {"! <bypass>"} ELSE {}
    IN  When(<<L("table", {"<bypass>"}, None)>>)
        \o <<L("scrub", {}, None), L("scrub", rest, s.lan),
             L("scrub", {}, s.vpn), L("nat", rest, s.vpn)>>
        \o When(<<L("nat", {"<bypass>"}, s.wan)>>)
        \o <<L("rdr", {"port 53"}, s.lan), L("rdr", {"port 53"}, s.lan)>>
        \o When(<<L("pass", {"route-to", "<bypass>", "keep state"}, s.wan),
                  L("pass", {"keep state"}, s.wan)>>)
        \o <<L("pass", {"keep state"}, s.lan), L("pass", {"keep state"}, s.vpn)>>

-----------------------------------------------------------------------------
(* Merging and stripping. *)

\* Mutant: scrub-anchor stays where pfctl -sr shows it, among the filters.
SectionNaive(line) ==
    CASE line.first = "set"             -> "options"
      [] line.first = "scrub"           -> "scrub"
      [] line.first = "dummynet-anchor" -> "queue"
      [] line.first \in Translations    -> "nat"
      [] OTHER                          -> "filter"

\* classify_main_line
Section(line) ==
    CASE line.first = "set"                         -> "options"
      [] line.first \in {"scrub", "scrub-anchor"}   -> "scrub"
      [] line.first = "dummynet-anchor"             -> "queue"
      [] line.first \in Translations                -> "nat"
      [] line.first \in {"table", "anchor", "pass"} -> "filter"

Others(text) == Only(text, Line \ Ours)
RemainingMainIsEmpty(text) == Others(text) = <<>>

\* bucket_main_lines
Bucket(text, section) ==
    Only(Others(text), {line \in Line : Section(line) = section})

\* assemble_main: the hooks stand before the translations and the filters of
\* others, after their normalizations.
Assemble(text, injectHooks) ==
    LET When(hooks) == IF injectHooks THEN hooks ELSE <<>>
    IN  <<Skip>> \o Bucket(text, "options") \o Bucket(text, "scrub")
        \o When(ScrubHooks) \o Bucket(text, "queue") \o When(NatHooks)
        \o Bucket(text, "nat") \o When(FilterHooks) \o Bucket(text, "filter")

\* Mutant: the filter anchors of others are taken for ours.
MergeForgets(text) == Assemble(Only(text, Line \ Of({"anchor"})), TRUE)

OrderMain(text) == Assemble(text, FALSE)
MergeMain(text) == IF RemainingMainIsEmpty(text) THEN <<Skip>> \o MainHooks
                   ELSE Assemble(text, TRUE)

-----------------------------------------------------------------------------
(* pfctl. *)

\* -f refuses a file whose sections are out of order.
Place(line) == CASE line.first \in {"set", "table"}            -> 1
                 [] line.first \in {"scrub", "scrub-anchor"}   -> 2
                 [] line.first = "dummynet-anchor"             -> 3
                 [] line.first \in Translations                -> 4
                 [] line.first \in {"anchor", "pass"}          -> 5
InOrder(file) ==
    \A i, k \in DOMAIN file : i < k => Place(file[i]) <= Place(file[k])
Loaded(file) == Only(file, Rule)

\* -sn and -sr: neither shows options or tables.
ShowNat(rules) == Only(rules, Of(Translations))
ShowRules(rules) == Only(rules, Rule \ Of(Translations))
Show(rules) == ShowNat(rules) \o ShowRules(rules)

-----------------------------------------------------------------------------
(* What is read back: contract_from_text, parse_pf, main_hooks_present. *)

HooksPresent(text) ==
    \A kind \in {"scrub-anchor", "nat-anchor", "rdr-anchor", "anchor"},
       child \in BOOLEAN :
        \E line \in Range(text) : /\ line.first = kind
                                  /\ "com.tunshare" \in line.has
                                  /\ ("*" \in line.has) = child

FirstOn(lines) == IF lines = <<>> THEN None ELSE lines[1].on
LastOn(lines) == IF lines = <<>> THEN None ELSE lines[Len(lines)].on

\* Mutant: any NAT is the NAT of the tunnel.
ParseAnyNat(text) ==
    LET nats == Only(text, Of({"nat"}))
        dns == Only(text, Of({"rdr"}) \cap With("port 53"))
    IN  [vpn |-> LastOn(nats), lan |-> LastOn(dns), wan |-> None,
         dnsRdr |-> dns # <<>>, bypassNat |-> FALSE, routeTo |-> FALSE]

ParsePf(text) ==
    LET dns == Only(text, Of({"rdr"}) \cap With("port 53"))
        wan == Only(text, Of({"nat"}) \cap With("<bypass>"))
        vpn == Only(text, Of({"nat"}) \ With("<bypass>"))
        hop == Only(text, (With("route-to") \ Of({"rdr", "nat"}))
                              \cap (With("<bypass>") \cup With("! <bypass>")))
    IN  [vpn |-> FirstOn(vpn), lan |-> LastOn(dns),
         wan |-> IF hop # <<>> THEN LastOn(hop) ELSE LastOn(wan),
         dnsRdr |-> dns # <<>>, bypassNat |-> wan # <<>>, routeTo |-> hop # <<>>]

\* What the body lacks is looked for in MAIN if the body has no DNS redirect.
Contract(mainText, bodyText) ==
    LET own == ParsePf(bodyText)
        old == ParsePf(IF own.dnsRdr THEN <<>> ELSE mainText)
        Either(mine, other) == IF mine = None THEN other ELSE mine
    IN  [hooks |-> HooksPresent(mainText),
         vpn |-> Either(own.vpn, old.vpn), lan |-> Either(own.lan, old.lan),
         wan |-> Either(own.wan, old.wan), dnsRdr |-> own.dnsRdr \/ old.dnsRdr,
         bypassNat |-> own.bypassNat \/ old.bypassNat,
         routeTo |-> own.routeTo \/ old.routeTo]

\* PfContract: miss_message.
Missing(pf, bypassOn) ==
    \/ ~pf.hooks
    \/ IF bypassOn THEN ~pf.routeTo \/ ~pf.bypassNat ELSE ~pf.dnsRdr

\* status.rs: sharing_state, and what `tunshare status` finds amiss.
SharingState(alive, dnsRdr) ==
    IF alive THEN IF dnsRdr THEN "Running" ELSE "TuiIdle"
    ELSE IF dnsRdr THEN "Leftover" ELSE "Stopped"

Mismatches(alive, pf, bypassOn, tableShown) ==
    CASE SharingState(alive, pf.dnsRdr) = "TuiIdle"  -> {"not started"}
      [] SharingState(alive, pf.dnsRdr) = "Leftover" -> {"leftover rules"}
      [] SharingState(alive, pf.dnsRdr) = "Stopped"  -> {}
      [] SharingState(alive, pf.dnsRdr) = "Running"  ->
             {m \in {"no hooks", "no bypass rules", "no uplink", "no table"} :
                 CASE m = "no hooks"        -> ~pf.hooks
                   [] m = "no bypass rules" -> bypassOn /\ pf.hooks
                                               /\ Missing(pf, TRUE)
                   [] m = "no uplink"       -> bypassOn /\ pf.wan = None
                   [] m = "no table"        -> bypassOn /\ ~tableShown}

TableShown == \E line \in Range(body) : line.first = "table"
Live == Contract(Show(main), Show(body))    \* inspect_live

-----------------------------------------------------------------------------
(* Tasks: restore_contract and cleanup_sync_impl, a step for each call that *)
(* others can come between.                                                *)

Spend(event) == /\ left[event] > 0
                /\ left' = [left EXCEPT ![event] = @ - 1]

Set(k, task) == tasks' = [tasks EXCEPT ![k] = task] /\ UNCHANGED last
End(k, ok) == /\ tasks' = RemoveAt(tasks, k)
              /\ last' = IF ok /\ tasks[k].calm THEN tasks[k] ELSE None
Disturbed(ts) == [k \in DOMAIN ts |-> [ts[k] EXCEPT !.calm = FALSE]]

Begin(kind, set, pc) ==
    /\ tasks' = Append(Disturbed(tasks),
                       [kind |-> kind, set |-> set, pc |-> pc, read |-> <<>>,
                        calm |-> tasks = <<>>])
    /\ last' = None
    /\ UNCHANGED <<main, others, raced, body, bodyFile, mainFile>>

BeginRestore == /\ Spend("restore")
                /\ \E set \in Settings : Begin("restore", set, "write")
BeginCleanup == Spend("cleanup") /\ Begin("cleanup", None, "flush")

\* pfctl gives up, or cannot be run.
Fails(k) ==
    /\ tasks[k].pc \in {"body", "check", "load"} /\ tasks[k].kind = "restore"
    /\ Spend("fail")
    /\ End(k, FALSE)
    /\ UNCHANGED <<main, others, raced, body, bodyFile, mainFile>>

\* A cleanup goes on without it.
GoesOn(k) ==
    LET t == tasks[k]
        loads == t.pc = "load" \/ (t.pc = "merge" /\ Others(t.read) = <<>>)
    IN  /\ t.kind = "cleanup" /\ (t.pc = "flush" \/ loads)
        /\ Spend("fail")
        /\ Set(k, [t EXCEPT !.pc = IF loads THEN "files" ELSE "nat",
                            !.calm = FALSE])
        /\ UNCHANGED <<main, others, raced, body, bodyFile, mainFile>>

WriteBody(k) ==
    /\ tasks[k].pc = "write"
    /\ bodyFile' = Rules(tasks[k].set)
    /\ Set(k, [tasks[k] EXCEPT !.pc = "body"])
    /\ UNCHANGED <<main, others, raced, body, mainFile, left>>

\* Whatever the file holds by now is loaded.
LoadBody(k) ==
    /\ tasks[k].pc = "body"
    /\ IF bodyFile = None
       THEN End(k, FALSE) /\ UNCHANGED body
       ELSE Set(k, [tasks[k] EXCEPT !.pc = "nat"]) /\ body' = bodyFile
    /\ UNCHANGED <<main, others, raced, bodyFile, mainFile, left>>

FlushAnchor(k) ==
    /\ tasks[k].pc = "flush"
    /\ body' = <<>>
    /\ Set(k, [tasks[k] EXCEPT !.pc = "nat"])
    /\ UNCHANGED <<main, others, raced, bodyFile, mainFile, left>>

\* snapshot_main: two reads; one that fails shows nothing.
Read(k) ==
    /\ LET t == tasks[k]
           shown == IF t.pc = "nat" THEN ShowNat(main) ELSE ShowRules(main)
           next == IF t.pc = "nat" THEN "filter" ELSE "merge"
       IN  /\ t.pc \in {"nat", "filter"}
           /\ \/ /\ Set(k, [t EXCEPT !.pc = next, !.read = @ \o shown])
                 /\ UNCHANGED <<raced, left>>
              \/ /\ Spend("fail") /\ raced' = TRUE
                 /\ Set(k, [t EXCEPT !.pc = next])
              \/ /\ t.kind = "restore"    \* an error of either ends the snapshot
                 /\ Spend("fail") /\ raced' = TRUE
                 /\ Set(k, [t EXCEPT !.pc = "merge", !.read = <<>>])
    /\ UNCHANGED <<main, others, body, bodyFile, mainFile>>

WriteMerged(k) ==
    /\ tasks[k].pc = "merge" /\ tasks[k].kind = "restore"
    /\ mainFile' = MergeMain(tasks[k].read)
    /\ Set(k, [tasks[k] EXCEPT !.pc = "check"])
    /\ UNCHANGED <<main, others, raced, body, bodyFile, left>>

\* validate_pfctl
CheckMerged(k) ==
    /\ tasks[k].pc = "check"
    /\ IF mainFile # None /\ InOrder(mainFile)
       THEN Set(k, [tasks[k] EXCEPT !.pc = "load"]) ELSE End(k, FALSE)
    /\ UNCHANGED <<main, others, raced, body, bodyFile, mainFile, left>>

\* Whether a task is between its first read and its load.
Relies(ts) == \E t \in Range(ts) : t.pc \in {"filter", "merge", "check", "load"}

\* Without a rule of anyone else the machine's own configuration is put back.
Strip(k) ==
    LET stripped == Others(tasks[k].read)
    IN  /\ tasks[k].pc = "merge" /\ tasks[k].kind = "cleanup"
        /\ IF RemainingMainIsEmpty(stripped)
           THEN /\ main' = Loaded(DefaultConf)
                /\ others' = IF others = <<>> THEN main' ELSE others
                /\ raced' = (raced \/ Relies(RemoveAt(tasks, k)))
                /\ Set(k, [tasks[k] EXCEPT !.pc = "files"])
                /\ UNCHANGED mainFile
           ELSE /\ mainFile' = OrderMain(stripped)
                /\ Set(k, [tasks[k] EXCEPT !.pc = "load"])
                /\ UNCHANGED <<main, others, raced>>
        /\ UNCHANGED <<body, bodyFile, left>>

\* A cleanup goes on after an error, and reports it at its end.
LoadMain(k) ==
    LET t == tasks[k]
        ok == mainFile # None /\ InOrder(mainFile)
    IN  /\ t.pc = "load"
        /\ main' = IF ok THEN Loaded(mainFile) ELSE main
        /\ IF t.kind = "restore" THEN End(k, ok)
           ELSE Set(k, [t EXCEPT !.pc = "files", !.calm = @ /\ ok])
        /\ UNCHANGED <<others, raced, body, bodyFile, mainFile, left>>

RemoveFiles(k) ==
    /\ tasks[k].pc = "files"
    /\ bodyFile' = None /\ mainFile' = None
    /\ End(k, TRUE)
    /\ UNCHANGED <<main, others, raced, body, left>>

TaskStep == \E k \in DOMAIN tasks :
    \/ Fails(k) \/ GoesOn(k) \/ WriteBody(k) \/ LoadBody(k) \/ FlushAnchor(k)
    \/ Read(k) \/ WriteMerged(k) \/ CheckMerged(k) \/ Strip(k) \/ LoadMain(k)
    \/ RemoveFiles(k)

-----------------------------------------------------------------------------
(* Other programs. *)

Edit(event, rules, wanted) ==
    /\ Spend(event)
    /\ main' = rules /\ others' = wanted
    /\ raced' = (raced \/ Relies(tasks))
    /\ tasks' = Disturbed(tasks) /\ last' = None
    /\ UNCHANGED <<body, bodyFile, mainFile>>

\* A VPN or the system loads its own MAIN.
Rewrite == \E file \in Foreign :
               Edit("rewrite", Loaded(file), Others(Loaded(file)))
FlushRules == Edit("flush", ShowNat(main), ShowNat(others))    \* pfctl -Fr
Added(rules, line) ==
    LET behind == {l \in Line : Place(l) > Place(line)}
    IN  Only(rules, Line \ behind) \o <<line>> \o Only(rules, behind)
Add == \E line \in ForeignLines :
           Edit("add", Added(main, line),
                IF IsOurs(line) THEN others ELSE Added(others, line))

Init ==
    /\ main \in {Loaded(file) : file \in Foreign} /\ others = Others(main)
    /\ raced = FALSE
    /\ body = <<>> /\ bodyFile = None /\ mainFile = None
    /\ tasks = <<>> /\ last = None
    /\ left \in Budgets

Next == BeginRestore \/ BeginCleanup \/ TaskStep \/ Rewrite \/ FlushRules \/ Add

Spec == Init /\ [][Next]_vars

-----------------------------------------------------------------------------

At(place) == {line \in Line : Place(line) = place}
SameRules(a, b) == \A place \in 1..5 : Only(a, At(place)) = Only(b, At(place))

(* However restores and cleanups of tunshare interleave, over the files    *)
(* they share, the rules of other programs stay in MAIN, in their order in *)
(* each section, unless MAIN is edited, or put back to /etc/pf.conf,       *)
(* between a read and the load that is based on it, or a read fails        *)
(* (merge_main, order_main).                                               *)
OthersAreKept == raced \/ SameRules(Others(main), others)

(* What tunshare is about to load into MAIN is a file that pf accepts,     *)
(* with every hook once at most, and those for translation and filtering   *)
(* before the rules of anyone else, whatever MAIN was like before          *)
(* (assemble_main).                                                        *)
MergeStands ==
    mainFile # None =>
        /\ InOrder(mainFile)
        /\ \A i, k \in DOMAIN mainFile :
              mainFile[i] \in Range(MainHooks) =>
                  /\ mainFile[i] = mainFile[k] => i = k
                  /\ /\ Place(mainFile[i]) = Place(mainFile[k])
                     /\ Place(mainFile[i]) > 3
                     /\ ~IsOurs(mainFile[k])
                     => i < k

(* A restore that says it worked, and that nothing ran beside, is seen as  *)
(* one: the health check and the status command miss nothing and name the  *)
(* interfaces it was for.  After such a cleanup nothing of tunshare is     *)
(* left, and status says it is stopped (inspect_live, mismatches).         *)
ResultIsSeen ==
    last # None =>
        IF last.kind = "restore"
        THEN LET bypassOn == last.set.wan # None
             IN  /\ ~Missing(Live, bypassOn)
                 /\ Mismatches(TRUE, Live, bypassOn, TableShown) = {}
                 /\ Live.vpn = last.set.vpn /\ Live.lan = last.set.lan
                 /\ Live.wan = last.set.wan
        ELSE /\ ~\E line \in Range(main \o body) : IsOurs(line)
             /\ bodyFile = None /\ mainFile = None
             /\ SharingState(FALSE, Live.dnsRdr) = "Stopped"
=============================================================================
