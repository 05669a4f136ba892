----------------------------- MODULE MCFilters -----------------------------
(* An instance of Filters: one bundled source per job, one that is off by  *)
(* default, a custom one, and names that are in a list themselves, by a    *)
(* parent domain, in both jobs, or in none.                                *)
EXTENDS Filters, TLC

CONSTANTS hosts, more, direct, custom,    \* sources
          ads, wwwads, shop, other        \* names

MCCustoms == {custom}
MCBuiltins == [j \in Jobs |-> IF j = "block" THEN <<hosts, more>> ELSE <<direct>>]
MCDefaultOn == {hosts, direct}
MCVersions == 0..1

Contents(old, new) == [v \in MCVersions |-> IF v = 0 THEN old ELSE new]
MCBody == hosts  :> Contents({ads}, {ads, shop})
       @@ more   :> Contents({other}, {other})
       @@ direct :> Contents({shop, ads}, {shop})
       @@ custom :> Contents({wwwads}, {})

MCParents == ads :> {ads} @@ wwwads :> {wwwads, ads} @@ shop :> {shop}
              @@ other :> {other}

On(u) == [url |-> u, on |-> TRUE]
Off(u) == [url |-> u, on |-> FALSE]

\* An old release wrote customs before the bundled sources and did not know
\* one of them; one URL is there twice.
OldFile ==
    [j \in Jobs |-> IF j = "block"
                    THEN [enabled |-> TRUE,
                          sources |-> <<On(custom), On(hosts), Off(hosts)>>]
                    ELSE [enabled |-> TRUE, sources |-> <<On(direct)>>]]
MCEdits == {OldFile}

Allow(some) == [e \in Events |-> IF e \in DOMAIN some THEN some[e] ELSE 0]

\* Lists and switches that change during a session; reloads that fail or are
\* cancelled; pushes out of order; sources fetched behind the session's back;
\* custom sources and a restart; one URL in both jobs; a start that is
\* cancelled and another one; a second session from the cache of the first.
MCBudgets ==
    {Allow([start |-> 1, source |-> 1, refresh |-> 1, publish |-> 1, switch |-> 1]),
     Allow([start |-> 1, switch |-> 3, refresh |-> 1, fail |-> 1]),
     Allow([start |-> 1, switch |-> 2, stop |-> 1, cancel |-> 2, fail |-> 1]),
     Allow([start |-> 1, switch |-> 2, refresh |-> 1, source |-> 1, overtake |-> 1]),
     Allow([start |-> 1, switch |-> 1, fail |-> 2, open |-> 1, refresh |-> 1]),
     Allow([custom |-> 2, restart |-> 1, open |-> 1]),
     Allow([custom |-> 1, publish |-> 1, start |-> 1, switch |-> 1]),
     Allow([start |-> 2, cancel |-> 2, stop |-> 1, refresh |-> 1]),
     Allow([start |-> 2, stop |-> 1, publish |-> 1, age |-> 1, fail |-> 1])}

SwitchBudgets == {Allow([start |-> 1, switch |-> 1, refresh |-> 1])}
=============================================================================
