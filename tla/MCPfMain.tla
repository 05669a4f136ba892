----------------------------- MODULE MCPfMain -----------------------------
(* An instance of PfMain: two tunnels, one LAN, an uplink, and the MAINs   *)
(* of a Mac at rest, of a VPN, of an old tunshare, and none at all.        *)
EXTENDS PfMain

CONSTANTS utun1, utun2, en0, en5

MCSettings == {[vpn |-> utun1, lan |-> en5, wan |-> None],
               [vpn |-> utun2, lan |-> en5, wan |-> en0]}

\* /etc/pf.conf, and what it becomes in pf.
Apple == <<L("scrub-anchor", {"*"}, None), L("dummynet-anchor", {"*"}, None),
           L("nat-anchor", {"*"}, None), L("rdr-anchor", {"*"}, None),
           L("anchor", {"*"}, None)>>

\* A VPN with NAT of its own.
Vpn == <<L("scrub", {}, utun1), L("nat", {}, utun1), L("anchor", {"*"}, None),
         L("pass", {"keep state"}, en0), L("pass", {"keep state"}, utun1)>>

\* Rules of an earlier version, which had them in MAIN.
Legacy == <<L("nat", {"! <bypass>"}, utun1), L("nat", {"<bypass>"}, en0),
            L("rdr", {"port 53"}, en5), L("anchor", {"natpmp"}, None),
            L("pass", {"route-to", "<bypass>", "keep state"}, en0)>>

MCForeign == {<<>>, Apple, Vpn, Legacy \o SubSeq(Vpn, 4, 4)}
MCForeignLines == {L("nat", {}, en0), L("scrub", {}, en0),
                   L("rdr", {"port 53"}, en0)}

Allow(some) == [e \in Events |-> IF e \in DOMAIN some THEN some[e] ELSE 0]

\* Restores and cleanups beside each other; one after another, over a MAIN
\* that others edit; with calls that fail.
MCBudgets ==
    {Allow([restore |-> 2, cleanup |-> 1]),
     Allow([restore |-> 1, cleanup |-> 1, rewrite |-> 1]),
     Allow([restore |-> 2, rewrite |-> 1]),
     Allow([restore |-> 1, cleanup |-> 1, flush |-> 1, add |-> 1]),
     Allow([restore |-> 1, cleanup |-> 1, fail |-> 2])}
=============================================================================
