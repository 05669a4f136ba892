----------------------------- MODULE MCScreens -----------------------------
(* An instance of Screens: two tunnels, two wired ports, Wi-Fi, and worlds *)
(* in which each kind of refusal happens.                                  *)
EXTENDS Screens, TLC

CONSTANTS lo0, utun1, utun2, en0, en5, en7,
          home, office,             \* networks
          r1, r2, m1, m2,           \* gateways and MACs
          google, quad9, pihole, lab, attic   \* DNS servers

MCLinks == <<lo0, utun1, utun2, en0, en5, en7>>

Down == [up |-> FALSE, addr |-> FALSE, net |-> None, gateway |-> None]
Point == [up |-> TRUE, addr |-> TRUE, net |-> None, gateway |-> None]
In(net, gateway) == [up |-> TRUE, addr |-> TRUE, net |-> net,
                     gateway |-> gateway]
Near(ip, mac, iface) == [ip |-> ip, mac |-> mac, iface |-> iface]
Machine(links, arp, table) ==
    [link |-> [l \in Range(MCLinks) |-> IF l \in DOMAIN links THEN links[l]
                                        ELSE Down],
     arp |-> arp, table |-> table]

\* Wi-Fi (en0) leads out; the share LAN is en5.
Plain == Machine(lo0 :> Point @@ utun1 :> Point @@ en0 :> In(office, r1)
                    @@ en5 :> In(home, None),
                 <<Near(r1, m1, en0)>>, <<utun1, en0>>)

\* Wi-Fi is a client of the router that en5 feeds; en7 leads out, and is
\* further down in the routing table.
Hairpin == Machine(utun1 :> Point @@ utun2 :> Point @@ en0 :> In(office, r1)
                      @@ en5 :> In(home, None) @@ en7 :> In(None, r2),
                   <<Near(r1, m1, en0), Near(r2, m2, en7), Near(r2, m1, en5)>>,
                   <<en0, en7>>)

\* The ARP table cannot be read.
Blind == [Hairpin EXCEPT !.arp = None]

\* Both wired ports are on one subnet; one tunnel is left.
SameSubnet == Machine(utun2 :> Point @@ en5 :> In(home, r1)
                         @@ en7 :> In(home, r1), <<>>, <<en5>>)

\* A wired port that is up, and no tunnel.
NoTunnel == Machine(utun1 :> Down @@ en5 :> In(home, r1), <<>>, <<>>)

MCWorlds == {Plain, Hairpin, Blind, SameSubnet, NoTunnel}

MCDnsPresets == <<google, quad9>>
MCDnsTyped == {google, pihole, lab}
MCMtuPresets == <<1500, 1420>>

Config(custom, history) == [dhcp |-> TRUE, natpmp |-> TRUE, custom |-> custom,
                            history |-> history, mtu |-> 0]
Fresh == Config(None, <<>>)
Allow(some) == [e \in Events |-> IF e \in DOMAIN some THEN some[e] ELSE 0]
Start(files, disks, worlds, some) ==
    [file : files, binary : disks, world : worlds, left : {Allow(some)}]

\* The way to a session, over a world that changes; cancelled operations and
\* their late answers; the doctor; the pickers; the servers and the installer.
MCStarts ==
    Start({Fresh}, {TRUE}, MCWorlds,
          [detect |-> 1, start |-> 1, bypass |-> 1, world |-> 1])
    \cup Start({Fresh}, {TRUE}, {Plain, Hairpin},
               [detect |-> 2, start |-> 2, cancel |-> 2, world |-> 1])
    \cup Start({Fresh}, {TRUE}, {Plain, NoTunnel},
               [detect |-> 1, doctor |-> 3, fail |-> 1, cancel |-> 1])
    \cup Start({Config(custom, history) : custom \in {None, quad9, pihole},
                   history \in {<<>>, <<attic, pihole>>}}, {TRUE}, {Plain},
               [dns |-> 3, restart |-> 1])
    \cup Start({Fresh}, BOOLEAN, {Plain},
               [mtu |-> 2, dns |-> 1, switch |-> 1, restart |-> 1])
    \cup Start({Fresh}, BOOLEAN, {Plain},
               [switch |-> 2, install |-> 2, world |-> 1, fail |-> 1,
                restart |-> 1, cancel |-> 1])
=============================================================================
