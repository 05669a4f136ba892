------------------------------ MODULE Network ------------------------------
(***************************************************************************)
(* What system/network.rs makes of the interfaces, the ARP table and the   *)
(* routing table.  A link is known by its name; a world is what ifconfig,  *)
(* networksetup, arp, netstat and route would say at one moment.           *)
(***************************************************************************)
EXTENDS Naturals, Sequences, FiniteSets, SequencesExt, Sieve

CONSTANTS Links,      \* all interfaces, in the order ifconfig lists them
          Tunnels,    \* those named utun*
          Wired,      \* those named en* with a port that is not Wi-Fi
          Wifi,       \* those named en* with a Wi-Fi or AirPort port
          Loopbacks,  \* those named lo*
          Nets,       \* IPv4 networks, with their masks
          Routers,    \* IPv4 addresses of gateways
          Macs,
          None

\* net is None for a /32 link, which has an address but no network.
Link == [up : BOOLEAN, addr : BOOLEAN, net : Nets \cup {None},
         gateway : Routers \cup {None}]   \* of its ifscoped default route
Neighbor == [ip : Routers, mac : Macs, iface : Range(Links)]
World == [link  : [Range(Links) -> Link],
          arp   : Seq(Neighbor) \cup {None},    \* None: arp failed
          table : Seq(Range(Links))]            \* defaults, as netstat has them

ASSUME NetworkAssumption ==
    /\ Links \in Seq(Range(Links))
    /\ Tunnels \cup Wired \cup Wifi \cup Loopbacks \subseteq Range(Links)
    /\ Tunnels \cap (Wired \cup Wifi) = {}
    /\ Wired \cap Wifi = {}

Usable(w, l) == w.link[l].up /\ w.link[l].addr

\* What the App keeps of an interface, as it was when it was detected.
Info(w, l) == [name |-> l, net |-> w.link[l].net]
Infos(w, names) == [i \in DOMAIN names |-> Info(w, names[i])]
InfoType == [name : Range(Links), net : Nets \cup {None}]

\* detect_vpn_interfaces
DetectVpn(w) ==
    Infos(w, Only(Links, {l \in Tunnels : Usable(w, l)}))

\* detect_lan_interfaces: wired only, the Mac is no access point.
DetectLan(w) ==
    Infos(w, Only(Links, {l \in Wired : Usable(w, l)}))

\* same_ipv4_network
SameNetwork(a, b) == a.net # None /\ a.net = b.net

-----------------------------------------------------------------------------
(* The WAN uplink: detect_wan_uplink, in the two steps that tell a reader  *)
(* from a probe: ifconfig, arp and netstat are read first (seen), then     *)
(* each interface that is left is asked for its gateway (now).             *)

Uplink == [iface : Range(Links), gateway : Routers]

Eligible(seen, share, exclude) ==
    Only(Links, {l \in Range(Links) : /\ Usable(seen, l)
                                      /\ l \notin Loopbacks \cup Tunnels
                                      /\ l # share /\ l \notin exclude})

\* The interfaces with a gateway: those of the routing table first, in its
\* order, then the others in that of ifconfig.
Candidates(seen, now, share, exclude) ==
    LET probed == {l \in Range(Eligible(seen, share, exclude)) :
                       now.link[l].gateway # None}
        ranked == Only(seen.table, probed)
    IN  ranked \o Only(Links, probed \ Range(ranked))

\* Mutant: an ARP table that cannot be read hides no hairpin.
HairpinsOpen(router, share, arp) ==
    arp # None
    /\ \E i, j \in DOMAIN arp : /\ arp[i].ip = router /\ arp[j].iface = share
                                /\ arp[i].mac = arp[j].mac

\* gateway_hairpins_share: the MAC of the gateway (as its first entry has it)
\* is that of a neighbor on the share LAN.  Without a table: refuse.
Hairpins(router, share, arp) ==
    \/ arp = None
    \/ LET entries == {i \in DOMAIN arp : arp[i].ip = router}
           first == CHOOSE i \in entries : \A k \in entries : i <= k
       IN  /\ entries # {}
           /\ \E j \in DOMAIN arp : /\ arp[j].iface = share
                                    /\ arp[j].mac = arp[first].mac

\* select_wan_uplink: the first candidate that does not lead back into the
\* share LAN.
SelectUplink(seen, now, share, exclude) ==
    LET outside == {l \in Range(Links) :
                        ~Hairpins(now.link[l].gateway, share, seen.arp)}
        left == Only(Candidates(seen, now, share, exclude), outside)
    IN  IF left = <<>> THEN None
        ELSE [iface |-> left[1], gateway |-> now.link[left[1]].gateway]
=============================================================================
