------------------------- MODULE SharingProperties -------------------------
(* What a session must guarantee; see Sharing for the model. *)
EXTENDS Sharing

(* Every variable holds a value of its type. *)
TypeOK ==
    /\ phase \in {"running", "exiting", "exited"}
    /\ pending \in PendingOps \cup {"none"}
    /\ screen \in {"Menu", "SelectingLan", "Active"}
    /\ shouldQuit \in BOOLEAN
    /\ allowOn \in BOOLEAN
    /\ timer \in BOOLEAN
    /\ session \in SessionState
    /\ task \in [Slots -> TaskState]
    /\ chan \in Seq(Slots)
    /\ host \in HostState
    /\ up \subseteq Utuns
    /\ route \in Utuns \cup {None}
    /\ left \in [Events -> Nat]

-----------------------------------------------------------------------------
Quiet == \A s \in Slots : task[s].pc = "idle"

Ended == ~session.alive /\ Quiet

Gone == phase = "exited" /\ Quiet

\* Each change is undone, or the command to undo it was given and refused.
\* There is no second try for forwarding; for the others it is the last
\* command that counts.
ForwardingIsBack(h) ==
    h.forwarding = OriginalForwarding \/ "forwarding" \in h.refused
RulesAreOut(h) == /\ h.body = None \/ "body" \in h.refused
                  /\ ~h.hooks \/ "hooks" \in h.refused
DnsmasqIsDown(h) == ~h.dnsmasq \/ "dnsmasq" \in h.refused

(* When the program is gone, IP forwarding is what it was before it came,  *)
(* or the one sysctl that was to put it back was refused                   *)
(* (IpForwarding::restore, SharingSession::drop).                          *)
ForwardingRestored == Gone => ForwardingIsBack(host)

(* While the program runs on, not even an operation cancelled half way     *)
(* leaves a rule when the session is over, but one that pf refused to give *)
(* up: whoever loaded the rules still has the Firewall whose Drop removes  *)
(* them.                                                                   *)
RulesHaveOwner == phase = "running" /\ Ended => RulesAreOut(host)

GivenBack(h) == /\ ForwardingIsBack(h)
                /\ RulesAreOut(h)
                /\ DnsmasqIsDown(h)
                /\ h.natpmp # "on"

MachineLease == INSTANCE Lease WITH held <- session.alive,
                                    pristine <- GivenBack(host)

(* The session holds the machine on the terms of Lease: at its end all is  *)
(* as it was, but for what the machine was told to undo and refused.       *)
ImplementsLease == MachineLease!LeaseSpec

-----------------------------------------------------------------------------
(* While forwarding differs from what it was, somebody remembers what it   *)
(* was, and nobody remembers anything else: the start, stop and reload     *)
(* tasks hand the memory on without losing or overwriting it, and only a   *)
(* restore that sysctl refuses loses it (original_state.take() comes       *)
(* before the command).                                                    *)
Remembered == {session.fwd} \cup {task[s].fwd : s \in Slots}
OriginalRemembered ==
    \/ "forwarding" \in host.refused
    \/ /\ host.forwarding # OriginalForwarding
            => (IF OriginalForwarding THEN "on" ELSE "off") \in Remembered
       /\ (IF OriginalForwarding THEN "off" ELSE "on") \notin Remembered

(* A step that leaves the session alive does not take its rules out of pf, *)
(* except while it is being stopped: no Firewall that loaded them is       *)
(* dropped behind the session's back.                                      *)
RulesStayLoaded ==
    [][session.alive /\ session'.alive /\ host.body # None /\ host'.body = None
         => pending = "StoppingSharing"]_vars

(* On the Active screen with nothing pending the LAN is really served: the *)
(* resolver behind the :53 redirect is held, rules and forwarding are in   *)
(* place, dnsmasq runs if the session says so, and a bypass that is shown  *)
(* as on is in the rules.                                                  *)
ActiveIsServed ==
    screen = "Active" /\ pending = "none" /\ phase = "running" =>
        /\ session.alive /\ session.dns
        /\ host.body # None /\ host.hooks /\ host.forwarding
        /\ session.dhcp => host.dnsmasq
        /\ allowOn => host.bypass

(* Reloads of the firewall that have not been taken back yet. *)
Reloading == \E s \in Slots : task[s].op \in {"upstream", "firewall"}

(* With no reload under way the rules name the session's own upstream. *)
RulesFollowUpstream ==
    screen = "Active" /\ pending = "none" /\ session.alive /\ ~Reloading
        => host.body = session.upstream

-----------------------------------------------------------------------------
OpOf(p) == CASE p = "StartingSharing"   -> "start"
             [] p = "StartingResolver"  -> "resolver"
             [] p = "StartingDhcp"      -> "dhcp"
             [] p = "StartingNatPmp"    -> "natpmp"
             [] p = "StoppingSharing"   -> "stop"
             [] p = "ReloadingUpstream" -> "upstream"
             [] p = "ReloadingFirewall" -> "firewall"
             [] p = "DetectingWan"      -> "wan"

(* Whatever was cancelled, timed out or came late: an operation shown as   *)
(* pending belongs to a live session and a task of its kind is still to    *)
(* answer, so the spinner cannot be left behind.                           *)
PendingHasTask ==
    pending # "none" => /\ session.alive
                        /\ \E s \in Slots : task[s].op = OpOf(pending)

(* The invariant that makes PendingHasTask inductive: an empty slot has no *)
(* operation, a command left behind is none that an App could wait for,    *)
(* and a program that is leaving waits for nothing.                        *)
PendingInv ==
    /\ PendingHasTask
    /\ \A s \in Slots : /\ task[s].pc = "idle" => task[s].op = "none"
                        /\ task[s].pc = "late" => task[s].op \in Writes
    /\ phase # "running" => pending = "none"

-----------------------------------------------------------------------------
(* The spinner always goes away: no operation stays pending for ever. *)
PendingEnds == []<>(pending = "none")

(* A start ends on the Active screen or with the session torn down. *)
StartSettles ==
    pending = "StartingSharing" ~> screen = "Active" \/ ~session.alive

(* A user who asked to quit gets out once the stop completes. *)
QuitFires == shouldQuit ~> phase = "exited"

(* Once the default route stays on one tunnel, a session that goes on ends *)
(* up with that tunnel as its upstream and in its rules.                   *)
SwapConverges ==
    \A vpn \in Utuns :
        <>[](route = vpn /\ session.alive)
            => <>[](session.upstream = vpn /\ host.body = vpn)

(* AutoStop: when every tunnel stays down the session is torn down for good. *)
DownStops == <>[](up = {}) => <>[](~session.alive)
=============================================================================
