-------------------------------- MODULE Host --------------------------------
(***************************************************************************)
(* What tunshare changes on the machine, and the managers that remember    *)
(* how to undo it: pf (system/firewall.rs), the forwarding sysctl          *)
(* (system/sysctl.rs), dnsmasq (system/dhcp.rs) and the NAT-PMP server     *)
(* (system/natpmp.rs).  The text of a rule set is abstracted to the        *)
(* upstream it names and whether it carries the WAN bypass.                *)
(***************************************************************************)
CONSTANTS Utuns,               \* names of tunnel interfaces
          None,                \* no interface / no rules
          OriginalForwarding   \* net.inet.ip.forwarding before the program

ASSUME HostAssumption == None \notin Utuns /\ OriginalForwarding \in BOOLEAN

(***************************************************************************)
(* IpForwarding.original_state, and Firewall.rules_loaded.                 *)
(***************************************************************************)
SavedForwarding == {"unset", "off", "on"}
FirewallManager == {"unloaded", "loaded"}

(* What a command of the program undoes: sysctl -w, the flush of the       *)
(* anchor, the load of the stripped MAIN, the kill of dnsmasq.             *)
Undoable == {"forwarding", "body", "hooks", "dnsmasq"}

HostState == [forwarding : BOOLEAN,             \* the sysctl
              body       : Utuns \cup {None},   \* upstream of the anchor body
              bypass     : BOOLEAN,             \* body has the WAN bypass
              hooks      : BOOLEAN,             \* MAIN refers to the anchor
              dnsmasq    : BOOLEAN,             \* the daemon runs
              natpmp     : {"off", "on", "stopping"},
              refuses    : SUBSET Undoable,     \* undo commands that fail now
              refused    : SUBSET Undoable]     \* history: that failed, and
                                                \* what they were for stayed

PristineHost == [forwarding |-> OriginalForwarding, body |-> None,
                 bypass |-> FALSE, hooks |-> FALSE, dnsmasq |-> FALSE,
                 natpmp |-> "off", refuses |-> {}, refused |-> {}]

-----------------------------------------------------------------------------
(* IpForwarding: the first enable remembers, every restore forgets, even   *)
(* one that sysctl refuses (original_state.take() comes first).  A refusal *)
(* is not made good: the next enable takes what it finds for the original. *)

Remember(h, saved) ==
    IF saved # "unset" THEN saved ELSE IF h.forwarding THEN "on" ELSE "off"

EnableForwarding(h) == [h EXCEPT !.forwarding = TRUE]

RestoreForwarding(h, saved) ==
    IF saved = "unset" \/ h.forwarding = (saved = "on") THEN h
    ELSE IF "forwarding" \in h.refuses
         THEN [h EXCEPT !.refused = @ \cup {"forwarding"}]
         ELSE [h EXCEPT !.forwarding = (saved = "on")]

(* Firewall: load_rules is two kernel writes, cleanup undoes both and goes *)
(* on if one of them fails.                                                *)

LoadBody(h, vpn, bypass) == [h EXCEPT !.body = vpn, !.bypass = bypass,
                                      !.refused = @ \ {"body"}]

MergeMain(h) == [h EXCEPT !.hooks = TRUE, !.refused = @ \ {"hooks"}]

FlushAnchor(h) ==
    IF "body" \in h.refuses
    THEN [h EXCEPT !.refused = @ \cup {"body"}]
    ELSE [h EXCEPT !.body = None, !.bypass = FALSE, !.refused = @ \ {"body"}]

StripMain(h) ==
    IF "hooks" \in h.refuses
    THEN [h EXCEPT !.refused = @ \cup {"hooks"}]
    ELSE [h EXCEPT !.hooks = FALSE, !.refused = @ \ {"hooks"}]

Cleanup(h) == StripMain(FlushAnchor(h))

(* Mutants: every manager that is dropped cleans up; none does. *)
DropAlwaysCleans(h, fw) == Cleanup(h)
DropNeverCleans(h, fw) == h

(* Drop for Firewall: only a manager that loaded rules takes them down. *)
DropFirewall(h, fw) == IF fw = "loaded" THEN Cleanup(h) ELSE h

(* PfContract and health.rs contract_holds: hooks in MAIN, the :53 redirect  *)
(* in the body, and the bypass when it is on; the upstream is not compared.  *)
ContractHolds(h, bypassOn) ==
    /\ h.hooks
    /\ h.body # None
    /\ bypassOn => h.bypass

(* DhcpServer and NatPmpServer. *)

StartDnsmasq(h) == [h EXCEPT !.dnsmasq = TRUE, !.refused = @ \ {"dnsmasq"}]

StopDnsmasq(h) ==
    IF "dnsmasq" \in h.refuses
    THEN [h EXCEPT !.refused = @ \cup {"dnsmasq"}]
    ELSE [h EXCEPT !.dnsmasq = FALSE, !.refused = @ \ {"dnsmasq"}]

(* The holder of a server's handle tells it to stop; the task ends later. *)
SignalNatPmp(h, held) ==
    IF held /\ h.natpmp = "on" THEN [h EXCEPT !.natpmp = "stopping"] ELSE h

(* NatPmpServer::start binds UDP 5351: it fails while another server has it. *)
CanBindNatPmp(h) == h.natpmp = "off"

BindNatPmp(h) == [h EXCEPT !.natpmp = "on"]
=============================================================================
