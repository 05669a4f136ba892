-------------------------- MODULE SharingInvariants --------------------------
(* The inductive invariants behind the properties of SharingProperties.    *)
(* They hold of a session whose operations are left to answer: no cancel   *)
(* and no Ctrl+C while one is pending, and no command that outlives its    *)
(* task.  Commands may fail and time out, commands that undo something may *)
(* be refused, results may be late, tunnels may move and go, any number of *)
(* times.                                                                  *)
EXTENDS SharingProperties

\* No scenario contains these events.
Never(events) == \A b \in Budgets : \A e \in events : b[e] = 0
Exhausted(events) == \A e \in events : left[e] = 0

Disturbances == {"cancel", "interrupt", "linger"}

-----------------------------------------------------------------------------
(* One task, wherever it is.                                               *)

\* Where an operation can be.
Placed(t) ==
    \/ t.op = "none" /\ t.pc = "idle"
    \/ t.op = "start" /\ t.pc \in {"enable", "detect", "body", "hooks", "sent"}
    \/ t.op = "stop" /\ t.pc \in {"dnsmasq", "cleanup", "restore", "sent"}
    \/ t.op = "upstream"
         /\ t.pc \in {"detect", "body", "hooks", "serve", "sent"}
    \/ t.op = "firewall" /\ t.pc \in {"body", "hooks", "sent"}
    \/ t.op = "health" /\ t.pc \in {"probe", "body", "hooks", "sent"}
    \/ t.op \in {"resolver", "dhcp", "natpmp", "wan"}
         /\ t.pc \in {"work", "sent"}

\* What net.inet.ip.forwarding was, in the words of IpForwarding.
Original == IF OriginalForwarding THEN "on" ELSE "off"

\* Each operation carries the managers it was given and no other, and claims
\* no success before it answers.
TaskShape(t) ==
    /\ Placed(t)
    /\ t.fwd # "unset" => t.op \in {"start", "stop"}
    /\ t.fw = "loaded" => t.op \in {"start", "stop", "upstream", "firewall"}
    /\ t.op \in {"start", "upstream", "firewall", "health"} => t.vpn \in Utuns
    /\ t.nat => t.op = "upstream"
    /\ t.pc = "serve" => t.nat
    /\ t.server => t.pc = "sent"
    /\ t.op = "natpmp" /\ t.ok => t.server
    /\ t.ok => t.pc \in {"serve", "sent"}

-----------------------------------------------------------------------------
(* The App and its one operation.                                          *)

Working(t) == t.op \notin {"none", "health"}

\* Only the pending operation has a task, and one only.
OneWorker ==
    /\ \A s \in Slots : Working(task[s]) =>
           /\ pending # "none" /\ task[s].op = OpOf(pending)
    /\ \A r, s \in Slots : Working(task[r]) /\ Working(task[s]) => r = s

\* A start and a stop take both managers out of the session, a reload leaves
\* an empty firewall behind, anything else leaves them there.
Custody ==
    /\ ~session.alive => session = NoSession
    /\ session.alive =>
         IF pending \in {"StartingSharing", "StoppingSharing"}
         THEN session.fw = "taken" /\ session.fwd = "taken"
         ELSE session.fw # "taken" /\ session.fwd # "taken"
    /\ pending \in {"ReloadingUpstream", "ReloadingFirewall"}
         => session.fw = "unloaded"
    /\ session.alive => session.upstream \in Utuns
    /\ session.alive /\ screen = "SelectingLan" => pending \in StartChain
    /\ phase # "running" => ~session.alive

\* Whoever holds this memory can put forwarding back as it was: it is the
\* original state, or there is nothing to do; unless a restore was refused.
Lost(h) == "forwarding" \in h.refused
Knows(saved, h) == /\ saved \in {"unset", Original} \/ Lost(h)
                   /\ saved = "unset" => ForwardingIsBack(h)

\* Nobody has forgotten a state that is still to be restored.
SessionRemembers ==
    IF ~session.alive THEN ForwardingIsBack(host)
    ELSE session.fwd # "taken" => Knows(session.fwd, host)
Remembers(t) == t.op \in {"start", "stop"} => Knows(t.fwd, host)

SoloInv ==
    /\ Exhausted(Disturbances)
    /\ \A s \in Slots : TaskShape(task[s]) /\ Remembers(task[s])
    /\ OneWorker /\ Custody /\ SessionRemembers

-----------------------------------------------------------------------------
(* What a session without a self-heal and without a timed-out dnsmasq      *)
(* changes on the machine it also accounts for.                            *)

Uncertain == {"heal", "dhcpTimeout"}

\* A probe only looks.
ProbesOnly == \A s \in Slots : task[s].op = "health"
                                 => task[s].pc \in {"probe", "sent"}

\* dnsmasq runs for a session that knows of it, or for a result that says so,
\* or it could not be killed.
DnsmasqKnown ==
    \/ DnsmasqIsDown(host)
    \/ session.dhcp
    \/ \E s \in Slots : task[s].op = "dhcp" /\ task[s].ok

\* ... and so does the NAT-PMP server, whose handle somebody holds.
BringsServer(t) == t.server /\ \/ t.op = "natpmp" /\ t.ok
                               \/ t.op = "upstream" /\ session.nat
NatPmpKnown ==
    host.natpmp = "on" => \/ session.nat /\ session.server
                          \/ \E s \in Slots : BringsServer(task[s])

\* A reload has the session's handle, and brings a new one for the old.
HandleMoves ==
    /\ \A s \in Slots : task[s].nat => session.nat
    /\ pending = "ReloadingUpstream" /\ session.nat => ~session.server

AccountedInv ==
    /\ Exhausted(Uncertain)
    /\ ProbesOnly /\ DnsmasqKnown /\ NatPmpKnown /\ HandleMoves
    /\ ~session.alive => GivenBack(host)

-----------------------------------------------------------------------------
(* How far a start has come, and what stays in place from there on, when   *)
(* nothing heals and nobody flushes MAIN.                                  *)

Upheavals == {"heal", "flush"}

RulesStand(bypass) == /\ host.body # None /\ host.hooks /\ host.forwarding
                      /\ bypass => host.bypass

StartProgress(t) ==
    t.op = "start" =>
        /\ t.bypass = allowOn
        /\ t.pc \in {"detect", "body", "hooks"} => host.forwarding
        /\ t.pc = "hooks" => host.body # None /\ host.bypass = t.bypass
        /\ t.ok => RulesStand(t.bypass)

ReloadProgress(t) ==
    /\ t.op = "firewall" =>
         /\ t.bypass = t.on
         /\ t.on => session.wan
         /\ t.pc = "hooks" => host.bypass = t.on
         /\ t.ok /\ t.on => host.bypass
    /\ t.op = "upstream" /\ allowOn => t.bypass
    /\ t.op = "dhcp" /\ t.ok => host.dnsmasq

SessionProgress ==
    LET past(ops) == session.alive
                       /\ pending \notin ops \cup {"StoppingSharing"}
    IN  /\ past({"StartingSharing"}) =>
             /\ RulesStand(allowOn)
             /\ allowOn => session.wan
        /\ past({"StartingSharing", "StartingResolver"}) => session.dns
        /\ pending \in {"StartingSharing", "StartingResolver", "StartingDhcp"}
             => ~session.dhcp
        /\ past({}) /\ session.dhcp => host.dnsmasq
        /\ pending \in {"DetectingWan", "ReloadingFirewall"} => ~allowOn
        /\ phase = "running" /\ screen = "Active" => session.alive

ServedInv ==
    /\ Exhausted(Upheavals)
    /\ ProbesOnly /\ SessionProgress
    /\ \A s \in Slots : StartProgress(task[s]) /\ ReloadProgress(task[s])

-----------------------------------------------------------------------------
(* Who takes the rules down again, when operations may be cancelled but    *)
(* every command does what it is told in time.                             *)

Losses == {"fail", "timeout", "linger", "heal"}

\* The managers go with the operations that load rules; a probe has none.
OwnerShape(t) ==
    /\ Placed(t)
    /\ t.fw = "loaded" => t.op \in {"start", "stop", "upstream", "firewall"}
    /\ t.op = "health" => t.pc \in {"probe", "sent"}
    /\ t.nat => t.op = "upstream"

\* Every queued result is its task's only one, and nobody else waits in its
\* slot; nothing is queued for an App that is gone.
Queued ==
    /\ \A i \in 1..Len(chan) : task[chan[i]].pc = "sent"
    /\ \A i, j \in 1..Len(chan) : chan[i] = chan[j] => i = j
    /\ phase # "running" => chan = <<>>

\* Rules are in, and not because pf refused to give them up.
HasRules(h) == ~RulesAreOut(h)

\* It has loaded rules, or is about to have.
Owns(t) == t.fw = "loaded" \/ t.pc = "hooks"

OwnedBy(sess, tasks) == \/ sess.alive /\ sess.fw = "loaded"
                        \/ \E s \in Slots : Owns(tasks[s])

OwnerInv ==
    /\ Exhausted(Losses)
    /\ \A s \in Slots : OwnerShape(task[s])
    /\ Queued
    /\ phase = "running" /\ HasRules(host) => OwnedBy(session, task)

-----------------------------------------------------------------------------
(* Which tunnel the rules name, when moreover operations are left to       *)
(* answer.                                                                 *)

\* A start or a swap has put its tunnel into the rules before it answers, and
\* the bypass is switched on the session's own.
FollowsRoute(t) ==
    /\ t.op \in {"start", "upstream"} /\ t.pc \in {"hooks", "serve", "sent"}
         => host.body = t.vpn
    /\ t.op \in {"start", "upstream"} /\ t.pc \in {"serve", "sent"} => t.ok
    /\ t.op = "firewall" => t.vpn = session.upstream

FollowInv ==
    /\ \A s \in Slots : FollowsRoute(task[s])
    /\ session.alive /\ pending \notin {"StartingSharing", "StoppingSharing",
                                        "ReloadingUpstream"}
         => host.body = session.upstream
=============================================================================
