------------------------------ MODULE Sharing ------------------------------
(***************************************************************************)
(* The life of a sharing session: the App (app/mod.rs, app/input.rs,       *)
(* app/result.rs) that owns at most one SharingSession (session.rs), the   *)
(* tokio tasks it spawns (app/async_ops.rs), the one FIFO channel they     *)
(* answer on, and the machine they change (module Host).                   *)
(*                                                                         *)
(* The App is a single thread.  A key, and a result taken off the channel, *)
(* is handled in one step; a task takes one step per change it makes to    *)
(* the machine, so that tasks interleave with the App and with each other. *)
(* The managers travel: an operation takes them out of the session, its    *)
(* task carries them, and its result brings them back.                     *)
(***************************************************************************)
EXTENDS Host, Naturals, Sequences

CONSTANTS Slots,          \* how many tasks may be outstanding: 1..n
          DhcpEnabled,    \* dhcp_enabled and dnsmasq is installed
          NatPmpEnabled,  \* natpmp_enabled
          DropStrategy,   \* config vpn_drop_strategy
          Budgets         \* scenarios: how often each rare event may happen

\* Events a behaviour may contain a bounded number of: what the user does,
\* what fails, and what happens to the machine.  A command that changes the
\* machine fails once (fail); those that undo a change, whose verdict is
\* mostly ignored, fail from a deny on until the machine relents.
Events == {"start", "toggle", "cancel", "interrupt", "fail", "timeout",
           "linger", "dhcpTimeout", "heal", "swap", "drop", "flush", "deny"}

Strategies == {"WaitWithTimeout", "AutoStop", "Ignore"}

ASSUME SharingAssumption ==
    /\ Slots \subseteq Nat
    /\ DhcpEnabled \in BOOLEAN /\ NatPmpEnabled \in BOOLEAN
    /\ DropStrategy \in Strategies
    /\ Budgets \subseteq [Events -> Nat]

VARIABLES
    phase,       \* the process: running, exiting (App dropped), exited
    pending,     \* App.pending_op
    screen,      \* App.state, the screens that matter here
    shouldQuit,  \* App.should_quit
    allowOn,     \* App.lists.allow.enabled, the WAN bypass switch
    timer,       \* App.next_health_check is Some
    session,     \* App.session
    task,        \* the outstanding tasks, one per slot
    chan,        \* the result channel: slots in the order they answered
    host,        \* the machine
    up,          \* tunnel interfaces that have the UP flag
    route,       \* the tunnel the default route points at, or None
    left         \* what is left of the budget of this behaviour

appVars == <<phase, pending, screen, shouldQuit, allowOn, timer, session>>
netVars == <<up, route>>
vars == <<appVars, task, chan, host, netVars, left>>

StartChain == {"StartingSharing", "StartingResolver", "StartingDhcp",
               "StartingNatPmp"}
PendingOps == StartChain \cup {"StoppingSharing", "ReloadingUpstream",
                               "ReloadingFirewall", "DetectingWan"}

SessionState == [alive    : BOOLEAN,
                 fw       : FirewallManager \cup {"taken"},
                 fwd      : SavedForwarding \cup {"taken"},
                 upstream : Utuns \cup {None},
                 wan      : BOOLEAN,     \* a WAN uplink is known
                 dns      : BOOLEAN,     \* holds the LAN resolver
                 dhcp     : BOOLEAN,     \* dhcp_active
                 nat      : BOOLEAN,     \* natpmp_active
                 server   : BOOLEAN,     \* holds the NAT-PMP handle
                 down     : BOOLEAN]     \* health_status is Down

NoSession == [alive |-> FALSE, fw |-> "taken", fwd |-> "taken",
              upstream |-> None, wan |-> FALSE, dns |-> FALSE, dhcp |-> FALSE,
              nat |-> FALSE, server |-> FALSE, down |-> FALSE]

Operations == {"none", "start", "resolver", "dhcp", "natpmp", "stop",
               "upstream", "firewall", "wan", "health"}

\* The commands that change the machine, each a step of some task.
Writes == {"enable", "body", "hooks", "dnsmasq", "cleanup", "restore"}

\* A command that outlived its task has pc "late" and itself as op.
TaskState == [op     : Operations \cup Writes,
              pc     : Writes \cup {"idle", "detect", "serve", "probe", "work",
                                    "sent", "late"},
              fw     : FirewallManager,
              fwd    : SavedForwarding,
              vpn    : Utuns \cup {None},
              bypass : BOOLEAN,    \* the rules it loads carry the bypass
              on     : BOOLEAN,    \* the switch as the task saw it
              dhcp   : BOOLEAN,
              nat    : BOOLEAN,
              server : BOOLEAN,    \* carries a NAT-PMP handle
              ok     : BOOLEAN,    \* its answer (health: not Down)
              route  : Utuns \cup {None}]

Idle == [op |-> "none", pc |-> "idle", fw |-> "unloaded", fwd |-> "unset",
         vpn |-> None, bypass |-> FALSE, on |-> FALSE, dhcp |-> FALSE,
         nat |-> FALSE, server |-> FALSE, ok |-> FALSE, route |-> None]

Init ==
    /\ phase = "running" /\ pending = "none" /\ screen = "Menu"
    /\ shouldQuit = FALSE /\ timer = FALSE
    /\ allowOn \in BOOLEAN
    /\ session = NoSession
    /\ task = [s \in Slots |-> Idle]
    /\ chan = <<>>
    /\ host = PristineHost
    /\ \E u \in Utuns : up = {u} /\ route = u
    /\ left \in Budgets

Spend(event) ==
    /\ left[event] > 0
    /\ left' = [left EXCEPT ![event] = @ - 1]

-----------------------------------------------------------------------------
(* Helpers over sessions and managers. *)

\* Mutant: the managers are taken for granted, a second take hands out none.
TakenFwUnchecked(s) == s.fw
\* Mutant: a default is handed out, and the memory lost.
TakenFwdLost(s) == "unset"

\* take().unwrap_or_default(): what is already out is replaced by a default.
TakenFw(s) == IF s.fw = "taken" THEN "unloaded" ELSE s.fw
TakenFwd(s) == IF s.fwd = "taken" THEN "unset" ELSE s.fwd

\* restore_managers overwrites, so a manager already there is dropped.  With
\* no session the managers that came back are dropped at the handler's end.
GiveBack(t) == IF session.alive
               THEN [session EXCEPT !.fw = t.fw, !.fwd = t.fwd]
               ELSE session
HostAfterGiveBack(t) == IF session.alive THEN DropFirewall(host, session.fw)
                                         ELSE DropFirewall(host, t.fw)

\* Mutant: the Drop forgets IP forwarding.
DropSessionKeepsForwarding(h, s) ==
    LET nat  == IF s.nat THEN SignalNatPmp(h, s.server) ELSE h
        dhcp == IF s.dhcp THEN StopDnsmasq(nat) ELSE nat
    IN  IF s.alive /\ s.fw # "taken" THEN Cleanup(dhcp)
        ELSE IF s.alive THEN dhcp ELSE h

\* Drop for SharingSession.  cleanup_sync runs on any Firewall still there,
\* loaded or not; a manager that is out is skipped.  What a command says is
\* ignored: a restore that fails has forgotten the original state all the same.
DropSession(h, s) ==
    LET nat  == IF s.nat THEN SignalNatPmp(h, s.server) ELSE h
        dhcp == IF s.dhcp THEN StopDnsmasq(nat) ELSE nat
        pf   == IF s.fw = "taken" THEN dhcp ELSE Cleanup(dhcp)
    IN  IF ~s.alive THEN h
        ELSE IF s.fwd = "taken" THEN pf ELSE RestoreForwarding(pf, s.fwd)

\* Where the next task goes: which slot is immaterial, so take the lowest.
Free == {s \in Slots : /\ task[s].pc = "idle"
                       /\ \A r \in Slots : task[r].pc = "idle" => s <= r}
Launch(s, t) == task' = [task EXCEPT ![s] = t]
Release(s) == Launch(s, Idle)

-----------------------------------------------------------------------------
(* Leaving the process.  run_app returns and drops the App: the session is *)
(* torn down and the queued results are dropped.  The runtime goes later,  *)
(* and with it the tasks, wherever they are.                               *)

BeginExit ==
    LET queued == {s \in Slots : task[s].pc = "sent"}
        torn   == DropSession(host, session)
    IN  /\ phase' = "exiting"
        /\ session' = NoSession
        /\ pending' = "none"
        /\ host' = IF \E s \in queued : task[s].fw = "loaded"
                   THEN Cleanup(torn) ELSE torn
        /\ task' = [s \in Slots |-> IF s \in queued THEN Idle ELSE task[s]]
        /\ chan' = <<>>
        /\ UNCHANGED <<screen, allowOn, timer, netVars>>

RuntimeDrop ==
    LET rest == IF \E s \in Slots : task[s].fw = "loaded"
                THEN Cleanup(host) ELSE host
    IN  /\ phase = "exiting"
        /\ phase' = "exited"
        /\ host' = [rest EXCEPT !.natpmp = "off"]
        /\ task' = [s \in Slots |-> IF task[s].pc = "late" THEN task[s]
                                                          ELSE Idle]
        /\ UNCHANGED <<pending, screen, shouldQuit, allowOn, timer, session,
                       chan, netVars, left>>

-----------------------------------------------------------------------------
(* What the handlers begin.  s is the slot the new task gets. *)

BeginStop(s, sess) ==
    /\ pending' = "StoppingSharing"
    /\ session' = [sess EXCEPT !.server = FALSE, !.dns = FALSE,
                               !.fw = "taken", !.fwd = "taken"]
    /\ host' = SignalNatPmp(host, sess.server)
    /\ Launch(s, [Idle EXCEPT !.op = "stop", !.pc = "dnsmasq",
                              !.dhcp = sess.dhcp, !.fw = TakenFw(sess),
                              !.fwd = TakenFwd(sess)])

\* Mutant: a default IpForwarding stays beside the placeholder.
WithPlaceholders(sess) == [sess EXCEPT !.fw = "unloaded", !.fwd = "unset"]

\* The firewall leaves, a placeholder stays; IP forwarding comes straight back.
WithPlaceholder(sess) == [sess EXCEPT !.fw = "unloaded",
                                      !.fwd = TakenFwd(sess)]

\* Mutant: the reload names the tunnel the session already has.
BeginReloadSame(s, new) ==
    /\ pending' = "ReloadingUpstream"
    /\ session' = [WithPlaceholder(session) EXCEPT
                     !.server = IF session.nat THEN FALSE ELSE @]
    /\ host' = SignalNatPmp(host, session.nat /\ session.server)
    /\ Launch(s, [Idle EXCEPT !.op = "upstream", !.pc = "detect",
                              !.fw = TakenFw(session),
                              !.vpn = session.upstream,
                              !.bypass = session.wan, !.nat = session.nat])

BeginReloadUpstream(s, new) ==
    /\ pending' = "ReloadingUpstream"
    /\ session' = [WithPlaceholder(session) EXCEPT
                     !.server = IF session.nat THEN FALSE ELSE @]
    /\ host' = SignalNatPmp(host, session.nat /\ session.server)
    /\ Launch(s, [Idle EXCEPT !.op = "upstream", !.pc = "detect",
                              !.fw = TakenFw(session), !.vpn = new,
                              !.bypass = session.wan, !.nat = session.nat])

BeginReloadFirewall(s, sess, on) ==
    /\ pending' = "ReloadingFirewall"
    /\ session' = WithPlaceholder(sess)
    /\ Launch(s, [Idle EXCEPT !.op = "firewall", !.pc = "body",
                              !.fw = TakenFw(sess), !.vpn = sess.upstream,
                              !.bypass = on, !.on = on])

\* The next link of the start chain: DHCP, NAT-PMP, or finish_startup.
Chain(s, wantDhcp, wantNatPmp) ==
    \/ /\ wantDhcp
       /\ pending' = "StartingDhcp"
       /\ Launch(s, [Idle EXCEPT !.op = "dhcp", !.pc = "work"])
       /\ UNCHANGED <<screen, timer>>
    \/ /\ ~wantDhcp /\ wantNatPmp
       /\ pending' = "StartingNatPmp"
       /\ Launch(s, [Idle EXCEPT !.op = "natpmp", !.pc = "work"])
       /\ UNCHANGED <<screen, timer>>
    \/ /\ ~wantDhcp /\ ~wantNatPmp
       /\ pending' = "none" /\ screen' = "Active" /\ timer' = TRUE
       /\ Release(s)

-----------------------------------------------------------------------------
(* Keys.  While an operation is pending only q and Esc do anything; after   *)
(* every key the loop leaves if should_quit is set and nothing is pending.  *)

KeyReady == phase = "running" /\ pending = "none"

OpenPicker ==
    /\ KeyReady /\ ~shouldQuit /\ screen = "Menu" /\ ~session.alive
    /\ screen' = "SelectingLan"
    /\ UNCHANGED <<phase, pending, shouldQuit, allowOn, timer, session, task,
                   chan, host, netVars, left>>

\* Esc walks back to the menu; leaving the filter screen while sharing lands
\* on Active.
Navigate ==
    /\ KeyReady /\ ~shouldQuit
    /\ \/ screen # "Menu" /\ screen' = "Menu"
       \/ screen = "Menu" /\ session.alive /\ screen' = "Active"
    /\ UNCHANGED <<phase, pending, shouldQuit, allowOn, timer, session, task,
                   chan, host, netVars, left>>

\* confirm_lan_selection and start_sharing_async.
StartSharing(s, vpn) ==
    /\ KeyReady /\ screen = "SelectingLan" /\ s \in Free
    /\ Spend("start")
    /\ pending' = "StartingSharing"
    /\ session' = [NoSession EXCEPT !.alive = TRUE, !.upstream = vpn]
    /\ host' = DropSession(host, session)
    /\ Launch(s, [Idle EXCEPT !.op = "start", !.pc = "enable", !.vpn = vpn,
                              !.bypass = allowOn])
    /\ UNCHANGED <<phase, screen, shouldQuit, allowOn, timer, chan, netVars>>

StopSharing(s) ==
    /\ KeyReady /\ screen \in {"Menu", "Active"} /\ session.alive
    /\ s \in Free
    /\ BeginStop(s, session)
    /\ UNCHANGED <<phase, screen, shouldQuit, allowOn, timer, chan, netVars,
                   left>>

ToggleBypass(s) ==
    /\ KeyReady /\ screen \in {"Menu", "Active"} /\ s \in Free
    /\ Spend("toggle")
    /\ \/ /\ ~session.alive /\ ~shouldQuit
          /\ allowOn' = ~allowOn
          /\ UNCHANGED <<pending, session, task>>
       \/ /\ session.alive /\ allowOn
          /\ allowOn' = FALSE
          /\ BeginReloadFirewall(s, session, FALSE)
       \/ /\ session.alive /\ ~allowOn /\ session.wan
          /\ BeginReloadFirewall(s, session, TRUE)
          /\ UNCHANGED allowOn
       \/ /\ session.alive /\ ~allowOn /\ ~session.wan
          /\ pending' = "DetectingWan"
          /\ Launch(s, [Idle EXCEPT !.op = "wan", !.pc = "work"])
          /\ UNCHANGED <<allowOn, session>>
    /\ UNCHANGED <<phase, screen, shouldQuit, timer, chan, host, netVars>>

Quit(s) ==
    /\ phase = "running"
    /\ shouldQuit' = TRUE
    /\ \/ /\ pending # "none"
          /\ UNCHANGED <<phase, pending, screen, allowOn, timer, session,
                         task, chan, host, netVars, left>>
       \/ /\ pending = "none" /\ screen \in {"Menu", "Active"}
          /\ session.alive /\ s \in Free
          /\ BeginStop(s, session)
          /\ UNCHANGED <<phase, screen, allowOn, timer, chan, netVars, left>>
       \/ /\ pending = "none" /\ screen \in {"Menu", "Active"}
          /\ ~session.alive
          /\ BeginExit
          /\ UNCHANGED left

\* Any key that starts nothing, once should_quit is set.
KeyAfterQuit ==
    /\ KeyReady /\ shouldQuit
    /\ BeginExit
    /\ UNCHANGED <<shouldQuit, left>>

\* cancel_pending_op: the task runs on.
Cancel ==
    /\ phase = "running" /\ pending # "none"
    /\ Spend("cancel")
    /\ UNCHANGED shouldQuit
    /\ \/ /\ shouldQuit
          /\ BeginExit
       \/ /\ ~shouldQuit
          /\ pending' = "none"
          /\ screen' = IF pending \in StartChain THEN "Menu" ELSE screen
          /\ UNCHANGED <<phase, allowOn, timer, session, task, chan, host,
                         netVars>>

\* Ctrl+C leaves the loop at once; a panic unwinds through the same drops.
Interrupt ==
    /\ phase = "running"
    /\ Spend("interrupt")
    /\ BeginExit
    /\ UNCHANGED shouldQuit

UserStep ==
    \/ OpenPicker \/ Navigate \/ KeyAfterQuit \/ Cancel \/ Interrupt
    \/ \E s \in Slots : \/ StopSharing(s) \/ ToggleBypass(s) \/ Quit(s)
                        \/ \E vpn \in up : StartSharing(s, vpn)

-----------------------------------------------------------------------------
(* Task steps. *)

\* A step inside the task.
Advance(s, t, h) == Launch(s, t) /\ host' = h /\ UNCHANGED chan

\* The last step: the result goes on the channel.  Once the App is gone the
\* send fails and the result, managers and all, is dropped.
Answer(s, t, h) ==
    IF phase = "running"
    THEN /\ Launch(s, [t EXCEPT !.pc = "sent"])
         /\ chan' = Append(chan, s)
         /\ host' = h
    ELSE Release(s) /\ host' = DropFirewall(h, t.fw) /\ UNCHANGED chan

\* What a failed step of the task answers; start_sharing_async restores IP
\* forwarding first, and ignores whether that worked.
AnswerError(s) ==
    IF task[s].op = "start"
    THEN Answer(s, [task[s] EXCEPT !.fwd = "unset"],
                RestoreForwarding(host, task[s].fwd))
    ELSE Answer(s, [task[s] EXCEPT !.ok = task[s].op = "health"], host)

\* A failed enable restores nothing: it has read the state before, or not.
EnableForwardingStep(s) ==
    LET t == task[s]
    IN  /\ t.pc = "enable"
        /\ \/ /\ Advance(s, [t EXCEPT !.pc = "detect",
                                      !.fwd = Remember(host, @)],
                         EnableForwarding(host))
              /\ UNCHANGED left
           \/ /\ Spend("fail")
              /\ \E saved \in {t.fwd, Remember(host, t.fwd)} :
                    Answer(s, [t EXCEPT !.fwd = saved], host)

\* WAN uplink and ActiveUpstream::detect: reads only.
DetectStep(s) ==
    /\ task[s].pc = "detect"
    /\ \/ Advance(s, [task[s] EXCEPT !.pc = "body"], host) /\ UNCHANGED left
       \/ Spend("fail") /\ AnswerError(s)

\* restore_contract: the anchor body, then MAIN.
LoadBodyStep(s) ==
    /\ task[s].pc = "body"
    /\ \/ /\ Advance(s, [task[s] EXCEPT !.pc = "hooks"],
                     LoadBody(host, task[s].vpn, task[s].bypass))
          /\ UNCHANGED left
       \/ Spend("fail") /\ AnswerError(s)

MergeMainStep(s) ==
    LET t == task[s]
        done == [t EXCEPT !.fw = IF t.op = "health" THEN @ ELSE "loaded",
                          !.ok = TRUE]
    IN  /\ t.pc = "hooks"
        /\ \/ /\ t.nat
              /\ Advance(s, [done EXCEPT !.pc = "serve"], MergeMain(host))
              /\ UNCHANGED left
           \/ ~t.nat /\ Answer(s, done, MergeMain(host)) /\ UNCHANGED left
           \/ Spend("fail") /\ AnswerError(s)

\* reload_upstream_async and start_natpmp_async: a failed bind is no error.
ServeStep(s) ==
    LET bound == CanBindNatPmp(host)
    IN  /\ \/ task[s].pc = "serve"
           \/ task[s].pc = "work" /\ task[s].op = "natpmp"
        /\ Answer(s, [task[s] EXCEPT
                        !.server = bound,
                        !.ok = IF task[s].op = "natpmp" THEN bound ELSE @],
                  IF bound THEN BindNatPmp(host) ELSE host)
        /\ UNCHANGED left

\* Resolver and WAN detection: only the answer matters here.
WorkStep(s) ==
    /\ task[s].pc = "work" /\ task[s].op \in {"resolver", "wan"}
    /\ \/ Answer(s, [task[s] EXCEPT !.ok = TRUE], host) /\ UNCHANGED left
       \/ Spend("fail") /\ AnswerError(s)

\* DhcpServer::start stops any dnsmasq first.  Timed out, it may leave one.
DhcpStep(s) ==
    /\ task[s].pc = "work" /\ task[s].op = "dhcp"
    /\ \/ /\ Answer(s, [task[s] EXCEPT !.ok = TRUE], StartDnsmasq(host))
          /\ UNCHANGED left
       \/ Spend("fail") /\ Answer(s, task[s], StopDnsmasq(host))
       \/ /\ Spend("dhcpTimeout")
          /\ \/ Answer(s, task[s], StopDnsmasq(host))
             \/ Answer(s, task[s], StartDnsmasq(host))

\* The steps of a stop go on whatever the one before said.
StopDnsmasqStep(s) ==
    /\ task[s].pc = "dnsmasq"
    /\ Advance(s, [task[s] EXCEPT !.pc = "cleanup"],
               IF task[s].dhcp THEN StopDnsmasq(host) ELSE host)
    /\ UNCHANGED left

\* A cleanup that reports an error keeps rules_loaded: pf refused the stripped
\* MAIN, or a file could not be removed.  A pfctl that could not even be run
\* is no error.
CleanupStep(s) ==
    LET next == [task[s] EXCEPT !.pc = "restore"]
        gone == [next EXCEPT !.fw = "unloaded"]
    IN  /\ task[s].pc = "cleanup"
        /\ \/ Advance(s, gone, Cleanup(host)) /\ UNCHANGED left
           \/ /\ "hooks" \in host.refuses
              /\ Advance(s, next, Cleanup(host)) /\ UNCHANGED left
           \/ Spend("fail") /\ Advance(s, next, Cleanup(host))

\* The memory is gone, whatever sysctl says.
RestoreStep(s) ==
    /\ task[s].pc = "restore"
    /\ Answer(s, [task[s] EXCEPT !.fwd = "unset"],
              RestoreForwarding(host, task[s].fwd))
    /\ UNCHANGED left

\* Mutant: a tunnel that is gone passes for a healthy one.
ProbeTrustsTunnel(s) ==
    LET t == [task[s] EXCEPT !.route = route]
    IN  /\ task[s].pc = "probe"
        /\ Answer(s, [t EXCEPT !.ok = TRUE], host)
        /\ UNCHANGED left

\* check_health_with_heal, with the default route read beside it.
ProbeStep(s) ==
    LET t == [task[s] EXCEPT !.route = route]
    IN  /\ task[s].pc = "probe"
        /\ \/ /\ t.vpn \notin up
              /\ Answer(s, [t EXCEPT !.ok = FALSE], host)
              /\ UNCHANGED left
           \/ /\ t.vpn \in up
              /\ Answer(s, [t EXCEPT !.ok = TRUE], host)
              \* the contract holds, or the heal fails
              /\ UNCHANGED left
           \/ /\ t.vpn \in up /\ ~ContractHolds(host, t.on)
              /\ Spend("heal")
              /\ Advance(s, [t EXCEPT !.pc = "body"], host)

\* The operation's timeout fires: its future is dropped and the managers
\* come back as they are.  A timed-out probe counts as healthy and reports no
\* route.
TimedOut(t) == [t EXCEPT !.route = None, !.ok = t.op = "health"]

TimeLimited(t) ==
    t.op \in {"start", "stop", "upstream", "firewall", "health"}

\* Between two of its commands.
TimeoutStep(s) ==
    /\ TimeLimited(task[s]) /\ task[s].pc \notin {"serve", "sent"}
    /\ Spend("timeout")
    /\ Answer(s, TimedOut(task[s]), host)

\* In the middle of one: nobody kills the child process or the blocking
\* thread, so the command takes effect later.  enable() had already saved
\* the original state, restore() had already taken it.
LingerStep(s) ==
    LET t == task[s]
        back == CASE t.pc = "enable"  -> [t EXCEPT !.fwd = Remember(host, @)]
                  [] t.pc = "restore" -> [t EXCEPT !.fwd = "unset"]
                  [] OTHER            -> t
    IN  /\ TimeLimited(t) /\ t.pc \in Writes /\ phase = "running"
        /\ Spend("linger")
        /\ \E r \in Free :
             task' = [task EXCEPT
                        ![s] = [TimedOut(back) EXCEPT !.pc = "sent"],
                        ![r] = [t EXCEPT !.op = t.pc, !.pc = "late",
                                         !.fw = "unloaded"]]
        /\ chan' = Append(chan, s)
        /\ UNCHANGED host

LateEffect(t, h) ==
    CASE t.op = "enable"  -> EnableForwarding(h)
      [] t.op = "body"    -> LoadBody(h, t.vpn, t.bypass)
      [] t.op = "hooks"   -> MergeMain(h)
      [] t.op = "dnsmasq" -> IF t.dhcp THEN StopDnsmasq(h) ELSE h
      [] t.op = "cleanup" -> Cleanup(h)
      [] t.op = "restore" -> RestoreForwarding(h, t.fwd)

LateStep(s) ==
    /\ task[s].pc = "late"
    /\ \/ host' = LateEffect(task[s], host) /\ UNCHANGED left
       \/ task[s].op \in {"enable", "body", "hooks"} /\ Spend("fail")
          /\ UNCHANGED host
    /\ Release(s)
    /\ UNCHANGED <<appVars, chan, netVars>>

TaskStep(s) ==
    /\ phase # "exited"
    /\ \/ EnableForwardingStep(s) \/ DetectStep(s) \/ LoadBodyStep(s)
       \/ MergeMainStep(s) \/ ServeStep(s) \/ WorkStep(s) \/ DhcpStep(s)
       \/ StopDnsmasqStep(s) \/ CleanupStep(s) \/ RestoreStep(s)
       \/ ProbeStep(s) \/ TimeoutStep(s) \/ LingerStep(s)
    /\ UNCHANGED <<appVars, netVars>>

-----------------------------------------------------------------------------
(* poll_async_results: the result at the head of the channel. *)

Receive(s) ==
    /\ phase = "running" /\ chan # <<>> /\ s = Head(chan)
    /\ chan' = Tail(chan)
    /\ UNCHANGED <<phase, shouldQuit, netVars>>

OnSharingStarted(s) ==
    LET t == task[s]
        kept == GiveBack(t)
    IN  /\ Receive(s) /\ t.op = "start"
        /\ UNCHANGED <<allowOn, timer, left>>
        /\ \/ /\ pending # "StartingSharing"
              /\ session' = kept /\ host' = HostAfterGiveBack(t)
              /\ Release(s)
              /\ UNCHANGED <<pending, screen>>
           \/ /\ pending = "StartingSharing" /\ t.ok
              /\ host' = HostAfterGiveBack(t)
              /\ session' = IF session.alive
                            THEN [kept EXCEPT !.upstream = t.vpn,
                                              !.wan = t.bypass]
                            ELSE kept
              /\ IF session.alive
                 THEN /\ pending' = "StartingResolver"
                      /\ Launch(s, [Idle EXCEPT !.op = "resolver",
                                                !.pc = "work"])
                 ELSE Release(s) /\ UNCHANGED pending
              /\ UNCHANGED screen
           \/ /\ pending = "StartingSharing" /\ ~t.ok
              /\ pending' = "none" /\ screen' = "Menu"
              /\ session' = NoSession
              /\ host' = DropSession(HostAfterGiveBack(t), kept)
              /\ Release(s)

\* Mutant: a resolver that did not bind leaves the session on the menu.
OnResolverFailedKeepsSession(s) ==
    LET t == task[s]
    IN  /\ Receive(s) /\ t.op = "resolver" /\ pending = "StartingResolver"
        /\ IF t.ok
           THEN /\ session' = [session EXCEPT !.dns = session.alive]
                /\ Chain(s, DhcpEnabled /\ session.alive,
                            NatPmpEnabled /\ session.alive)
           ELSE /\ pending' = "none" /\ screen' = "Menu"
                /\ Release(s)
                /\ UNCHANGED <<session, timer>>
        /\ UNCHANGED <<allowOn, host, left>>

OnResolverStarted(s) ==
    LET t == task[s]
    IN  /\ Receive(s) /\ t.op = "resolver" /\ pending = "StartingResolver"
        /\ UNCHANGED <<allowOn, left>>
        /\ \/ /\ t.ok
              /\ session' = [session EXCEPT !.dns = session.alive]
              /\ Chain(s, DhcpEnabled /\ session.alive,
                          NatPmpEnabled /\ session.alive)
              /\ UNCHANGED host
           \/ /\ ~t.ok
              /\ pending' = "none" /\ screen' = "Menu"
              /\ session' = NoSession
              /\ host' = DropSession(host, session)
              /\ Release(s)
              /\ UNCHANGED timer

\* Mutant: dhcp_active is set before the result is looked at.
OnDhcpStartedUnchecked(s) ==
    /\ Receive(s) /\ task[s].op = "dhcp" /\ pending = "StartingDhcp"
    /\ session' = [session EXCEPT !.dhcp = @ \/ session.alive]
    /\ Chain(s, FALSE, NatPmpEnabled /\ session.alive)
    /\ UNCHANGED <<allowOn, host, left>>

OnDhcpStarted(s) ==
    LET t == task[s]
    IN  /\ Receive(s) /\ t.op = "dhcp" /\ pending = "StartingDhcp"
        /\ session' = [session EXCEPT !.dhcp = @ \/ (t.ok /\ session.alive)]
        /\ Chain(s, FALSE, NatPmpEnabled /\ session.alive)
        /\ UNCHANGED <<allowOn, host, left>>

OnNatPmpStarted(s) ==
    LET t == task[s]
    IN  /\ Receive(s) /\ t.op = "natpmp" /\ pending = "StartingNatPmp"
        /\ session' = IF t.ok /\ session.alive
                      THEN [session EXCEPT !.nat = TRUE, !.server = t.server]
                      ELSE session
        /\ Chain(s, FALSE, FALSE)
        /\ UNCHANGED <<allowOn, host, left>>

\* Mutant: a stop result clears the operation only if it is a stop.
OnSharingStoppedKeepsOther(s) ==
    LET t == task[s]
    IN  /\ Receive(s) /\ t.op = "stop"
        /\ pending' = IF pending = "StoppingSharing" THEN "none" ELSE pending
        /\ screen' = "Menu" /\ timer' = FALSE
        /\ session' = NoSession
        /\ host' = DropSession(HostAfterGiveBack(t), GiveBack(t))
        /\ Release(s)
        /\ UNCHANGED <<allowOn, left>>

OnSharingStopped(s) ==
    LET t == task[s]
    IN  /\ Receive(s) /\ t.op = "stop"
        /\ pending' = "none" /\ screen' = "Menu" /\ timer' = FALSE
        /\ session' = NoSession
        /\ host' = DropSession(HostAfterGiveBack(t), GiveBack(t))
        /\ Release(s)
        /\ UNCHANGED <<allowOn, left>>

\* What the reload handlers do first: take what is there, put the firewall
\* in place, drop what was there.
GiveFirewallBack(t) == IF session.alive
                       THEN [session EXCEPT !.fw = t.fw,
                                            !.fwd = TakenFwd(session)]
                       ELSE session

OnFirewallReloaded(s) ==
    LET t == task[s]
        attaches == session.alive /\ session.wan /\ session.dns
    IN  /\ Receive(s) /\ t.op = "firewall"
        /\ pending' = "none"
        /\ session' = GiveFirewallBack(t)
        /\ host' = HostAfterGiveBack(t)
        /\ Release(s)
        /\ \/ t.ok /\ t.on /\ allowOn' = TRUE /\ UNCHANGED left
           \/ t.ok /\ t.on /\ attaches /\ Spend("fail") /\ allowOn' = FALSE
           \/ t.ok /\ ~t.on /\ UNCHANGED <<allowOn, left>>
           \/ ~t.ok /\ allowOn' = FALSE /\ UNCHANGED left
        /\ UNCHANGED <<screen, timer>>

\* Mutant: the new upstream is not stored.
OnUpstreamReloadedForgets(s) ==
    LET t == task[s]
    IN  /\ Receive(s) /\ t.op = "upstream"
        /\ pending' = "none"
        /\ session' = [GiveFirewallBack(t) EXCEPT
                         !.server = IF session.alive THEN t.server ELSE @]
        /\ host' = HostAfterGiveBack(t)
        /\ Release(s)
        /\ UNCHANGED <<screen, allowOn, timer, left>>

OnUpstreamReloaded(s) ==
    LET t == task[s]
        kept == [GiveFirewallBack(t) EXCEPT
                   !.server = IF session.alive THEN t.server ELSE @]
    IN  /\ Receive(s) /\ t.op = "upstream"
        /\ pending' = "none"
        /\ session' = IF session.alive /\ t.ok
                      THEN [kept EXCEPT !.upstream = t.vpn, !.down = FALSE]
                      ELSE kept
        /\ host' = HostAfterGiveBack(t)
        /\ Release(s)
        /\ UNCHANGED <<screen, allowOn, timer, left>>

\* Mutant: a failed detection never clears the operation.
OnWanDetectedKeepsPending(s) ==
    LET t == task[s]
    IN  /\ Receive(s) /\ t.op = "wan" /\ pending = "DetectingWan"
        /\ IF t.ok /\ session.alive
           THEN BeginReloadFirewall(s, [session EXCEPT !.wan = TRUE], TRUE)
           ELSE Release(s) /\ UNCHANGED <<pending, session>>
        /\ UNCHANGED <<screen, allowOn, timer, host, left>>

OnWanDetected(s) ==
    LET t == task[s]
    IN  /\ Receive(s) /\ t.op = "wan" /\ pending = "DetectingWan"
        /\ \/ /\ t.ok /\ session.alive
              /\ BeginReloadFirewall(s, [session EXCEPT !.wan = TRUE], TRUE)
           \/ /\ ~(t.ok /\ session.alive)
              /\ pending' = "none"
              /\ Release(s)
              /\ UNCHANGED session
        /\ UNCHANGED <<screen, allowOn, timer, host, left>>

\* result_matches_pending: these must find their own operation pending.
DiscardStale(s) ==
    /\ Receive(s)
    /\ \/ task[s].op = "resolver" /\ pending # "StartingResolver"
       \/ task[s].op = "dhcp" /\ pending # "StartingDhcp"
       \/ task[s].op = "natpmp" /\ pending # "StartingNatPmp"
       \/ task[s].op = "wan" /\ pending # "DetectingWan"
    /\ Release(s)
    /\ UNCHANGED <<pending, screen, allowOn, timer, session, host, left>>

\* The drop strategy: the first Down starts the wait, AutoStop has none.
MayStop(down) ==
    IF ~down \/ DropStrategy = "Ignore" THEN {FALSE}
    ELSE IF DropStrategy = "AutoStop" THEN {TRUE}
    ELSE IF session.down THEN BOOLEAN ELSE {FALSE}

OnHealthCheck(s) ==
    LET t == task[s]
        swapped == /\ session.alive
                   /\ t.route \in Utuns /\ t.route # session.upstream
        seen == [session EXCEPT !.down = ~t.ok]
    IN  /\ Receive(s) /\ t.op = "health"
        /\ \/ /\ ~session.alive \/ (swapped /\ pending # "none")
              /\ Release(s)
              /\ UNCHANGED <<pending, session, host, timer>>
           \/ /\ swapped /\ pending = "none"
              /\ BeginReloadUpstream(s, t.route)
              /\ UNCHANGED timer
           \/ /\ session.alive /\ ~swapped
              /\ \E stop \in MayStop(~t.ok) :
                   \/ /\ stop /\ pending = "none"
                      /\ BeginStop(s, seen)
                      /\ UNCHANGED timer
                   \/ /\ ~(stop /\ pending = "none")
                      /\ session' = seen
                      /\ timer' = IF stop THEN timer ELSE TRUE
                      /\ Release(s)
                      /\ UNCHANGED <<pending, host>>
        /\ UNCHANGED <<screen, allowOn, left>>

Handle(s) ==
    \/ OnSharingStarted(s) \/ OnResolverStarted(s) \/ OnDhcpStarted(s)
    \/ OnNatPmpStarted(s) \/ OnSharingStopped(s) \/ OnFirewallReloaded(s)
    \/ OnUpstreamReloaded(s) \/ OnWanDetected(s) \/ OnHealthCheck(s)
    \/ DiscardStale(s)

\* The channel is drained first; the timer is bumped, so it stays set.
SpawnHealthCheck(s) ==
    /\ KeyReady /\ chan = <<>> /\ session.alive /\ timer
    /\ s \in Free
    /\ Launch(s, [Idle EXCEPT !.op = "health", !.pc = "probe",
                              !.vpn = session.upstream, !.bypass = session.wan,
                              !.on = allowOn /\ session.wan])
    /\ UNCHANGED <<appVars, chan, host, netVars, left>>

PollStep == \E s \in Slots : Handle(s) \/ SpawnHealthCheck(s)

-----------------------------------------------------------------------------
(* The machine's own moves. *)

\* The NAT-PMP server task sees the shutdown signal and frees its port.
NatPmpExit ==
    /\ host.natpmp = "stopping"
    /\ host' = [host EXCEPT !.natpmp = "off"]
    /\ UNCHANGED <<appVars, task, chan, netVars, left>>

\* The VPN client moves to another tunnel; the old one may linger.
SwapVpn(vpn) ==
    /\ vpn # route
    /\ Spend("swap")
    /\ route' = vpn
    /\ up' \in {{vpn}, up \cup {vpn}}
    /\ UNCHANGED <<appVars, task, chan, host>>

DropVpn ==
    /\ Spend("drop")
    /\ up' = {} /\ route' = None
    /\ UNCHANGED <<appVars, task, chan, host>>

\* Another program reloads MAIN.
FlushMain ==
    /\ host.hooks
    /\ Spend("flush")
    /\ host' = [host EXCEPT !.hooks = FALSE]
    /\ UNCHANGED <<appVars, task, chan, netVars>>

\* Commands that undo something begin to fail, or work again.
Deny(what) ==
    /\ Spend("deny")
    /\ host' = [host EXCEPT !.refuses = @ \cup {what}]
    /\ UNCHANGED <<appVars, task, chan, netVars>>

Relent ==
    /\ host.refuses # {}
    /\ host' = [host EXCEPT !.refuses = {}]
    /\ UNCHANGED <<appVars, task, chan, netVars, left>>

EnvironmentStep ==
    \/ Relent \/ \E what \in Undoable : Deny(what)
    \/ NatPmpExit \/ DropVpn \/ FlushMain \/ \E vpn \in Utuns : SwapVpn(vpn)

Next == \/ UserStep
        \/ \E s \in Slots : TaskStep(s) \/ LateStep(s)
        \/ PollStep
        \/ RuntimeDrop
        \/ phase # "exited" /\ EnvironmentStep

Spec == Init /\ [][Next]_vars

(* Tasks are scheduled, the loop polls every frame, the runtime is torn    *)
(* down once the App is gone.  Nothing is assumed of the user.             *)
Fairness == /\ \A s \in Slots : WF_vars(TaskStep(s)) /\ WF_vars(LateStep(s))
            /\ WF_vars(PollStep)
            /\ WF_vars(RuntimeDrop)
            /\ WF_vars(NatPmpExit)

FairSpec == Spec /\ Fairness
=============================================================================
