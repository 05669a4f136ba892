--------------------------- MODULE SharingProofs ---------------------------
(***************************************************************************)
(* What holds of a sharing session for any number of tasks and tunnels:    *)
(* with any budget of rare events, and in the last part when operations    *)
(* are left to answer (see SharingInvariants).  First what one task at a   *)
(* time means for the machine, then the four promises of a session.        *)
(***************************************************************************)
EXTENDS SharingInvariants, TLAPS

-----------------------------------------------------------------------------
(* The operators of Host and Sharing stay in their types. *)

(* Every change to the machine gives a machine. *)
LEMMA HostTypes ==
    ASSUME NEW h \in HostState, NEW saved \in SavedForwarding,
           NEW fw \in FirewallManager, NEW vpn \in Utuns \cup {None},
           NEW flag \in BOOLEAN
    PROVE  /\ Remember(h, saved) \in SavedForwarding
           /\ EnableForwarding(h) \in HostState
           /\ RestoreForwarding(h, saved) \in HostState
           /\ LoadBody(h, vpn, flag) \in HostState
           /\ MergeMain(h) \in HostState
           /\ Cleanup(h) \in HostState
           /\ DropFirewall(h, fw) \in HostState
           /\ StartDnsmasq(h) \in HostState
           /\ StopDnsmasq(h) \in HostState
           /\ SignalNatPmp(h, flag) \in HostState
           /\ BindNatPmp(h) \in HostState
           /\ [h EXCEPT !.natpmp = "off"] \in HostState
           /\ [h EXCEPT !.hooks = FALSE] \in HostState
<1> USE DEF HostState
<1>1. Remember(h, saved) \in SavedForwarding
    BY DEF Remember, SavedForwarding
<1>2. EnableForwarding(h) \in HostState
    BY DEF EnableForwarding
<1>3. RestoreForwarding(h, saved) \in HostState
    BY DEF RestoreForwarding, Undoable
<1>4. LoadBody(h, vpn, flag) \in HostState
    BY DEF LoadBody
<1>5. MergeMain(h) \in HostState
    BY DEF MergeMain
<1>6. Cleanup(h) \in HostState
  <2>1. FlushAnchor(h) \in HostState
    BY DEF FlushAnchor, Undoable
  <2>2. ASSUME NEW k \in HostState PROVE StripMain(k) \in HostState
    BY DEF StripMain, Undoable
  <2> QED
    BY <2>1, <2>2 DEF Cleanup
<1>7. DropFirewall(h, fw) \in HostState
    BY <1>6 DEF DropFirewall
<1>8. StartDnsmasq(h) \in HostState /\ StopDnsmasq(h) \in HostState
    BY DEF StartDnsmasq, StopDnsmasq, Undoable
<1>9. SignalNatPmp(h, flag) \in HostState
    BY DEF SignalNatPmp
<1>10. BindNatPmp(h) \in HostState
    BY DEF BindNatPmp
<1>11. [h EXCEPT !.natpmp = "off"] \in HostState
    OBVIOUS
<1>12. [h EXCEPT !.hooks = FALSE] \in HostState
    OBVIOUS
<1> HIDE DEF HostState
<1> QED
    BY <1>1, <1>2, <1>3, <1>4, <1>5, <1>6, <1>7, <1>8, <1>9, <1>10, <1>11,
       <1>12

(* What is taken out of a session is a manager, a default one if need be. *)
LEMMA ManagerTypes ==
    ASSUME NEW s \in SessionState
    PROVE  /\ TakenFw(s) \in FirewallManager
           /\ TakenFwd(s) \in SavedForwarding
BY DEF SessionState, TakenFw, TakenFwd, FirewallManager, SavedForwarding

(* What a take leaves behind, and the first state, have their types. *)
LEMMA DefaultTypes ==
    /\ NoSession \in SessionState
    /\ Idle \in TaskState
    /\ PristineHost \in HostState
BY HostAssumption DEF NoSession, SessionState, Idle, TaskState, PristineHost,
   HostState, FirewallManager, SavedForwarding, Operations

(* Dropping a session leaves a machine. *)
LEMMA DropSessionType ==
    ASSUME NEW h \in HostState, NEW s \in SessionState
    PROVE  DropSession(h, s) \in HostState
<1> DEFINE nat == IF s.nat THEN SignalNatPmp(h, s.server) ELSE h
           dhcp == IF s.dhcp THEN StopDnsmasq(nat) ELSE nat
           pf == IF s.fw = "taken" THEN dhcp ELSE Cleanup(dhcp)
<1>1. /\ s.server \in BOOLEAN
      /\ s.fwd # "taken" => s.fwd \in SavedForwarding
    BY DEF SessionState
<1>2. nat \in HostState
    BY <1>1, HostTypes DEF SavedForwarding, FirewallManager
<1>3. dhcp \in HostState
    BY <1>2, HostTypes DEF SavedForwarding, FirewallManager
<1>4. pf \in HostState
    BY <1>3, HostTypes DEF SavedForwarding, FirewallManager
<1>5. s.fwd # "taken" => RestoreForwarding(pf, s.fwd) \in HostState
    BY <1>1, <1>4, HostTypes DEF SavedForwarding, FirewallManager
<1> HIDE DEF nat, dhcp, pf
<1> QED
    BY <1>4, <1>5 DEF DropSession, nat, dhcp, pf

-----------------------------------------------------------------------------
(* What an effect leaves alone, and what a refusal leaves behind. *)

\* What was to be done about IP forwarding is no more than it was.
Still(h, k) == /\ Lost(h) => Lost(k)
               /\ ForwardingIsBack(h) => ForwardingIsBack(k)

\* Forwarding is left alone.
SameForwarding(h, k) == /\ k.forwarding = h.forwarding
                        /\ Lost(h) <=> Lost(k)

(* Leaving forwarding alone adds nothing to what is to be done about it. *)
LEMMA SameIsStill ==
    ASSUME NEW h, NEW k, SameForwarding(h, k)
    PROVE  /\ Still(h, k)
           /\ \A saved : Knows(saved, h) => Knows(saved, k)
BY DEF SameForwarding, Still, Knows, ForwardingIsBack, Lost

(* Memory that can put one machine back can put back one that is still so. *)
LEMMA StillKnown ==
    ASSUME NEW h, NEW k, Still(h, k), NEW saved, Knows(saved, h)
    PROVE  Knows(saved, k)
BY DEF Still, Knows

(* The commands about pf, dnsmasq and NAT-PMP leave forwarding alone. *)
LEMMA EffectsLeaveForwarding ==
    ASSUME NEW h \in HostState, NEW vpn, NEW flag
    PROVE  /\ SameForwarding(h, h)
           /\ SameForwarding(h, LoadBody(h, vpn, flag))
           /\ SameForwarding(h, MergeMain(h))
           /\ SameForwarding(h, Cleanup(h))
           /\ SameForwarding(h, StartDnsmasq(h))
           /\ SameForwarding(h, StopDnsmasq(h))
           /\ SameForwarding(h, SignalNatPmp(h, flag))
           /\ SameForwarding(h, BindNatPmp(h))
           /\ SameForwarding(h, [h EXCEPT !.natpmp = "off"])
           /\ SameForwarding(h, [h EXCEPT !.hooks = FALSE])
<1> USE DEF HostState, SameForwarding, Lost
<1>1. /\ SameForwarding(h, h)
      /\ SameForwarding(h, LoadBody(h, vpn, flag))
      /\ SameForwarding(h, MergeMain(h))
    BY DEF LoadBody, MergeMain
<1>2. SameForwarding(h, Cleanup(h))
  <2>1. SameForwarding(h, FlushAnchor(h)) /\ FlushAnchor(h) \in HostState
    BY DEF FlushAnchor, Undoable
  <2>2. ASSUME NEW k \in HostState PROVE SameForwarding(k, StripMain(k))
    BY DEF StripMain
  <2> HIDE DEF HostState, Lost
  <2> QED
    BY <2>1, <2>2 DEF Cleanup
<1>3. /\ SameForwarding(h, StartDnsmasq(h))
      /\ SameForwarding(h, StopDnsmasq(h))
    BY DEF StartDnsmasq, StopDnsmasq
<1>4. /\ SameForwarding(h, SignalNatPmp(h, flag))
      /\ SameForwarding(h, BindNatPmp(h))
      /\ SameForwarding(h, [h EXCEPT !.natpmp = "off"])
      /\ SameForwarding(h, [h EXCEPT !.hooks = FALSE])
    BY DEF SignalNatPmp, BindNatPmp
<1> HIDE DEF HostState, SameForwarding, Lost
<1> QED
    BY <1>1, <1>2, <1>3, <1>4

(* They leave the rest alone, too, but for what they are about. *)
LEMMA EffectsLeave ==
    ASSUME NEW h \in HostState, NEW flag
    PROVE  /\ \A k \in {StartDnsmasq(h), StopDnsmasq(h)} :
                /\ k.body = h.body /\ k.hooks = h.hooks
                /\ k.bypass = h.bypass /\ k.natpmp = h.natpmp
                /\ HasRules(k) <=> HasRules(h)
           /\ \A k \in {SignalNatPmp(h, flag), BindNatPmp(h),
                        [h EXCEPT !.natpmp = "off"]} :
                /\ k.body = h.body /\ k.hooks = h.hooks
                /\ k.bypass = h.bypass /\ k.dnsmasq = h.dnsmasq
                /\ HasRules(k) <=> HasRules(h)
                /\ DnsmasqIsDown(k) <=> DnsmasqIsDown(h)
           /\ StartDnsmasq(h).dnsmasq
           /\ DnsmasqIsDown(StopDnsmasq(h))
<1> USE DEF HostState, HasRules, RulesAreOut, DnsmasqIsDown
<1>1. \A k \in {StartDnsmasq(h), StopDnsmasq(h)} :
        /\ k.body = h.body /\ k.hooks = h.hooks
        /\ k.bypass = h.bypass /\ k.natpmp = h.natpmp
        /\ HasRules(k) <=> HasRules(h)
  <2>1. LET k == StartDnsmasq(h)
        IN  /\ k.body = h.body /\ k.hooks = h.hooks
            /\ k.bypass = h.bypass /\ k.natpmp = h.natpmp
            /\ "body" \in k.refused <=> "body" \in h.refused
            /\ "hooks" \in k.refused <=> "hooks" \in h.refused
    BY DEF StartDnsmasq
  <2>2. LET k == StopDnsmasq(h)
        IN  /\ k.body = h.body /\ k.hooks = h.hooks
            /\ k.bypass = h.bypass /\ k.natpmp = h.natpmp
            /\ "body" \in k.refused <=> "body" \in h.refused
            /\ "hooks" \in k.refused <=> "hooks" \in h.refused
    BY DEF StopDnsmasq
  <2> QED
    BY <2>1, <2>2
<1>2. \A k \in {SignalNatPmp(h, flag), BindNatPmp(h),
                 [h EXCEPT !.natpmp = "off"]} :
        /\ k.body = h.body /\ k.hooks = h.hooks
        /\ k.bypass = h.bypass /\ k.dnsmasq = h.dnsmasq
        /\ HasRules(k) <=> HasRules(h)
        /\ DnsmasqIsDown(k) <=> DnsmasqIsDown(h)
    BY DEF SignalNatPmp, BindNatPmp
<1>3. StartDnsmasq(h).dnsmasq /\ DnsmasqIsDown(StopDnsmasq(h))
    BY DEF StartDnsmasq, StopDnsmasq
<1> HIDE DEF HostState, HasRules, RulesAreOut, DnsmasqIsDown
<1> QED
    BY <1>1, <1>2, <1>3

(* A cleanup takes the rules out, or pf has refused to. *)
LEMMA CleanupEffect ==
    ASSUME NEW h \in HostState
    PROVE  LET k == Cleanup(h)
           IN  /\ k.dnsmasq = h.dnsmasq /\ k.natpmp = h.natpmp
               /\ DnsmasqIsDown(k) <=> DnsmasqIsDown(h)
               /\ ~HasRules(k)
<1> DEFINE f == FlushAnchor(h)
           k == StripMain(f)
<1> USE DEF HostState, RulesAreOut, DnsmasqIsDown
<1>1. /\ f \in HostState /\ f.dnsmasq = h.dnsmasq /\ f.natpmp = h.natpmp
      /\ DnsmasqIsDown(f) <=> DnsmasqIsDown(h)
      /\ f.body = None \/ "body" \in f.refused
    BY DEF FlushAnchor, Undoable
<1> HIDE DEF f
<1>2. /\ k.dnsmasq = f.dnsmasq /\ k.natpmp = f.natpmp
      /\ DnsmasqIsDown(k) <=> DnsmasqIsDown(f)
      /\ k.body = f.body
      /\ "body" \in f.refused => "body" \in k.refused
      /\ ~k.hooks \/ "hooks" \in k.refused
    BY <1>1 DEF StripMain
<1>3. Cleanup(h) = k
    BY DEF Cleanup, f
<1> HIDE DEF k, DnsmasqIsDown
<1> QED
    BY <1>1, <1>2, <1>3 DEF HasRules

(* A restore by whoever knows puts forwarding back, or has been refused. *)
LEMMA RestoreEffect ==
    ASSUME NEW h \in HostState, NEW saved
    PROVE  LET k == RestoreForwarding(h, saved)
           IN  /\ k.body = h.body /\ k.hooks = h.hooks /\ k.bypass = h.bypass
               /\ k.dnsmasq = h.dnsmasq /\ k.natpmp = h.natpmp
               /\ HasRules(k) <=> HasRules(h)
               /\ DnsmasqIsDown(k) <=> DnsmasqIsDown(h)
               /\ Lost(h) => Lost(k)
               /\ Knows(saved, h) => ForwardingIsBack(k)
<1> DEFINE k == RestoreForwarding(h, saved)
<1> USE DEF HostState
<1>1. /\ k.body = h.body /\ k.hooks = h.hooks /\ k.bypass = h.bypass
      /\ k.dnsmasq = h.dnsmasq /\ k.natpmp = h.natpmp
      /\ \A what \in {"body", "hooks", "dnsmasq"} :
            what \in k.refused <=> what \in h.refused
      /\ Lost(h) => Lost(k)
    BY DEF RestoreForwarding, Lost
<1>2. Knows(saved, h) => ForwardingIsBack(k)
    BY HostAssumption DEF Knows, Lost, ForwardingIsBack, Original,
       RestoreForwarding
<1> HIDE DEF k
<1>3. /\ HasRules(k) <=> HasRules(h)
      /\ DnsmasqIsDown(k) <=> DnsmasqIsDown(h)
    BY <1>1 DEF HasRules, RulesAreOut, DnsmasqIsDown
<1> QED
    BY <1>1, <1>2, <1>3 DEF k

(* What is remembered before forwarding is switched on is what it was. *)
LEMMA RememberKnows ==
    ASSUME NEW h \in HostState, NEW saved, Knows(saved, h)
    PROVE  /\ Remember(h, saved) # "unset"
           /\ Knows(Remember(h, saved), h)
           /\ Knows(Remember(h, saved), EnableForwarding(h))
           /\ Lost(h) => Lost(EnableForwarding(h))
<1>1. Remember(h, saved) # "unset"
    BY DEF Remember
<1>2. Remember(h, saved) = Original \/ Lost(h)
    BY HostAssumption DEF Remember, Knows, ForwardingIsBack, Lost, Original,
       HostState
<1>3. Lost(h) <=> Lost(EnableForwarding(h))
    BY DEF Lost, EnableForwarding, HostState
<1> QED
    BY <1>1, <1>2, <1>3 DEF Knows

-----------------------------------------------------------------------------
(* Type correctness. *)

(* An event that may still happen leaves a budget. *)
LEMMA SpendType ==
    ASSUME TypeOK, NEW event \in Events, Spend(event)
    PROVE  left' \in [Events -> Nat]
BY DEF TypeOK, Spend

(* Filling one slot with a task leaves a table of tasks. *)
LEMMA LaunchType ==
    ASSUME TypeOK, NEW s \in Slots, NEW t \in TaskState, Launch(s, t)
    PROVE  task' \in [Slots -> TaskState]
BY DEF TypeOK, Launch

(* Emptying a slot leaves a table of tasks. *)
LEMMA ReleaseType ==
    ASSUME TypeOK, NEW s \in Slots, Release(s)
    PROVE  task' \in [Slots -> TaskState]
BY LaunchType, DefaultTypes DEF Release

(* What a task leaves behind when it answers, or cannot. *)
LEMMA AnswerType ==
    ASSUME TypeOK, NEW s \in Slots, NEW t \in TaskState, NEW h \in HostState,
           Answer(s, t, h)
    PROVE  /\ task' \in [Slots -> TaskState]
           /\ chan' \in Seq(Slots)
           /\ host' \in HostState
<1>1. CASE phase = "running"
  <2>1. [t EXCEPT !.pc = "sent"] \in TaskState
    BY DEF TaskState
  <2>2. Launch(s, [t EXCEPT !.pc = "sent"]) /\ chan' = Append(chan, s)
        /\ host' = h
    BY <1>1 DEF Answer
  <2> QED
    BY <2>1, <2>2, LaunchType DEF TypeOK
<1>2. CASE phase # "running"
  <2>1. Release(s) /\ host' = DropFirewall(h, t.fw) /\ chan' = chan
    BY <1>2 DEF Answer
  <2>2. t.fw \in FirewallManager
    BY DEF TaskState
  <2>3. host' \in HostState
    BY <2>1, <2>2, HostTypes DEF SavedForwarding
  <2> QED
    BY <2>1, <2>3, ReleaseType DEF TypeOK
<1> QED
    BY <1>1, <1>2

(* What a step inside a task leaves behind. *)
LEMMA AdvanceType ==
    ASSUME TypeOK, NEW s \in Slots, NEW t \in TaskState, NEW h \in HostState,
           Advance(s, t, h)
    PROVE  /\ task' \in [Slots -> TaskState]
           /\ chan' \in Seq(Slots)
           /\ host' \in HostState
BY LaunchType DEF Advance, TypeOK

(* A failed step of a task answers, start_sharing_async after a restore. *)
LEMMA AnswerErrorType ==
    ASSUME TypeOK, NEW s \in Slots, AnswerError(s)
    PROVE  /\ task' \in [Slots -> TaskState]
           /\ chan' \in Seq(Slots)
           /\ host' \in HostState
<1>1. task[s] \in TaskState /\ host \in HostState
    BY DEF TypeOK
<1>2. /\ [task[s] EXCEPT !.fwd = "unset"] \in TaskState
      /\ [task[s] EXCEPT !.ok = task[s].op = "health"] \in TaskState
      /\ task[s].fwd \in SavedForwarding
    BY <1>1 DEF TaskState, SavedForwarding
<1>3. RestoreForwarding(host, task[s].fwd) \in HostState
    BY <1>1, <1>2, HostTypes DEF FirewallManager
<1> QED
    BY <1>1, <1>2, <1>3, AnswerType DEF AnswerError

(* What a task may change keeps its type. *)
TaskChangeOK ==
    /\ task' \in [Slots -> TaskState]
    /\ chan' \in Seq(Slots)
    /\ host' \in HostState
    /\ left' \in [Events -> Nat]

(* The steps of a task that only bring it on or make it answer. *)
LEMMA PlainTaskStepType ==
    ASSUME TypeOK, NEW s \in Slots,
           EnableForwardingStep(s) \/ DetectStep(s) \/ LoadBodyStep(s)
             \/ MergeMainStep(s) \/ ServeStep(s) \/ WorkStep(s)
    PROVE  TaskChangeOK
<1> DEFINE t == task[s]
<1>1. /\ t \in TaskState /\ host \in HostState
      /\ left \in [Events -> Nat] /\ "fail" \in Events
    BY DEF TypeOK, Events
<1>2. /\ t.fwd \in SavedForwarding /\ t.vpn \in Utuns \cup {None}
      /\ t.bypass \in BOOLEAN /\ t.fw \in FirewallManager
    BY <1>1 DEF TaskState
<1>3. ASSUME Spend("fail"), AnswerError(s) PROVE TaskChangeOK
    BY <1>1, <1>3, SpendType, AnswerErrorType DEF TaskChangeOK
<1>4. CASE EnableForwardingStep(s)
  <2>1. Remember(host, t.fwd) \in SavedForwarding
        /\ EnableForwarding(host) \in HostState
    BY <1>1, <1>2, HostTypes
  <2>2. /\ [t EXCEPT !.pc = "detect", !.fwd = Remember(host, @)] \in TaskState
        /\ \A saved \in {t.fwd, Remember(host, t.fwd)} :
              [t EXCEPT !.fwd = saved] \in TaskState
    BY <1>1, <1>2, <2>1 DEF TaskState
  <2>3. \/ /\ Advance(s, [t EXCEPT !.pc = "detect", !.fwd = Remember(host, @)],
                       EnableForwarding(host))
           /\ left' = left
        \/ /\ Spend("fail")
           /\ \E saved \in {t.fwd, Remember(host, t.fwd)} :
                 Answer(s, [t EXCEPT !.fwd = saved], host)
    BY <1>4, Zenon DEF EnableForwardingStep
  <2> QED
    BY <1>1, <2>1, <2>2, <2>3, AdvanceType, AnswerType, SpendType
       DEF TaskChangeOK
<1>5. CASE DetectStep(s)
  <2>1. [t EXCEPT !.pc = "body"] \in TaskState
    BY <1>1 DEF TaskState, Writes
  <2> QED
    BY <1>1, <1>3, <1>5, <2>1, AdvanceType DEF DetectStep, TaskChangeOK
<1>6. CASE LoadBodyStep(s)
  <2>1. [t EXCEPT !.pc = "hooks"] \in TaskState
    BY <1>1 DEF TaskState, Writes
  <2>2. LoadBody(host, t.vpn, t.bypass) \in HostState
    BY <1>1, <1>2, HostTypes
  <2> QED
    BY <1>1, <1>3, <1>6, <2>1, <2>2, AdvanceType DEF LoadBodyStep, TaskChangeOK
<1>7. CASE MergeMainStep(s)
  <2> DEFINE done == [t EXCEPT !.fw = IF t.op = "health" THEN @ ELSE "loaded",
                               !.ok = TRUE]
  <2>1. done \in TaskState /\ [done EXCEPT !.pc = "serve"] \in TaskState
    BY <1>1, <1>2 DEF TaskState, FirewallManager
  <2>2. MergeMain(host) \in HostState
    BY <1>1, <1>2, HostTypes
  <2>3. \/ Advance(s, [done EXCEPT !.pc = "serve"], MergeMain(host))
             /\ left' = left
        \/ Answer(s, done, MergeMain(host)) /\ left' = left
        \/ Spend("fail") /\ AnswerError(s)
    BY <1>7 DEF MergeMainStep
  <2> HIDE DEF done
  <2> QED
    BY <1>1, <1>3, <2>1, <2>2, <2>3, AdvanceType, AnswerType DEF TaskChangeOK
<1>8. CASE ServeStep(s)
  <2>1. PICK bound \in BOOLEAN :
          /\ Answer(s, [t EXCEPT !.server = bound,
                                 !.ok = IF t.op = "natpmp" THEN bound ELSE @],
                    IF bound THEN BindNatPmp(host) ELSE host)
          /\ left' = left
    BY <1>8 DEF ServeStep, CanBindNatPmp
  <2>2. [t EXCEPT !.server = bound,
                  !.ok = IF t.op = "natpmp" THEN bound ELSE @] \in TaskState
    BY <1>1 DEF TaskState
  <2>3. (IF bound THEN BindNatPmp(host) ELSE host) \in HostState
    BY <1>1, <1>2, HostTypes
  <2> QED
    BY <1>1, <2>1, <2>2, <2>3, AnswerType DEF TaskChangeOK
<1>9. CASE WorkStep(s)
  <2>1. [t EXCEPT !.ok = TRUE] \in TaskState
    BY <1>1 DEF TaskState
  <2> QED
    BY <1>1, <1>3, <1>9, <2>1, AnswerType DEF WorkStep, TaskChangeOK
<1> QED
    BY <1>4, <1>5, <1>6, <1>7, <1>8, <1>9

(* The steps of the tasks that start and stop dnsmasq, clean up and probe. *)
LEMMA OtherTaskStepType ==
    ASSUME TypeOK, NEW s \in Slots,
           DhcpStep(s) \/ StopDnsmasqStep(s) \/ CleanupStep(s)
             \/ RestoreStep(s) \/ ProbeStep(s) \/ TimeoutStep(s)
    PROVE  TaskChangeOK
<1> DEFINE t == task[s]
<1>1. /\ t \in TaskState /\ host \in HostState
      /\ left \in [Events -> Nat] /\ route \in Utuns \cup {None}
      /\ {"fail", "dhcpTimeout", "heal", "timeout"} \subseteq Events
    BY DEF TypeOK, Events
<1>2. t.fwd \in SavedForwarding /\ None \in Utuns \cup {None}
      /\ "loaded" \in FirewallManager
    BY <1>1 DEF TaskState, FirewallManager
<1>3. /\ StartDnsmasq(host) \in HostState
      /\ StopDnsmasq(host) \in HostState
      /\ Cleanup(host) \in HostState
      /\ RestoreForwarding(host, t.fwd) \in HostState
    BY <1>1, <1>2, HostTypes
<1>4. CASE DhcpStep(s)
  <2>1. [t EXCEPT !.ok = TRUE] \in TaskState
    BY <1>1 DEF TaskState
  <2> QED
    BY <1>1, <1>3, <1>4, <2>1, AnswerType, SpendType DEF DhcpStep, TaskChangeOK
<1>5. CASE StopDnsmasqStep(s)
  <2>1. [t EXCEPT !.pc = "cleanup"] \in TaskState
    BY <1>1 DEF TaskState, Writes
  <2> QED
    BY <1>1, <1>3, <1>5, <2>1, AdvanceType DEF StopDnsmasqStep, TaskChangeOK
<1>6. CASE CleanupStep(s)
  <2>1. /\ [t EXCEPT !.pc = "restore"] \in TaskState
        /\ [t EXCEPT !.pc = "restore", !.fw = "unloaded"] \in TaskState
    BY <1>1 DEF TaskState, Writes, FirewallManager
  <2> QED
    BY <1>1, <1>3, <1>6, <2>1, AdvanceType, SpendType
       DEF CleanupStep, TaskChangeOK
<1>7. CASE RestoreStep(s)
  <2>1. [t EXCEPT !.fwd = "unset"] \in TaskState
    BY <1>1 DEF TaskState, SavedForwarding
  <2> QED
    BY <1>1, <1>3, <1>7, <2>1, AnswerType DEF RestoreStep, TaskChangeOK
<1>8. CASE ProbeStep(s)
  <2> DEFINE seen == [t EXCEPT !.route = route]
  <2>1. /\ [seen EXCEPT !.ok = FALSE] \in TaskState
        /\ [seen EXCEPT !.ok = TRUE] \in TaskState
        /\ [seen EXCEPT !.pc = "body"] \in TaskState
    BY <1>1 DEF TaskState, Writes
  <2>2. \/ Answer(s, [seen EXCEPT !.ok = FALSE], host) /\ left' = left
        \/ Answer(s, [seen EXCEPT !.ok = TRUE], host) /\ left' = left
        \/ Spend("heal") /\ Advance(s, [seen EXCEPT !.pc = "body"], host)
    BY <1>8 DEF ProbeStep
  <2> HIDE DEF seen
  <2> QED
    BY <1>1, <2>1, <2>2, AnswerType, AdvanceType, SpendType DEF TaskChangeOK
<1>9. CASE TimeoutStep(s)
  <2>1. TimedOut(t) \in TaskState
    BY <1>1, <1>2 DEF TaskState, TimedOut
  <2> QED
    BY <1>1, <1>9, <2>1, AnswerType, SpendType DEF TimeoutStep, TaskChangeOK
<1> QED
    BY <1>4, <1>5, <1>6, <1>7, <1>8, <1>9

(* A command that outlives its task, and what it does when it ends. *)
LEMMA LingerStepType ==
    ASSUME TypeOK, NEW s \in Slots, LingerStep(s)
    PROVE  TaskChangeOK
<1> DEFINE t == task[s]
           back == CASE t.pc = "enable"  -> [t EXCEPT !.fwd = Remember(host, @)]
                     [] t.pc = "restore" -> [t EXCEPT !.fwd = "unset"]
                     [] OTHER            -> t
<1>1. t \in TaskState /\ host \in HostState /\ chan \in Seq(Slots)
      /\ "linger" \in Events /\ t.pc \in Writes
    BY DEF TypeOK, Events, LingerStep
<1>2. Remember(host, t.fwd) \in SavedForwarding /\ "unset" \in SavedForwarding
    BY DEF Remember, SavedForwarding, TypeOK, TaskState
<1>3. back \in TaskState
    BY <1>1, <1>2 DEF TaskState
<1>4. [TimedOut(back) EXCEPT !.pc = "sent"] \in TaskState
  <2> HIDE DEF back
  <2> QED
    BY <1>3 DEF TaskState, TimedOut
<1>5. [t EXCEPT !.op = t.pc, !.pc = "late", !.fw = "unloaded"] \in TaskState
    BY <1>1 DEF TaskState, FirewallManager
<1>6. PICK r \in Free :
        task' = [task EXCEPT
                   ![s] = [TimedOut(back) EXCEPT !.pc = "sent"],
                   ![r] = [t EXCEPT !.op = t.pc, !.pc = "late",
                                    !.fw = "unloaded"]]
    BY DEF LingerStep
<1>7. r \in Slots /\ task \in [Slots -> TaskState]
    BY DEF Free, TypeOK
<1> HIDE DEF back
<1>8. task' \in [Slots -> TaskState]
    BY <1>4, <1>5, <1>6, <1>7
<1>9. chan' \in Seq(Slots) /\ host' \in HostState /\ Spend("linger")
    BY <1>1 DEF LingerStep
<1> QED
    BY <1>1, <1>8, <1>9, SpendType DEF TaskChangeOK

(* A command left behind ends: it must be one of the six that can be. *)
LEMMA LateStepType ==
    ASSUME TypeOK, NEW s \in Slots, LateStep(s), task[s].op \in Writes
    PROVE  TaskChangeOK
<1> DEFINE t == task[s]
<1>1. /\ t \in TaskState /\ host \in HostState /\ chan \in Seq(Slots)
      /\ left \in [Events -> Nat] /\ "fail" \in Events
    BY DEF TypeOK, Events
<1>2. /\ t.fwd \in SavedForwarding /\ t.vpn \in Utuns \cup {None}
      /\ t.bypass \in BOOLEAN /\ "loaded" \in FirewallManager
    BY <1>1 DEF TaskState, FirewallManager
<1>3. /\ EnableForwarding(host) \in HostState
      /\ LoadBody(host, t.vpn, t.bypass) \in HostState
      /\ MergeMain(host) \in HostState
      /\ StopDnsmasq(host) \in HostState
      /\ Cleanup(host) \in HostState
      /\ RestoreForwarding(host, t.fwd) \in HostState
    BY <1>1, <1>2, HostTypes
<1>4. LateEffect(t, host) \in HostState
    BY <1>1, <1>3 DEF LateEffect, Writes
<1> QED
    BY <1>1, <1>4, ReleaseType, SpendType
       DEF LateStep, TaskChangeOK, vars, appVars, netVars

(* What begins an operation keeps the types of what it changes. *)
LEMMA BeginStopType ==
    ASSUME TypeOK, NEW s \in Slots, NEW sess \in SessionState,
           BeginStop(s, sess)
    PROVE  /\ pending' \in PendingOps /\ session' \in SessionState
           /\ host' \in HostState /\ task' \in [Slots -> TaskState]
<1>1. /\ TakenFw(sess) \in FirewallManager /\ TakenFwd(sess) \in SavedForwarding
      /\ sess.dhcp \in BOOLEAN /\ sess.server \in BOOLEAN
    BY ManagerTypes DEF SessionState
<1>2. [Idle EXCEPT !.op = "stop", !.pc = "dnsmasq", !.dhcp = sess.dhcp,
                   !.fw = TakenFw(sess), !.fwd = TakenFwd(sess)] \in TaskState
    BY <1>1, DefaultTypes DEF TaskState, Operations, Writes
<1>3. session' \in SessionState
    BY DEF BeginStop, SessionState
<1>4. host' \in HostState
    BY <1>1, HostTypes DEF BeginStop, TypeOK, SavedForwarding, FirewallManager
<1> QED
    BY <1>2, <1>3, <1>4, LaunchType DEF BeginStop, PendingOps

(* A firewall reload keeps the types of what it changes. *)
LEMMA BeginReloadTypes ==
    ASSUME TypeOK, NEW s \in Slots, NEW sess \in SessionState,
           NEW on \in BOOLEAN, BeginReloadFirewall(s, sess, on)
    PROVE  /\ pending' \in PendingOps /\ session' \in SessionState
           /\ task' \in [Slots -> TaskState]
<1>1. /\ TakenFw(sess) \in FirewallManager /\ TakenFwd(sess) \in SavedForwarding
      /\ sess.upstream \in Utuns \cup {None}
    BY ManagerTypes DEF SessionState
<1>2. [Idle EXCEPT !.op = "firewall", !.pc = "body", !.fw = TakenFw(sess),
                   !.vpn = sess.upstream, !.bypass = on, !.on = on]
        \in TaskState
    BY <1>1, DefaultTypes DEF TaskState, Operations, Writes
<1>3. WithPlaceholder(sess) \in SessionState
    BY <1>1 DEF WithPlaceholder, SessionState, FirewallManager
<1> QED
    BY <1>2, <1>3, LaunchType DEF BeginReloadFirewall, PendingOps

(* ... and so does a reload for another tunnel. *)
LEMMA BeginReloadUpstreamType ==
    ASSUME TypeOK, NEW s \in Slots, NEW new \in Utuns,
           BeginReloadUpstream(s, new)
    PROVE  /\ pending' \in PendingOps /\ session' \in SessionState
           /\ host' \in HostState /\ task' \in [Slots -> TaskState]
<1>1. session \in SessionState /\ host \in HostState
    BY DEF TypeOK
<1>2. /\ TakenFw(session) \in FirewallManager
      /\ TakenFwd(session) \in SavedForwarding
      /\ session.wan \in BOOLEAN /\ session.nat \in BOOLEAN
      /\ session.server \in BOOLEAN
    BY <1>1, ManagerTypes DEF SessionState
<1>3. [Idle EXCEPT !.op = "upstream", !.pc = "detect", !.fw = TakenFw(session),
                   !.vpn = new, !.bypass = session.wan, !.nat = session.nat]
        \in TaskState
    BY <1>2, DefaultTypes DEF TaskState, Operations
<1>4. WithPlaceholder(session) \in SessionState
    BY <1>1, <1>2 DEF WithPlaceholder, SessionState, FirewallManager
<1>5. session' \in SessionState
    BY <1>4 DEF BeginReloadUpstream, SessionState
<1>6. (session.nat /\ session.server) \in BOOLEAN
    BY <1>2
<1>7. host' \in HostState
    BY <1>1, <1>6, HostTypes
       DEF BeginReloadUpstream, SavedForwarding, FirewallManager
<1> QED
    BY <1>3, <1>5, <1>7, LaunchType DEF BeginReloadUpstream, PendingOps

(* The next link of the start chain keeps the types of what it changes. *)
LEMMA ChainType ==
    ASSUME TypeOK, NEW s \in Slots, NEW dhcp, NEW natpmp,
           Chain(s, dhcp, natpmp)
    PROVE  /\ pending' \in PendingOps \cup {"none"}
           /\ screen' \in {"Menu", "SelectingLan", "Active"}
           /\ timer' \in BOOLEAN
           /\ task' \in [Slots -> TaskState]
<1>1. /\ [Idle EXCEPT !.op = "dhcp", !.pc = "work"] \in TaskState
      /\ [Idle EXCEPT !.op = "natpmp", !.pc = "work"] \in TaskState
    BY DefaultTypes DEF TaskState, Operations
<1> QED
    BY <1>1, LaunchType, ReleaseType
       DEF Chain, TypeOK, PendingOps, StartChain

(* Dropping the App, its session and its channel keeps every type. *)
LEMMA BeginExitType ==
    ASSUME TypeOK, BeginExit, shouldQuit' \in BOOLEAN,
           left' \in [Events -> Nat]
    PROVE  TypeOK'
<1>1. session \in SessionState /\ host \in HostState
    BY DEF TypeOK
<1>2. DropSession(host, session) \in HostState
    BY <1>1, DropSessionType
<1>3. Cleanup(DropSession(host, session)) \in HostState
    BY <1>2, HostTypes DEF SavedForwarding, FirewallManager
<1>4. host' \in HostState
    BY <1>2, <1>3 DEF BeginExit
<1>5. task' \in [Slots -> TaskState]
    BY DefaultTypes DEF BeginExit, TypeOK
<1>6. <<>> \in Seq(Slots)
    OBVIOUS
<1> QED
    BY <1>4, <1>5, <1>6, DefaultTypes DEF BeginExit, TypeOK, netVars

(* Keys. *)
LEMMA UserStepType ==
    ASSUME TypeOK, UserStep
    PROVE  TypeOK'
<1>1. /\ session \in SessionState /\ host \in HostState
      /\ {"start", "toggle", "cancel", "interrupt"} \subseteq Events
      /\ Free \subseteq Slots /\ up \subseteq Utuns
    BY DEF TypeOK, Events, Free
<1>2. CASE OpenPicker
    BY <1>2 DEF OpenPicker, TypeOK, netVars
<1>3. CASE Navigate
    BY <1>3 DEF Navigate, TypeOK, netVars
<1>4. CASE KeyAfterQuit
    BY <1>4, BeginExitType DEF KeyAfterQuit, TypeOK
<1>5. CASE Cancel
  <2>1. left' \in [Events -> Nat] /\ shouldQuit' = shouldQuit
    BY <1>1, <1>5, SpendType DEF Cancel
  <2>2. CASE BeginExit
    BY <2>1, <2>2, BeginExitType DEF TypeOK
  <2>3. CASE ~BeginExit
    BY <1>5, <2>1, <2>3 DEF Cancel, TypeOK, netVars, StartChain
  <2> QED
    BY <2>2, <2>3
<1>6. CASE Interrupt
  <2>1. left' \in [Events -> Nat] /\ shouldQuit' = shouldQuit
    BY <1>1, <1>6, SpendType DEF Interrupt
  <2> QED
    BY <1>6, <2>1, BeginExitType DEF Interrupt, TypeOK
<1>7. ASSUME NEW s \in Slots, StopSharing(s) PROVE TypeOK'
    BY <1>1, <1>7, BeginStopType DEF StopSharing, TypeOK, netVars
<1>8. ASSUME NEW s \in Slots, ToggleBypass(s) PROVE TypeOK'
  <2>1. left' \in [Events -> Nat]
    BY <1>1, <1>8, SpendType DEF ToggleBypass
  <2>2. [Idle EXCEPT !.op = "wan", !.pc = "work"] \in TaskState
    BY DefaultTypes DEF TaskState, Operations
  <2>3. /\ pending' \in PendingOps \cup {"none"} /\ session' \in SessionState
        /\ task' \in [Slots -> TaskState] /\ allowOn' \in BOOLEAN
    BY <1>1, <1>8, <2>2, BeginReloadTypes, LaunchType
       DEF ToggleBypass, TypeOK, PendingOps
  <2> QED
    BY <1>8, <2>1, <2>3 DEF ToggleBypass, TypeOK, netVars
<1>9. ASSUME NEW s \in Slots, Quit(s) PROVE TypeOK'
  <2>1. shouldQuit' = TRUE
    BY <1>9 DEF Quit
  <2>2. CASE BeginExit /\ left' = left
    BY <2>1, <2>2, BeginExitType DEF TypeOK
  <2>3. CASE BeginStop(s, session) /\ UNCHANGED <<phase, screen, allowOn, timer,
                                                  chan, netVars, left>>
    BY <1>1, <2>1, <2>3, BeginStopType DEF TypeOK, netVars
  <2>4. CASE UNCHANGED <<phase, pending, screen, allowOn, timer, session, task,
                         chan, host, netVars, left>>
    BY <2>1, <2>4 DEF TypeOK, netVars
  <2> QED
    BY <1>9, <2>2, <2>3, <2>4 DEF Quit
<1>10. ASSUME NEW s \in Slots, NEW vpn \in up, StartSharing(s, vpn)
       PROVE  TypeOK'
  <2>1. left' \in [Events -> Nat]
    BY <1>1, <1>10, SpendType DEF StartSharing
  <2>2. [Idle EXCEPT !.op = "start", !.pc = "enable", !.vpn = vpn,
                     !.bypass = allowOn] \in TaskState
    BY <1>1, DefaultTypes DEF TypeOK, TaskState, Operations, Writes
  <2>3. [NoSession EXCEPT !.alive = TRUE, !.upstream = vpn] \in SessionState
    BY <1>1, DefaultTypes DEF SessionState
  <2>4. DropSession(host, session) \in HostState
    BY <1>1, DropSessionType
  <2>5. task' \in [Slots -> TaskState]
    BY <1>10, <2>2, LaunchType DEF StartSharing
  <2> QED
    BY <1>10, <2>1, <2>3, <2>4, <2>5
       DEF StartSharing, TypeOK, netVars, PendingOps, StartChain
<1> QED
    BY <1>2, <1>3, <1>4, <1>5, <1>6, <1>7, <1>8, <1>9, <1>10 DEF UserStep

(* The machine's own moves, and the end of the runtime. *)
LEMMA EnvironmentStepType ==
    ASSUME TypeOK, EnvironmentStep \/ RuntimeDrop
    PROVE  TypeOK'
<1>1. /\ host \in HostState
      /\ {"swap", "drop", "flush", "deny"} \subseteq Events
      /\ Cleanup(host) \in HostState
    BY HostTypes DEF TypeOK, Events, SavedForwarding, FirewallManager
<1>2. CASE NatPmpExit
    BY <1>1, <1>2, HostTypes
       DEF NatPmpExit, TypeOK, appVars, netVars, SavedForwarding, FirewallManager
<1>3. CASE DropVpn
    BY <1>1, <1>3, SpendType DEF DropVpn, TypeOK, appVars
<1>4. CASE FlushMain
    BY <1>1, <1>4, HostTypes, SpendType
       DEF FlushMain, TypeOK, appVars, netVars, SavedForwarding, FirewallManager
<1>5. ASSUME NEW vpn \in Utuns, SwapVpn(vpn) PROVE TypeOK'
    BY <1>1, <1>5, SpendType DEF SwapVpn, TypeOK, appVars
<1>6. CASE RuntimeDrop
  <2>1. task' \in [Slots -> TaskState]
    BY <1>6, DefaultTypes DEF RuntimeDrop, TypeOK
  <2>2. host' \in HostState
    BY <1>1, <1>6, HostTypes DEF RuntimeDrop, SavedForwarding, FirewallManager
  <2> QED
    BY <1>6, <2>1, <2>2 DEF RuntimeDrop, TypeOK, netVars
<1>7. ASSUME NEW what \in Undoable, Deny(what) PROVE TypeOK'
  <2>1. host' \in HostState
    BY <1>1, <1>7 DEF Deny, HostState
  <2> QED
    BY <1>1, <1>7, <2>1, SpendType DEF Deny, TypeOK, appVars, netVars
<1>8. CASE Relent
  <2>1. host' \in HostState
    BY <1>1, <1>8 DEF Relent, HostState
  <2> QED
    BY <1>8, <2>1 DEF Relent, TypeOK, appVars, netVars
<1> QED
    BY <1>2, <1>3, <1>4, <1>5, <1>6, <1>7, <1>8 DEF EnvironmentStep

(* Results.  What a handler may change keeps its type. *)
HandlerChangeOK ==
    /\ pending' \in PendingOps \cup {"none"}
    /\ screen' \in {"Menu", "SelectingLan", "Active"}
    /\ allowOn' \in BOOLEAN
    /\ timer' \in BOOLEAN
    /\ session' \in SessionState
    /\ task' \in [Slots -> TaskState]
    /\ host' \in HostState
    /\ left' \in [Events -> Nat]

(* A handler whose own changes keep their types keeps them all. *)
LEMMA ReceiveType ==
    ASSUME TypeOK, NEW s \in Slots, Receive(s), HandlerChangeOK
    PROVE  TypeOK'
<1>1. chan' \in Seq(Slots)
    BY DEF TypeOK, Receive
<1> QED
    BY <1>1 DEF TypeOK, Receive, HandlerChangeOK, netVars

(* The managers a task brings back, given to the session. *)
LEMMA GiveBackTypes ==
    ASSUME TypeOK, NEW t \in TaskState
    PROVE  /\ GiveBack(t) \in SessionState
           /\ GiveFirewallBack(t) \in SessionState
           /\ HostAfterGiveBack(t) \in HostState
           /\ DropSession(HostAfterGiveBack(t), GiveBack(t)) \in HostState
<1>1. session \in SessionState /\ host \in HostState
    BY DEF TypeOK
<1>2. /\ t.fw \in FirewallManager /\ t.fwd \in SavedForwarding
      /\ TakenFwd(session) \in SavedForwarding
    BY <1>1, ManagerTypes DEF TaskState
<1>3. GiveBack(t) \in SessionState
    BY <1>1, <1>2 DEF GiveBack, SessionState
<1>4. GiveFirewallBack(t) \in SessionState
    BY <1>1, <1>2 DEF GiveFirewallBack, SessionState
<1>5. session.fw \in FirewallManager \/ session.fw = "taken"
    BY <1>1 DEF SessionState
<1>6. DropFirewall(host, session.fw) \in HostState
  <2>1. CASE session.fw \in FirewallManager
    BY <1>1, <2>1, HostTypes DEF SavedForwarding
  <2>2. CASE session.fw = "taken"
    BY <1>1, <2>2 DEF DropFirewall
  <2> QED
    BY <1>5, <2>1, <2>2
<1>7. DropFirewall(host, t.fw) \in HostState
    BY <1>1, <1>2, HostTypes DEF SavedForwarding
<1>8. HostAfterGiveBack(t) \in HostState
    BY <1>6, <1>7 DEF HostAfterGiveBack
<1> QED
    BY <1>3, <1>4, <1>8, DropSessionType

(* Every result handler keeps every type, one step per handler. *)
LEMMA HandleType ==
    ASSUME TypeOK, NEW s \in Slots, Handle(s)
    PROVE  TypeOK'
<1> DEFINE t == task[s]
<1>1. /\ t \in TaskState /\ session \in SessionState /\ host \in HostState
      /\ left \in [Events -> Nat] /\ "fail" \in Events
      /\ pending \in PendingOps \cup {"none"}
      /\ screen \in {"Menu", "SelectingLan", "Active"}
      /\ allowOn \in BOOLEAN /\ timer \in BOOLEAN
    BY DEF TypeOK, Events
<1>2. /\ t.ok \in BOOLEAN /\ t.bypass \in BOOLEAN /\ t.server \in BOOLEAN
      /\ t.vpn \in Utuns \cup {None} /\ session.alive \in BOOLEAN
    BY <1>1 DEF TaskState, SessionState
<1>3. /\ GiveBack(t) \in SessionState
      /\ GiveFirewallBack(t) \in SessionState
      /\ HostAfterGiveBack(t) \in HostState
      /\ DropSession(HostAfterGiveBack(t), GiveBack(t)) \in HostState
      /\ DropSession(host, session) \in HostState
      /\ NoSession \in SessionState
    BY <1>1, GiveBackTypes, DropSessionType, DefaultTypes
<1>4. CASE OnSharingStarted(s)
  <2>1. [Idle EXCEPT !.op = "resolver", !.pc = "work"] \in TaskState
    BY DefaultTypes DEF TaskState, Operations
  <2>2. [GiveBack(t) EXCEPT !.upstream = t.vpn, !.wan = t.bypass]
          \in SessionState
    BY <1>2, <1>3 DEF SessionState
  <2>3. task' \in [Slots -> TaskState]
    BY <1>4, <2>1, LaunchType, ReleaseType DEF OnSharingStarted
  <2>4. session' \in SessionState /\ host' \in HostState
    BY <1>3, <1>4, <2>2 DEF OnSharingStarted
  <2>5. HandlerChangeOK
    BY <1>1, <1>4, <2>3, <2>4
       DEF OnSharingStarted, HandlerChangeOK, PendingOps, StartChain
  <2> QED
    BY <1>4, <2>5, ReceiveType DEF OnSharingStarted
<1>5. CASE OnResolverStarted(s)
  <2>1. [session EXCEPT !.dns = session.alive] \in SessionState
    BY <1>1, <1>2 DEF SessionState
  <2>2. CASE t.ok
    <3>1. /\ Chain(s, DhcpEnabled /\ session.alive,
                      NatPmpEnabled /\ session.alive)
          /\ session' \in SessionState /\ host' = host
          /\ allowOn' = allowOn /\ left' = left
      BY <1>5, <2>1, <2>2 DEF OnResolverStarted
    <3> QED
      BY <1>1, <1>5, <3>1, ChainType, ReceiveType
         DEF OnResolverStarted, HandlerChangeOK
  <2>3. CASE ~t.ok
    <3>1. HandlerChangeOK
      BY <1>1, <1>3, <1>5, <2>3, ReleaseType
         DEF OnResolverStarted, HandlerChangeOK
    <3> QED
      BY <1>5, <3>1, ReceiveType DEF OnResolverStarted
  <2> QED
    BY <2>2, <2>3
<1>6. CASE OnDhcpStarted(s)
  <2>1. [session EXCEPT !.dhcp = @ \/ (t.ok /\ session.alive)] \in SessionState
    BY <1>1, <1>2 DEF SessionState
  <2> QED
    BY <1>1, <1>6, <2>1, ChainType, ReceiveType
       DEF OnDhcpStarted, HandlerChangeOK
<1>7. CASE OnNatPmpStarted(s)
  <2>1. [session EXCEPT !.nat = TRUE, !.server = t.server] \in SessionState
    BY <1>1, <1>2 DEF SessionState
  <2> QED
    BY <1>1, <1>7, <2>1, ChainType, ReceiveType
       DEF OnNatPmpStarted, HandlerChangeOK
<1>8. CASE OnSharingStopped(s)
  <2>1. HandlerChangeOK
    BY <1>1, <1>3, <1>8, ReleaseType DEF OnSharingStopped, HandlerChangeOK
  <2> QED
    BY <1>8, <2>1, ReceiveType DEF OnSharingStopped
<1>9. CASE OnFirewallReloaded(s)
  <2>1. allowOn' \in BOOLEAN /\ left' \in [Events -> Nat]
    BY <1>1, <1>9, SpendType DEF OnFirewallReloaded
  <2>2. HandlerChangeOK
    BY <1>1, <1>3, <1>9, <2>1, ReleaseType
       DEF OnFirewallReloaded, HandlerChangeOK
  <2> QED
    BY <1>9, <2>2, ReceiveType DEF OnFirewallReloaded
<1>10. CASE OnUpstreamReloaded(s)
  <2> DEFINE kept == [GiveFirewallBack(t) EXCEPT
                        !.server = IF session.alive THEN t.server ELSE @]
  <2>1. kept \in SessionState
    BY <1>2, <1>3 DEF SessionState
  <2>2. [kept EXCEPT !.upstream = t.vpn, !.down = FALSE] \in SessionState
    <3> HIDE DEF kept
    <3> QED
      BY <1>2, <2>1 DEF SessionState
  <2>3. session' = kept
        \/ session' = [kept EXCEPT !.upstream = t.vpn, !.down = FALSE]
    BY <1>10 DEF OnUpstreamReloaded
  <2> HIDE DEF kept
  <2>4. HandlerChangeOK
    BY <1>1, <1>3, <1>10, <2>1, <2>2, <2>3, ReleaseType
       DEF OnUpstreamReloaded, HandlerChangeOK
  <2> QED
    BY <1>10, <2>4, ReceiveType DEF OnUpstreamReloaded
<1>11. CASE OnWanDetected(s)
  <2>1. [session EXCEPT !.wan = TRUE] \in SessionState
    BY <1>1 DEF SessionState
  <2>2. HandlerChangeOK
    BY <1>1, <1>11, <2>1, BeginReloadTypes, ReleaseType
       DEF OnWanDetected, HandlerChangeOK
  <2> QED
    BY <1>11, <2>2, ReceiveType DEF OnWanDetected
<1>12. CASE OnHealthCheck(s)
  <2> DEFINE seen == [session EXCEPT !.down = ~t.ok]
  <2>1. seen \in SessionState
    BY <1>1, <1>2 DEF SessionState
  <2>2. \/ Release(s) /\ UNCHANGED <<pending, session, host, timer>>
        \/ /\ t.route \in Utuns /\ BeginReloadUpstream(s, t.route)
           /\ timer' = timer
        \/ BeginStop(s, seen) /\ timer' = timer
        \/ /\ session' = seen /\ timer' \in BOOLEAN
           /\ Release(s) /\ UNCHANGED <<pending, host>>
    BY <1>1, <1>12 DEF OnHealthCheck
  <2> HIDE DEF seen
  <2>3. screen' = screen /\ allowOn' = allowOn /\ left' = left
    BY <1>12 DEF OnHealthCheck
  <2>4. HandlerChangeOK
    BY <1>1, <2>1, <2>2, <2>3, ReleaseType, BeginReloadUpstreamType,
       BeginStopType DEF HandlerChangeOK
  <2> QED
    BY <1>12, <2>4, ReceiveType DEF OnHealthCheck
<1>13. CASE DiscardStale(s)
  <2>1. HandlerChangeOK
    BY <1>1, <1>13, ReleaseType DEF DiscardStale, HandlerChangeOK
  <2> QED
    BY <1>13, <2>1, ReceiveType DEF DiscardStale
<1> QED
    BY <1>4, <1>5, <1>6, <1>7, <1>8, <1>9, <1>10, <1>11, <1>12, <1>13 DEF Handle

(* Launching a probe keeps every type. *)
LEMMA SpawnHealthCheckType ==
    ASSUME TypeOK, NEW s \in Slots, SpawnHealthCheck(s)
    PROVE  TypeOK'
<1>1. /\ session.upstream \in Utuns \cup {None} /\ session.wan \in BOOLEAN
      /\ allowOn \in BOOLEAN
    BY DEF TypeOK, SessionState
<1> DEFINE wanted == allowOn /\ session.wan
<1>2. wanted \in BOOLEAN
    BY <1>1
<1> HIDE DEF wanted
<1>3. [Idle EXCEPT !.op = "health", !.pc = "probe", !.vpn = session.upstream,
                   !.bypass = session.wan, !.on = wanted]
        \in TaskState
    BY <1>1, <1>2, DefaultTypes DEF TaskState, Operations
<1>4. task' \in [Slots -> TaskState]
    BY <1>3, LaunchType DEF SpawnHealthCheck, wanted
<1> QED
    BY <1>4 DEF SpawnHealthCheck, TypeOK, appVars, netVars

-----------------------------------------------------------------------------
(* Whoever is pending has a task. *)

(* No operation is taken for another, or for a command left behind. *)
LEMMA OpOfDistinct ==
    ASSUME NEW p \in PendingOps
    PROVE  /\ OpOf(p) \notin Writes \cup {"none", "health"}
           /\ \A q \in PendingOps : OpOf(p) = OpOf(q) => p = q
BY DEF PendingOps, StartChain, OpOf, Writes

(* A task that takes a step keeps its operation, or ends once the App is   *)
(* gone; the only slot it may fill is an empty one.                        *)
OpsKept ==
    \A r \in Slots :
       \/ task'[r] = task[r]
       \/ task'[r].op = task[r].op /\ task'[r].pc \notin {"idle", "late"}
       \/ phase # "running" /\ task'[r] = Idle
       \/ /\ task[r].pc = "idle"
          /\ task'[r].pc = "late" /\ task'[r].op \in Writes

(* A task that is brought on, or answers, keeps its operation. *)
LEMMA AdvanceKeepsOps ==
    ASSUME TypeOK, NEW s \in Slots, NEW t \in TaskState, NEW h,
           t.op = task[s].op,
           \/ Advance(s, t, h) /\ t.pc \notin {"idle", "late"}
           \/ Answer(s, t, h)
    PROVE  OpsKept
<1>1. task \in [Slots -> TaskState]
    BY DEF TypeOK
<1>2. CASE Advance(s, t, h) /\ t.pc \notin {"idle", "late"}
    BY <1>1, <1>2 DEF Advance, Launch, OpsKept
<1>3. CASE Answer(s, t, h) /\ phase = "running"
  <2>1. task' = [task EXCEPT ![s] = [t EXCEPT !.pc = "sent"]]
    BY <1>3 DEF Answer, Launch
  <2>2. [t EXCEPT !.pc = "sent"].op = task[s].op
        /\ [t EXCEPT !.pc = "sent"].pc = "sent"
    BY DEF TaskState
  <2> QED
    BY <1>1, <2>1, <2>2 DEF OpsKept
<1>4. CASE Answer(s, t, h) /\ phase # "running"
    BY <1>1, <1>4 DEF Answer, Release, Launch, OpsKept
<1> QED
    BY <1>2, <1>3, <1>4

(* No step of a task makes it a task of another operation. *)
LEMMA TaskStepKeepsOps ==
    ASSUME TypeOK, NEW s \in Slots, TaskStep(s)
    PROVE  OpsKept
<1> DEFINE t == task[s]
<1>1. t \in TaskState /\ task \in [Slots -> TaskState]
      /\ host \in HostState /\ route \in Utuns \cup {None}
    BY DEF TypeOK
<1>2. ASSUME AnswerError(s) PROVE OpsKept
  <2>1. /\ [t EXCEPT !.fwd = "unset"] \in TaskState
        /\ [t EXCEPT !.ok = t.op = "health"] \in TaskState
        /\ [t EXCEPT !.fwd = "unset"].op = t.op
        /\ [t EXCEPT !.ok = t.op = "health"].op = t.op
    BY <1>1 DEF TaskState, SavedForwarding
  <2> QED
    BY <1>2, <2>1, AdvanceKeepsOps DEF AnswerError
<1>3. CASE EnableForwardingStep(s)
  <2>1. Remember(host, t.fwd) \in SavedForwarding
    BY <1>1 DEF Remember, TaskState, SavedForwarding
  <2> DEFINE n == [t EXCEPT !.pc = "detect", !.fwd = Remember(host, @)]
  <2>2. n \in TaskState /\ n.op = t.op /\ n.pc = "detect"
    BY <1>1, <2>1 DEF TaskState
  <2>3. ASSUME NEW saved \in {t.fwd, Remember(host, t.fwd)},
               Answer(s, [t EXCEPT !.fwd = saved], host)
        PROVE  OpsKept
    <3>1. /\ [t EXCEPT !.fwd = saved] \in TaskState
          /\ [t EXCEPT !.fwd = saved].op = t.op
      BY <1>1, <2>1 DEF TaskState
    <3> QED
      BY <2>3, <3>1, AdvanceKeepsOps
  <2>4. \/ Advance(s, n, EnableForwarding(host))
        \/ \E saved \in {t.fwd, Remember(host, t.fwd)} :
              Answer(s, [t EXCEPT !.fwd = saved], host)
    BY <1>3, Zenon DEF EnableForwardingStep
  <2> HIDE DEF n
  <2> QED
    BY <2>2, <2>3, <2>4, AdvanceKeepsOps
<1>4. CASE DetectStep(s)
  <2>1. /\ [t EXCEPT !.pc = "body"] \in TaskState
        /\ [t EXCEPT !.pc = "body"].op = t.op
        /\ [t EXCEPT !.pc = "body"].pc = "body"
    BY <1>1 DEF TaskState, Writes
  <2> QED
    BY <1>2, <1>4, <2>1, AdvanceKeepsOps DEF DetectStep
<1>5. CASE LoadBodyStep(s)
  <2>1. /\ [t EXCEPT !.pc = "hooks"] \in TaskState
        /\ [t EXCEPT !.pc = "hooks"].op = t.op
        /\ [t EXCEPT !.pc = "hooks"].pc = "hooks"
    BY <1>1 DEF TaskState, Writes
  <2> QED
    BY <1>2, <1>5, <2>1, AdvanceKeepsOps DEF LoadBodyStep
<1>6. CASE MergeMainStep(s)
  <2> DEFINE done == [t EXCEPT !.fw = IF t.op = "health" THEN @ ELSE "loaded",
                               !.ok = TRUE]
             n == [done EXCEPT !.pc = "serve"]
  <2>1. done \in TaskState /\ done.op = t.op
    BY <1>1 DEF TaskState, FirewallManager
  <2>2. n \in TaskState /\ n.op = t.op /\ n.pc = "serve"
    <3> HIDE DEF done
    <3> QED
      BY <2>1 DEF TaskState
  <2>3. \/ Advance(s, n, MergeMain(host))
        \/ Answer(s, done, MergeMain(host))
        \/ AnswerError(s)
    BY <1>6 DEF MergeMainStep
  <2> HIDE DEF done, n
  <2> QED
    BY <1>2, <2>1, <2>2, <2>3, AdvanceKeepsOps
<1>7. CASE ServeStep(s)
  <2>1. PICK bound \in BOOLEAN :
          Answer(s, [t EXCEPT !.server = bound,
                              !.ok = IF t.op = "natpmp" THEN bound ELSE @],
                 IF bound THEN BindNatPmp(host) ELSE host)
    BY <1>7 DEF ServeStep, CanBindNatPmp
  <2> DEFINE n == [t EXCEPT !.server = bound,
                            !.ok = IF t.op = "natpmp" THEN bound ELSE @]
  <2>2. n \in TaskState /\ n.op = t.op
    BY <1>1 DEF TaskState
  <2> HIDE DEF n
  <2> QED
    BY <2>1, <2>2, AdvanceKeepsOps DEF n
<1>8. CASE WorkStep(s) \/ DhcpStep(s)
  <2>1. [t EXCEPT !.ok = TRUE] \in TaskState
        /\ [t EXCEPT !.ok = TRUE].op = t.op
    BY <1>1 DEF TaskState
  <2> QED
    BY <1>1, <1>2, <1>8, <2>1, AdvanceKeepsOps DEF WorkStep, DhcpStep
<1>9. CASE StopDnsmasqStep(s)
  <2>1. /\ [t EXCEPT !.pc = "cleanup"] \in TaskState
        /\ [t EXCEPT !.pc = "cleanup"].op = t.op
        /\ [t EXCEPT !.pc = "cleanup"].pc = "cleanup"
    BY <1>1 DEF TaskState, Writes
  <2> QED
    BY <1>9, <2>1, AdvanceKeepsOps DEF StopDnsmasqStep
<1>10. CASE CleanupStep(s)
  <2> DEFINE n == [t EXCEPT !.pc = "restore"]
             m == [t EXCEPT !.pc = "restore", !.fw = "unloaded"]
  <2>1. /\ n \in TaskState /\ n.op = t.op /\ n.pc = "restore"
        /\ m \in TaskState /\ m.op = t.op /\ m.pc = "restore"
    BY <1>1 DEF TaskState, Writes, FirewallManager
  <2>2. \E h : Advance(s, n, h) \/ Advance(s, m, h)
    BY <1>10 DEF CleanupStep
  <2> HIDE DEF n, m
  <2> QED
    BY <2>1, <2>2, AdvanceKeepsOps
<1>11. CASE RestoreStep(s)
  <2>1. [t EXCEPT !.fwd = "unset"] \in TaskState
        /\ [t EXCEPT !.fwd = "unset"].op = t.op
    BY <1>1 DEF TaskState, SavedForwarding
  <2> QED
    BY <1>11, <2>1, AdvanceKeepsOps DEF RestoreStep
<1>12. CASE ProbeStep(s)
  <2> DEFINE bad == [[t EXCEPT !.route = route] EXCEPT !.ok = FALSE]
             good == [[t EXCEPT !.route = route] EXCEPT !.ok = TRUE]
             heal == [[t EXCEPT !.route = route] EXCEPT !.pc = "body"]
  <2>1. /\ bad \in TaskState /\ bad.op = t.op
        /\ good \in TaskState /\ good.op = t.op
        /\ heal \in TaskState /\ heal.op = t.op /\ heal.pc = "body"
    BY <1>1 DEF TaskState, Writes
  <2>2. Answer(s, bad, host) \/ Answer(s, good, host) \/ Advance(s, heal, host)
    BY <1>12 DEF ProbeStep
  <2> HIDE DEF bad, good, heal
  <2> QED
    BY <2>1, <2>2, AdvanceKeepsOps
<1>13. CASE TimeoutStep(s)
  <2>1. TimedOut(t) \in TaskState /\ TimedOut(t).op = t.op
    BY <1>1 DEF TaskState, TimedOut
  <2> QED
    BY <1>13, <2>1, AdvanceKeepsOps DEF TimeoutStep
<1>14. CASE LingerStep(s)
  <2> DEFINE back == CASE t.pc = "enable"  -> [t EXCEPT !.fwd = Remember(host, @)]
                       [] t.pc = "restore" -> [t EXCEPT !.fwd = "unset"]
                       [] OTHER            -> t
             n == [TimedOut(back) EXCEPT !.pc = "sent"]
             m == [t EXCEPT !.op = t.pc, !.pc = "late", !.fw = "unloaded"]
  <2>1. back \in TaskState /\ back.op = t.op
    BY <1>1 DEF TaskState, Remember, SavedForwarding
  <2>2. n.op = t.op /\ n.pc = "sent"
    <3> HIDE DEF back
    <3> QED
      BY <2>1 DEF TaskState, TimedOut
  <2>3. m.op = t.pc /\ m.pc = "late" /\ t.pc \in Writes
    BY <1>1, <1>14 DEF TaskState, LingerStep
  <2>4. PICK r \in Free : task' = [task EXCEPT ![s] = n, ![r] = m]
    BY <1>14 DEF LingerStep
  <2>5. r \in Slots /\ task[r].pc = "idle"
    BY <2>4 DEF Free
  <2> HIDE DEF n, m, back
  <2> QED
    BY <1>1, <2>2, <2>3, <2>4, <2>5 DEF OpsKept
<1> QED
    BY <1>3, <1>4, <1>5, <1>6, <1>7, <1>8, <1>9, <1>10, <1>11, <1>12, <1>13,
       <1>14 DEF TaskStep

(* A slot that gets a new task, or is emptied; the others are left alone. *)
LEMMA FillKeepsShape ==
    ASSUME TypeOK, PendingInv, NEW s \in Slots, NEW t, Launch(s, t),
           t = Idle \/ t.pc \notin {"idle", "late"}
    PROVE  /\ \A r \in Slots : /\ task'[r].pc = "idle" => task'[r].op = "none"
                               /\ task'[r].pc = "late" => task'[r].op \in Writes
           /\ task'[s] = t
           /\ \A r \in Slots : r # s => task'[r] = task[r]
BY DEF TypeOK, PendingInv, Launch, Idle

(* An operation becomes pending with the task that will answer it. *)
LEMMA LaunchedIsPending ==
    ASSUME TypeOK, PendingInv, NEW s \in Slots, NEW t, Launch(s, t),
           t.pc \notin {"idle", "late"}, t.op = OpOf(pending'),
           session'.alive, phase' = phase, phase = "running"
    PROVE  PendingInv'
<1>1. /\ \A r \in Slots : /\ task'[r].pc = "idle" => task'[r].op = "none"
                          /\ task'[r].pc = "late" => task'[r].op \in Writes
      /\ task'[s].op = OpOf(pending')
    BY FillKeepsShape
<1>2. PendingHasTask'
    BY <1>1 DEF PendingHasTask, OpOf
<1> QED
    BY <1>1, <1>2 DEF PendingInv, Writes

(* What an operation begun leaves pending is the task it launched. *)
LEMMA BegunIsPending ==
    ASSUME TypeOK, PendingInv, NEW s \in Slots, NEW sess \in SessionState,
           NEW on, NEW new, sess.alive, phase' = phase, phase = "running",
           \/ BeginStop(s, sess)
           \/ BeginReloadFirewall(s, sess, on)
           \/ session.alive /\ BeginReloadUpstream(s, new)
    PROVE  PendingInv'
<1>1. PICK t : /\ Launch(s, t) /\ t.pc \notin {"idle", "late"}
               /\ pending' \in PendingOps /\ t.op = OpOf(pending')
  <2>1. CASE BeginStop(s, sess)
    <3> DEFINE t == [Idle EXCEPT !.op = "stop", !.pc = "dnsmasq",
                                 !.dhcp = sess.dhcp, !.fw = TakenFw(sess),
                                 !.fwd = TakenFwd(sess)]
    <3>1. t.op = "stop" /\ t.pc = "dnsmasq"
      BY DEF Idle
    <3>2. pending' = "StoppingSharing" /\ Launch(s, t)
      BY <2>1 DEF BeginStop
    <3> HIDE DEF t
    <3> QED
      BY <3>1, <3>2 DEF PendingOps, OpOf
  <2>2. CASE BeginReloadFirewall(s, sess, on)
    <3> DEFINE t == [Idle EXCEPT !.op = "firewall", !.pc = "body",
                                 !.fw = TakenFw(sess), !.vpn = sess.upstream,
                                 !.bypass = on, !.on = on]
    <3>1. t.op = "firewall" /\ t.pc = "body"
      BY DEF Idle
    <3>2. pending' = "ReloadingFirewall" /\ Launch(s, t)
      BY <2>2 DEF BeginReloadFirewall
    <3> HIDE DEF t
    <3> QED
      BY <3>1, <3>2 DEF PendingOps, OpOf
  <2>3. CASE BeginReloadUpstream(s, new)
    <3> DEFINE t == [Idle EXCEPT !.op = "upstream", !.pc = "detect",
                                 !.fw = TakenFw(session), !.vpn = new,
                                 !.bypass = session.wan, !.nat = session.nat]
    <3>1. t.op = "upstream" /\ t.pc = "detect"
      BY DEF Idle
    <3>2. pending' = "ReloadingUpstream" /\ Launch(s, t)
      BY <2>3 DEF BeginReloadUpstream
    <3> HIDE DEF t
    <3> QED
      BY <3>1, <3>2 DEF PendingOps, OpOf
  <2> QED
    BY <2>1, <2>2, <2>3
<1>2. session'.alive
  <2>1. CASE BeginStop(s, sess)
    BY <2>1 DEF BeginStop, SessionState
  <2>2. CASE BeginReloadFirewall(s, sess, on)
    BY <2>2 DEF BeginReloadFirewall, WithPlaceholder, SessionState
  <2>3. CASE session.alive /\ BeginReloadUpstream(s, new)
    BY <2>3 DEF BeginReloadUpstream, WithPlaceholder, SessionState, TypeOK
  <2> QED
    BY <2>1, <2>2, <2>3
<1> QED
    BY <1>1, <1>2, LaunchedIsPending

(* A handler that leaves the pending operation and the session as they     *)
(* were empties a slot of another operation, or there is none pending.     *)
LEMMA ReleaseKeepsPending ==
    ASSUME TypeOK, PendingInv, NEW s \in Slots, Release(s), phase' = phase,
           \/ pending' = "none"
           \/ /\ pending' = pending /\ session'.alive = session.alive
              /\ pending # "none" => task[s].op # OpOf(pending)
    PROVE  PendingInv'
<1>1. Launch(s, Idle)
    BY DEF Release
<1>2. /\ \A r \in Slots : /\ task'[r].pc = "idle" => task'[r].op = "none"
                          /\ task'[r].pc = "late" => task'[r].op \in Writes
      /\ \A r \in Slots : r # s => task'[r] = task[r]
    BY <1>1, FillKeepsShape
<1> QED
    BY <1>2 DEF PendingInv, PendingHasTask, OpOf, Writes

(* A program that leaves waits for nothing. *)
LEMMA ExitKeepsPending ==
    ASSUME TypeOK, PendingInv, BeginExit
    PROVE  PendingInv'
BY DEF TypeOK, PendingInv, PendingHasTask, BeginExit, Idle

(* No key leaves an operation pending that no task will answer. *)
LEMMA UserStepKeepsPending ==
    ASSUME TypeOK, PendingInv, UserStep
    PROVE  PendingInv'
<1>1. session \in SessionState /\ Free \subseteq Slots
    BY DEF TypeOK, Free
<1>2. CASE OpenPicker \/ Navigate
    BY <1>2 DEF OpenPicker, Navigate, PendingInv, PendingHasTask
<1>3. CASE KeyAfterQuit \/ Interrupt
    BY <1>3, ExitKeepsPending DEF KeyAfterQuit, Interrupt
<1>4. CASE Cancel
  <2>1. BeginExit \/ (pending' = "none" /\ UNCHANGED <<phase, task>>)
    BY <1>4 DEF Cancel
  <2> QED
    BY <2>1, ExitKeepsPending DEF PendingInv, PendingHasTask
<1>5. ASSUME NEW s \in Slots, StopSharing(s) PROVE PendingInv'
    BY <1>1, <1>5, BegunIsPending DEF StopSharing, KeyReady
<1>6. ASSUME NEW s \in Slots, ToggleBypass(s) PROVE PendingInv'
  <2>1. phase = "running" /\ phase' = phase /\ pending = "none"
    BY <1>6 DEF ToggleBypass, KeyReady
  <2>2. CASE session.alive /\ \E on : BeginReloadFirewall(s, session, on)
    BY <1>1, <2>1, <2>2, BegunIsPending
  <2>3. CASE UNCHANGED <<pending, session, task>>
    BY <2>1, <2>3 DEF PendingInv, PendingHasTask
  <2>4. CASE /\ session.alive /\ pending' = "DetectingWan"
             /\ Launch(s, [Idle EXCEPT !.op = "wan", !.pc = "work"])
             /\ session' = session
    <3> DEFINE t == [Idle EXCEPT !.op = "wan", !.pc = "work"]
    <3>1. t.pc = "work" /\ t.op = OpOf(pending')
      BY <2>4 DEF Idle, OpOf
    <3>2. Launch(s, t)
      BY <2>4
    <3> HIDE DEF t
    <3> QED
      BY <2>1, <2>4, <3>1, <3>2, LaunchedIsPending
  <2> QED
    BY <1>6, <2>2, <2>3, <2>4 DEF ToggleBypass
<1>7. ASSUME NEW s \in Slots, Quit(s) PROVE PendingInv'
  <2>1. phase = "running"
    BY <1>7 DEF Quit
  <2>2. CASE UNCHANGED <<phase, pending, session, task>>
    BY <2>2 DEF PendingInv, PendingHasTask
  <2>3. CASE session.alive /\ BeginStop(s, session) /\ phase' = phase
    BY <1>1, <2>1, <2>3, BegunIsPending
  <2> QED
    BY <1>7, <2>2, <2>3, ExitKeepsPending DEF Quit
<1>8. ASSUME NEW s \in Slots, NEW vpn \in up, StartSharing(s, vpn)
      PROVE  PendingInv'
  <2> DEFINE t == [Idle EXCEPT !.op = "start", !.pc = "enable", !.vpn = vpn,
                               !.bypass = allowOn]
  <2>1. t.op = "start" /\ t.pc = "enable"
    BY DEF Idle
  <2>2. /\ Launch(s, t) /\ session'.alive
        /\ phase' = phase /\ phase = "running"
    BY <1>8 DEF StartSharing, KeyReady, NoSession
  <2>3. OpOf(pending') = "start"
    BY <1>8 DEF StartSharing, OpOf
  <2> HIDE DEF t
  <2> QED
    BY <2>1, <2>2, <2>3, LaunchedIsPending
<1> QED
    BY <1>2, <1>3, <1>4, <1>5, <1>6, <1>7, <1>8 DEF UserStep

(* A task never drops the operation the App is waiting for. *)
LEMMA TaskStepKeepsPending ==
    ASSUME TypeOK, PendingInv, NEW s \in Slots, TaskStep(s)
    PROVE  PendingInv'
<1>1. OpsKept
    BY TaskStepKeepsOps
<1>2. UNCHANGED <<phase, pending, session>>
    BY DEF TaskStep, appVars
<1>3. \A r \in Slots : /\ task'[r].pc = "idle" => task'[r].op = "none"
                       /\ task'[r].pc = "late" => task'[r].op \in Writes
    BY <1>1 DEF OpsKept, PendingInv, Idle
<1>4. ASSUME pending # "none"
      PROVE  \E r \in Slots : task'[r].op = OpOf(pending)
  <2>1. phase = "running" /\ pending \in PendingOps
    BY <1>4 DEF PendingInv, TypeOK
  <2>2. PICK r \in Slots : task[r].op = OpOf(pending)
    BY <1>4 DEF PendingInv, PendingHasTask
  <2>3. task[r].pc # "idle"
    BY <2>1, <2>2, OpOfDistinct DEF PendingInv
  <2> QED
    BY <1>1, <2>1, <2>2, <2>3 DEF OpsKept
<1> QED
    BY <1>2, <1>3, <1>4 DEF PendingInv, PendingHasTask, OpOf, Writes

(* A command left behind was nobody's answer. *)
LEMMA LateStepKeepsPending ==
    ASSUME TypeOK, PendingInv, NEW s \in Slots, LateStep(s)
    PROVE  PendingInv'
<1>1. /\ Release(s) /\ UNCHANGED <<phase, pending, session>>
      /\ task[s].op \in Writes
    BY DEF LateStep, appVars, PendingInv
<1>2. pending # "none" => task[s].op # OpOf(pending)
    BY <1>1, OpOfDistinct DEF TypeOK
<1> QED
    BY <1>1, <1>2, ReleaseKeepsPending

(* A link of the start chain, launched or the last one. *)
LEMMA ChainKeepsPending ==
    ASSUME TypeOK, PendingInv, NEW s \in Slots, NEW dhcp, NEW natpmp,
           Chain(s, dhcp, natpmp), phase' = phase, phase = "running",
           session'.alive
    PROVE  PendingInv'
<1>1. CASE /\ pending' = "StartingDhcp"
           /\ Launch(s, [Idle EXCEPT !.op = "dhcp", !.pc = "work"])
  <2> DEFINE t == [Idle EXCEPT !.op = "dhcp", !.pc = "work"]
  <2>1. t.pc = "work" /\ t.op = OpOf(pending')
    BY <1>1 DEF Idle, OpOf
  <2>2. Launch(s, t)
    BY <1>1
  <2> HIDE DEF t
  <2> QED
    BY <2>1, <2>2, LaunchedIsPending
<1>2. CASE /\ pending' = "StartingNatPmp"
           /\ Launch(s, [Idle EXCEPT !.op = "natpmp", !.pc = "work"])
  <2> DEFINE t == [Idle EXCEPT !.op = "natpmp", !.pc = "work"]
  <2>1. t.pc = "work" /\ t.op = OpOf(pending')
    BY <1>2 DEF Idle, OpOf
  <2>2. Launch(s, t)
    BY <1>2
  <2> HIDE DEF t
  <2> QED
    BY <2>1, <2>2, LaunchedIsPending
<1>3. CASE pending' = "none" /\ Release(s)
    BY <1>3, ReleaseKeepsPending
<1> QED
    BY <1>1, <1>2, <1>3 DEF Chain

(* Every result handler, one step per handler. *)
LEMMA HandleKeepsPending ==
    ASSUME TypeOK, PendingInv, NEW s \in Slots, Handle(s)
    PROVE  PendingInv'
<1> DEFINE t == task[s]
<1>1. /\ session \in SessionState /\ t \in TaskState
      /\ pending \in PendingOps \cup {"none"}
    BY DEF TypeOK
<1>2. pending # "none" => session.alive
    BY DEF PendingInv, PendingHasTask
<1>3. phase = "running" /\ phase' = phase
    BY DEF Handle, OnSharingStarted, OnResolverStarted, OnDhcpStarted,
       OnNatPmpStarted, OnSharingStopped, OnFirewallReloaded,
       OnUpstreamReloaded, OnWanDetected, OnHealthCheck, DiscardStale, Receive
<1>4. GiveBack(t).alive = session.alive
    BY <1>1 DEF GiveBack, SessionState
<1>5. CASE OnSharingStarted(s)
  <2>1. CASE /\ pending # "StartingSharing" /\ pending' = pending
             /\ session' = GiveBack(t) /\ Release(s)
    <3>1. t.op = "start"
      BY <1>5 DEF OnSharingStarted
    <3>2. pending # "none" => t.op # OpOf(pending)
      BY <1>1, <2>1, <3>1 DEF OpOf, PendingOps, StartChain
    <3> QED
      BY <1>3, <1>4, <2>1, <3>2, ReleaseKeepsPending
  <2>2. CASE /\ pending = "StartingSharing" /\ t.ok
             /\ session' = [GiveBack(t) EXCEPT !.upstream = t.vpn,
                                               !.wan = t.bypass]
             /\ pending' = "StartingResolver"
             /\ Launch(s, [Idle EXCEPT !.op = "resolver", !.pc = "work"])
    <3> DEFINE n == [Idle EXCEPT !.op = "resolver", !.pc = "work"]
    <3>1. n.pc = "work" /\ n.op = OpOf(pending')
      BY <2>2 DEF Idle, OpOf
    <3>2. session'.alive
      BY <1>1, <1>2, <2>2 DEF GiveBack, SessionState
    <3>3. Launch(s, n)
      BY <2>2
    <3> HIDE DEF n
    <3> QED
      BY <1>3, <3>1, <3>2, <3>3, LaunchedIsPending
  <2>3. CASE pending' = "none" /\ Release(s)
    BY <1>3, <2>3, ReleaseKeepsPending
  <2> QED
    BY <1>2, <1>5, <2>1, <2>2, <2>3 DEF OnSharingStarted
<1>6. CASE OnResolverStarted(s)
  <2>1. pending = "StartingResolver"
    BY <1>6 DEF OnResolverStarted
  <2>2. CASE /\ session' = [session EXCEPT !.dns = session.alive]
             /\ \E a, b : Chain(s, a, b)
    <3>1. session'.alive
      BY <1>1, <1>2, <2>1, <2>2 DEF SessionState
    <3> QED
      BY <1>3, <2>2, <3>1, ChainKeepsPending
  <2>3. CASE pending' = "none" /\ Release(s)
    BY <1>3, <2>3, ReleaseKeepsPending
  <2> QED
    BY <1>6, <2>2, <2>3 DEF OnResolverStarted
<1>7. CASE OnDhcpStarted(s) \/ OnNatPmpStarted(s)
  <2>1. /\ session'.alive = session.alive
        /\ \E a, b : Chain(s, a, b)
        /\ pending # "none"
    BY <1>1, <1>7 DEF OnDhcpStarted, OnNatPmpStarted, SessionState
  <2> QED
    BY <1>2, <1>3, <2>1, ChainKeepsPending
<1>8. CASE \/ OnSharingStopped(s) \/ OnFirewallReloaded(s)
           \/ OnUpstreamReloaded(s)
    BY <1>3, <1>8, ReleaseKeepsPending
       DEF OnSharingStopped, OnFirewallReloaded, OnUpstreamReloaded
<1>9. CASE OnWanDetected(s)
  <2> DEFINE sess == [session EXCEPT !.wan = TRUE]
  <2>1. sess \in SessionState /\ sess.alive = session.alive
    BY <1>1 DEF SessionState
  <2> HIDE DEF sess
  <2>2. \/ session.alive /\ BeginReloadFirewall(s, sess, TRUE)
        \/ pending' = "none" /\ Release(s)
    BY <1>9 DEF OnWanDetected, sess
  <2> QED
    BY <1>3, <2>1, <2>2, BegunIsPending, ReleaseKeepsPending
<1>10. CASE OnHealthCheck(s)
  <2> DEFINE seen == [session EXCEPT !.down = ~t.ok]
  <2>1. /\ seen \in SessionState /\ seen.alive = session.alive
        /\ pending # "none" => t.op # OpOf(pending)
    <3>1. t.op = "health"
      BY <1>10 DEF OnHealthCheck
    <3> QED
      BY <1>1, <3>1, OpOfDistinct DEF SessionState
  <2> HIDE DEF seen
  <2>2. \/ Release(s) /\ pending' = pending /\ session' \in {session, seen}
        \/ session.alive /\ BeginReloadUpstream(s, t.route)
        \/ session.alive /\ BeginStop(s, seen)
    BY <1>10 DEF OnHealthCheck, seen
  <2>3. CASE Release(s) /\ pending' = pending /\ session' \in {session, seen}
    BY <1>3, <2>1, <2>3, ReleaseKeepsPending
  <2> QED
    BY <1>1, <1>3, <2>1, <2>2, <2>3, BegunIsPending
<1>11. CASE DiscardStale(s)
  <2>1. pending # "none" => t.op # OpOf(pending)
    BY <1>1, <1>11 DEF DiscardStale, OpOf, PendingOps, StartChain
  <2>2. Release(s) /\ pending' = pending /\ session' = session
    BY <1>11 DEF DiscardStale
  <2> QED
    BY <1>3, <2>1, <2>2, ReleaseKeepsPending
<1> QED
    BY <1>5, <1>6, <1>7, <1>8, <1>9, <1>10, <1>11 DEF Handle

(* A probe is launched only while nothing is pending. *)
LEMMA SpawnKeepsPending ==
    ASSUME TypeOK, PendingInv, NEW s \in Slots, SpawnHealthCheck(s)
    PROVE  PendingInv'
<1> DEFINE t == [Idle EXCEPT !.op = "health", !.pc = "probe",
                             !.vpn = session.upstream,
                             !.bypass = session.wan,
                             !.on = allowOn /\ session.wan]
<1>1. t.op = "health" /\ t.pc = "probe"
    BY DEF Idle
<1> HIDE DEF t
<1>2. /\ Launch(s, t) /\ pending = "none" /\ pending' = pending
      /\ phase' = phase
    BY DEF SpawnHealthCheck, KeyReady, appVars, t
<1> QED
    BY <1>1, <1>2, FillKeepsShape DEF PendingInv, PendingHasTask, Writes

(* The machine's moves leave the App and its tasks alone; the end of the   *)
(* runtime ends the tasks of an App that waits for nothing.                *)
LEMMA EnvironmentStepKeepsPending ==
    ASSUME TypeOK, PendingInv, EnvironmentStep \/ RuntimeDrop
    PROVE  PendingInv'
<1>1. CASE EnvironmentStep
    BY <1>1 DEF EnvironmentStep, NatPmpExit, DropVpn, FlushMain, SwapVpn,
       Deny, Relent, appVars, PendingInv, PendingHasTask
<1>2. CASE RuntimeDrop
    BY <1>2 DEF RuntimeDrop, TypeOK, PendingInv, PendingHasTask, Idle
<1> QED
    BY <1>1, <1>2

-----------------------------------------------------------------------------
(* Both invariants hold of every behaviour. *)

(* The program starts with nothing pending and no task. *)
LEMMA InitEstablishes == Init => TypeOK /\ PendingInv
<1> SUFFICES ASSUME Init PROVE TypeOK /\ PendingInv
    OBVIOUS
<1>1. task \in [Slots -> TaskState] /\ chan \in Seq(Slots)
    BY DefaultTypes DEF Init
<1>2. up \subseteq Utuns /\ route \in Utuns \cup {None}
    BY DEF Init
<1>3. left \in [Events -> Nat]
    BY SharingAssumption DEF Init
<1>4. TypeOK
    BY <1>1, <1>2, <1>3, DefaultTypes DEF Init, TypeOK
<1>5. PendingInv
    BY DEF Init, PendingInv, PendingHasTask, Idle
<1> QED
    BY <1>4, <1>5

(* Every step keeps both: a late command keeps its type only because       *)
(* PendingInv says which command it is.                                    *)
LEMMA NextKeeps == TypeOK /\ PendingInv /\ [Next]_vars => (TypeOK /\ PendingInv)'
<1> SUFFICES ASSUME TypeOK, PendingInv, [Next]_vars
             PROVE  TypeOK' /\ PendingInv'
    OBVIOUS
<1>1. CASE UserStep
    BY <1>1, UserStepType, UserStepKeepsPending
<1>2. ASSUME NEW s \in Slots, TaskStep(s)
      PROVE  TypeOK' /\ PendingInv'
  <2>1. TaskChangeOK
    BY <1>2, PlainTaskStepType, OtherTaskStepType, LingerStepType DEF TaskStep
  <2>2. TypeOK'
    BY <1>2, <2>1 DEF TaskStep, TaskChangeOK, TypeOK, appVars, netVars
  <2> QED
    BY <1>2, <2>2, TaskStepKeepsPending
<1>3. ASSUME NEW s \in Slots, LateStep(s)
      PROVE  TypeOK' /\ PendingInv'
  <2>1. TaskChangeOK
    BY <1>3, LateStepType DEF LateStep, PendingInv
  <2>2. TypeOK'
    BY <1>3, <2>1 DEF LateStep, TaskChangeOK, TypeOK, appVars, netVars
  <2> QED
    BY <1>3, <2>2, LateStepKeepsPending
<1>4. CASE PollStep
    BY <1>4, HandleType, SpawnHealthCheckType, HandleKeepsPending,
       SpawnKeepsPending DEF PollStep
<1>5. CASE RuntimeDrop \/ EnvironmentStep
    BY <1>5, EnvironmentStepType, EnvironmentStepKeepsPending
<1>6. CASE UNCHANGED vars
    BY <1>6 DEF vars, appVars, netVars, TypeOK, PendingInv, PendingHasTask
<1> QED
    BY <1>1, <1>2, <1>3, <1>4, <1>5, <1>6 DEF Next

(* Every variable always holds a value of its type. *)
THEOREM TypeCorrect == Spec => []TypeOK
<1>1. Spec => [](TypeOK /\ PendingInv)
    BY InitEstablishes, NextKeeps, PTL DEF Spec
<1> QED
    BY <1>1, PTL

(* Whatever is cancelled, timed out, late or stale, an operation shown as  *)
(* pending belongs to a live session and a task of its kind will answer.   *)
THEOREM PendingOwned == Spec => []PendingHasTask
<1>1. Spec => [](TypeOK /\ PendingInv)
    BY InitEstablishes, NextKeeps, PTL DEF Spec
<1>2. PendingInv => PendingHasTask
    BY DEF PendingInv
<1> QED
    BY <1>1, <1>2, PTL

-----------------------------------------------------------------------------
(***************************************************************************)
(* A session whose operations are left to answer.                          *)
(***************************************************************************)

(* What is used up stays used up.                                          *)

\* A step spends one event that is left, or none.
LeftChange == left' = left \/ \E e \in Events : Spend(e)

(* No task spends more than one event. *)
LEMMA TaskSpends ==
    ASSUME NEW s \in Slots, TaskStep(s)
    PROVE  LeftChange
BY DEF TaskStep, LeftChange, Events, EnableForwardingStep, DetectStep,
   LoadBodyStep, MergeMainStep, ServeStep, WorkStep, DhcpStep,
   StopDnsmasqStep, CleanupStep, RestoreStep, ProbeStep, TimeoutStep,
   LingerStep

(* No step of the program or of the machine does. *)
LEMMA NextSpends ==
    ASSUME [Next]_vars
    PROVE  LeftChange
<1>1. CASE UserStep
    BY <1>1 DEF UserStep, LeftChange, Events, OpenPicker, Navigate,
       KeyAfterQuit, Cancel, Interrupt, StopSharing, ToggleBypass, Quit,
       StartSharing
<1>2. CASE PollStep
  <2>1. PICK s \in Slots : Handle(s) \/ SpawnHealthCheck(s)
    BY <1>2 DEF PollStep
  <2> QED
    BY <2>1 DEF LeftChange, Events, Handle, SpawnHealthCheck,
       OnSharingStarted, OnResolverStarted, OnDhcpStarted, OnNatPmpStarted,
       OnSharingStopped, OnFirewallReloaded, OnUpstreamReloaded,
       OnWanDetected, OnHealthCheck, DiscardStale
<1>3. CASE EnvironmentStep \/ RuntimeDrop \/ UNCHANGED vars
    BY <1>3 DEF EnvironmentStep, LeftChange, Events, NatPmpExit, DropVpn,
       FlushMain, SwapVpn, Deny, Relent, RuntimeDrop, vars
<1>4. ASSUME NEW s \in Slots, LateStep(s) PROVE LeftChange
    BY <1>4 DEF LateStep, LeftChange, Events
<1> QED
    BY <1>1, <1>2, <1>3, <1>4, TaskSpends DEF Next

(* Events that no scenario contains never happen. *)
LEMMA ExhaustedStays ==
    ASSUME TypeOK, NEW events \in SUBSET Events, Exhausted(events),
           [Next]_vars
    PROVE  Exhausted(events)'
<1>1. CASE left' = left
    BY <1>1 DEF Exhausted
<1>2. ASSUME NEW e \in Events, Spend(e) PROVE Exhausted(events)'
    BY <1>2 DEF Exhausted, Spend, TypeOK
<1> QED
    BY <1>1, <1>2, NextSpends DEF LeftChange

(* An event of which none is left does not happen. *)
LEMMA NotSpent ==
    ASSUME NEW events, Exhausted(events), NEW e \in events
    PROVE  ~Spend(e)
BY DEF Exhausted, Spend

-----------------------------------------------------------------------------
(* Sharing one slot's change among all.                                    *)

(* A slot that is filled holds what it is filled with, the rest stays. *)
LEMMA Filled ==
    ASSUME TypeOK, NEW s \in Slots, NEW t, Launch(s, t)
    PROVE  /\ task'[s] = t
           /\ \A r \in Slots : r # s => task'[r] = task[r]
BY DEF TypeOK, Launch

(* An empty slot has the shape of one. *)
LEMMA IdleShape == TaskShape(Idle)
<1>1. /\ Idle.op = "none" /\ Idle.pc = "idle" /\ Idle.fw = "unloaded"
      /\ Idle.fwd = "unset" /\ ~Idle.nat /\ ~Idle.server /\ ~Idle.ok
    BY DEF Idle
<1> QED
    BY <1>1 DEF TaskShape, Placed

(* Where a task is tells what it is about. *)
LEMMA PcTells ==
    ASSUME NEW t, TaskShape(t)
    PROVE  /\ t.pc # "late"
           /\ t.pc = "idle" => t.op = "none"
           /\ t.pc = "enable" => t.op = "start"
           /\ t.pc = "detect" => t.op \in {"start", "upstream"}
           /\ t.pc \in {"body", "hooks"}
                => t.op \in {"start", "upstream", "firewall", "health"}
           /\ t.pc = "serve" => t.op = "upstream"
           /\ t.pc = "work" => t.op \in {"resolver", "dhcp", "natpmp", "wan"}
           /\ t.pc \in {"dnsmasq", "cleanup", "restore"} => t.op = "stop"
           /\ t.pc = "probe" => t.op = "health"
BY DEF TaskShape, Placed

-----------------------------------------------------------------------------
(* What a step of a task may do.                                           *)

\* The rules of a session go only in its stop, and IP forwarding is touched
\* only in a start or a stop, which remembers what it still has to restore.
TaskMove(s) ==
    /\ \A r \in Slots : r # s => task'[r] = task[r]
    /\ TaskShape(task'[s]) /\ Remembers(task[s])'
    /\ IF phase = "running" THEN task'[s].op = task[s].op
       ELSE task'[s].op \in {task[s].op, "none"}
    /\ Lost(host) => Lost(host')
    /\ Still(host, host') \/ task[s].op \in {"start", "stop"}
    /\ host.body # None /\ host'.body = None => task[s].op = "stop"

\* A machine that a task t may leave behind.
MayLeave(t, h) == /\ Lost(host) => Lost(h)
                  /\ Still(host, h) \/ t.op \in {"start", "stop"}
                  /\ t.op \in {"start", "stop"} => Knows(t.fwd, h)

\* What SoloInv and PendingInv say of a task that is about to take a step.
MayMove(s) ==
    /\ TaskShape(task[s]) /\ Remembers(task[s])
    /\ phase # "running" => task[s].op \in {"none", "health"}

(* A step inside the task ... *)
LEMMA AdvanceMoves ==
    ASSUME TypeOK, NEW s \in Slots, NEW t, NEW h, Advance(s, t, h),
           TaskShape(t), t.op = task[s].op, MayLeave(t, h),
           host.body # None /\ h.body = None => t.op = "stop"
    PROVE  TaskMove(s)
BY Filled DEF Advance, TaskMove, Remembers, MayLeave

(* ... and its answer, which is dropped once the App is gone. *)
LEMMA AnswerMoves ==
    ASSUME TypeOK, NEW s \in Slots, MayMove(s), NEW t \in TaskState, NEW h,
           Answer(s, t, h), TaskShape([t EXCEPT !.pc = "sent"]),
           t.op = task[s].op, MayLeave(t, h),
           host.body # None /\ h.body = None => t.op = "stop"
    PROVE  TaskMove(s)
<1> DEFINE n == [t EXCEPT !.pc = "sent"]
<1>1. n.op = t.op /\ n.fwd = t.fwd /\ n.fw = t.fw
    BY DEF TaskState
<1>2. TaskShape(n)
    OBVIOUS
<1>3. CASE phase = "running"
  <2>1. Launch(s, n) /\ host' = h
    BY <1>3 DEF Answer
  <2> HIDE DEF n
  <2> QED
    BY <1>1, <1>2, <1>3, <2>1, Filled DEF TaskMove, Remembers, MayLeave
<1>4. CASE phase # "running"
  <2>1. Launch(s, Idle) /\ host' = DropFirewall(h, t.fw)
    BY <1>4 DEF Answer, Release
  <2> HIDE DEF n
  <2>2. t.fw # "loaded"
    BY <1>1, <1>2, <1>4 DEF MayMove, TaskShape
  <2>3. Idle.op = "none"
    BY DEF Idle
  <2> QED
    BY <1>4, <2>1, <2>2, <2>3, Filled, IdleShape DEF TaskMove, DropFirewall,
       Remembers, MayLeave
<1> QED
    BY <1>3, <1>4

(* Every step of a task, one case for each. *)
LEMMA TaskStepMoves ==
    ASSUME TypeOK, NEW s \in Slots, MayMove(s), TaskStep(s),
           Exhausted(Disturbances)
    PROVE  TaskMove(s)
<1> DEFINE t == task[s]
<1>1. t \in TaskState /\ host \in HostState
    BY DEF TypeOK
<1>2. /\ TaskShape(t)
      /\ t.op \in {"start", "stop"} => Knows(t.fwd, host)
    BY DEF MayMove, Remembers
<1>17. ASSUME NEW n, n.op = t.op, n.fwd = t.fwd,
              NEW h, SameForwarding(host, h)
       PROVE  MayLeave(n, h)
    BY <1>2, <1>17, SameIsStill DEF MayLeave, Still
<1>18. SameForwarding(host, host)
    BY <1>1, EffectsLeaveForwarding
<1>3. ASSUME AnswerError(s),
             t.pc \notin {"idle", "dnsmasq", "cleanup", "restore"}
      PROVE  TaskMove(s)
  <2>1. CASE t.op = "start"
    <3> DEFINE n == [t EXCEPT !.fwd = "unset"]
               h == RestoreForwarding(host, t.fwd)
    <3>1. n \in TaskState /\ n.op = t.op /\ n.fwd = "unset"
      BY <1>1 DEF TaskState, SavedForwarding
    <3>2. TaskShape([n EXCEPT !.pc = "sent"])
      BY <1>1, <1>2, <2>1 DEF TaskState, TaskShape, Placed
    <3>3. /\ ForwardingIsBack(h) /\ h.body = host.body
          /\ Lost(host) => Lost(h)
      BY <1>1, <1>2, <2>1, RestoreEffect
    <3>4. Answer(s, n, h)
      BY <1>3, <2>1 DEF AnswerError
    <3>5. MayLeave(n, h)
      BY <2>1, <3>1, <3>3 DEF MayLeave, Knows
    <3> HIDE DEF n, h
    <3> QED
      BY <2>1, <3>1, <3>2, <3>3, <3>4, <3>5, AnswerMoves
  <2>2. CASE t.op # "start"
    <3> DEFINE n == [t EXCEPT !.ok = t.op = "health"]
    <3>1. n \in TaskState /\ n.op = t.op /\ n.fwd = t.fwd
      BY <1>1 DEF TaskState
    <3>2. TaskShape([n EXCEPT !.pc = "sent"])
      BY <1>1, <1>2, <1>3, <2>2 DEF TaskState, TaskShape, Placed
    <3>3. Answer(s, n, host)
      BY <1>3, <2>2 DEF AnswerError
    <3> HIDE DEF n
    <3>4. MayLeave(n, host)
      BY <3>1, <1>17, <1>18
    <3> QED
      BY <3>1, <3>2, <3>3, <3>4, AnswerMoves
  <2> QED
    BY <2>1, <2>2
<1>4. CASE EnableForwardingStep(s)
  <2> DEFINE n == [t EXCEPT !.pc = "detect", !.fwd = Remember(host, @)]
             h == EnableForwarding(host)
  <2>1. t.op = "start" /\ t.pc = "enable"
    BY <1>2, <1>4, PcTells DEF EnableForwardingStep
  <2>2. /\ Knows(t.fwd, host) /\ t.fwd \in SavedForwarding
        /\ Remember(host, t.fwd) \in SavedForwarding
    BY <1>1, <1>2, <2>1 DEF TaskState, Remember, SavedForwarding
  <2>3. /\ n \in TaskState /\ n.op = t.op
        /\ n.fwd = Remember(host, t.fwd)
    BY <1>1, <2>2 DEF TaskState
  <2>4. TaskShape(n)
    BY <1>1, <1>2, <2>1, <2>2 DEF TaskState, TaskShape, Placed
  <2>5. h.body = host.body
    BY <1>1 DEF EnableForwarding, HostState
  <2>6. MayLeave(n, h)
    BY <1>1, <2>1, <2>2, <2>3, RememberKnows DEF MayLeave
  <2>7. ASSUME NEW saved \in {t.fwd, Remember(host, t.fwd)},
               Answer(s, [t EXCEPT !.fwd = saved], host)
        PROVE  TaskMove(s)
    <3> DEFINE m == [t EXCEPT !.fwd = saved]
    <3>1. m \in TaskState /\ m.op = t.op /\ m.fwd = saved
      BY <1>1, <2>2 DEF TaskState
    <3>2. TaskShape([m EXCEPT !.pc = "sent"])
      BY <1>1, <1>2, <2>1, <2>2 DEF TaskState, TaskShape, Placed
    <3>3. Knows(saved, host)
      BY <1>1, <2>2, RememberKnows
    <3>4. MayLeave(m, host)
      BY <2>1, <3>1, <3>3 DEF MayLeave
    <3>5. Answer(s, m, host)
      BY <2>7
    <3> HIDE DEF m
    <3> QED
      BY <2>1, <3>1, <3>2, <3>4, <3>5, AnswerMoves
  <2>8. \/ Advance(s, n, h)
        \/ \E saved \in {t.fwd, Remember(host, t.fwd)} :
              Answer(s, [t EXCEPT !.fwd = saved], host)
    BY <1>4, Zenon DEF EnableForwardingStep
  <2> HIDE DEF n, h
  <2> QED
    BY <2>1, <2>3, <2>4, <2>5, <2>6, <2>7, <2>8, AdvanceMoves
<1>5. CASE DetectStep(s)
  <2> DEFINE n == [t EXCEPT !.pc = "body"]
  <2>1. t.pc = "detect" /\ t.op \in {"start", "upstream"}
    BY <1>2, <1>5, PcTells DEF DetectStep
  <2>2. n \in TaskState /\ n.op = t.op /\ n.fwd = t.fwd
    BY <1>1 DEF TaskState, Writes
  <2>3. TaskShape(n)
    BY <1>1, <1>2, <2>1 DEF TaskState, TaskShape, Placed
  <2>4. Advance(s, n, host) \/ AnswerError(s)
    BY <1>5 DEF DetectStep
  <2> HIDE DEF n
  <2> QED
    BY <1>3, <1>17, <1>18, <2>1, <2>2, <2>3, <2>4, AdvanceMoves, AnswerMoves
<1>6. CASE LoadBodyStep(s)
  <2> DEFINE n == [t EXCEPT !.pc = "hooks"]
             h == LoadBody(host, t.vpn, t.bypass)
  <2>1. /\ t.pc = "body"
        /\ t.op \in {"start", "upstream", "firewall", "health"}
    BY <1>2, <1>6, PcTells DEF LoadBodyStep
  <2>2. n \in TaskState /\ n.op = t.op /\ n.fwd = t.fwd
    BY <1>1 DEF TaskState, Writes
  <2>3. TaskShape(n)
    BY <1>1, <1>2, <2>1 DEF TaskState, TaskShape, Placed
  <2>4. SameForwarding(host, h) /\ h.body # None
    BY <1>1, <1>2, <2>1, HostAssumption, EffectsLeaveForwarding
       DEF LoadBody, HostState, TaskShape
  <2>5. Advance(s, n, h) \/ AnswerError(s)
    BY <1>6 DEF LoadBodyStep
  <2> HIDE DEF n, h
  <2> QED
    BY <1>3, <1>17, <2>1, <2>2, <2>3, <2>4, <2>5, AdvanceMoves, AnswerMoves
<1>7. CASE MergeMainStep(s)
  <2> DEFINE done == [t EXCEPT !.fw = IF t.op = "health" THEN @ ELSE "loaded",
                               !.ok = TRUE]
             n == [done EXCEPT !.pc = "serve"]
             h == MergeMain(host)
  <2>1. /\ t.pc = "hooks"
        /\ t.op \in {"start", "upstream", "firewall", "health"}
    BY <1>2, <1>7, PcTells DEF MergeMainStep
  <2>2. done \in TaskState /\ done.op = t.op /\ done.fwd = t.fwd
    BY <1>1 DEF TaskState, FirewallManager
  <2>3. TaskShape([done EXCEPT !.pc = "sent"])
    BY <1>1, <1>2, <2>1 DEF TaskState, FirewallManager, TaskShape, Placed
  <2>4. n \in TaskState /\ n.op = t.op /\ n.fwd = t.fwd
    <3> HIDE DEF done
    <3> QED
      BY <2>2 DEF TaskState
  <2>5. t.nat => TaskShape(n)
    BY <1>1, <1>2, <2>1 DEF TaskState, FirewallManager, TaskShape, Placed
  <2>6. SameForwarding(host, h) /\ h.body = host.body
    BY <1>1, EffectsLeaveForwarding DEF MergeMain, HostState
  <2>7. \/ t.nat /\ Advance(s, n, h)
        \/ Answer(s, done, h)
        \/ AnswerError(s)
    BY <1>7 DEF MergeMainStep
  <2> HIDE DEF done, n, h
  <2> QED
    BY <1>3, <1>17, <2>1, <2>2, <2>3, <2>4, <2>5, <2>6, <2>7, AdvanceMoves,
       AnswerMoves
<1>8. CASE ServeStep(s)
  <2>1. PICK bound \in BOOLEAN :
          Answer(s, [t EXCEPT !.server = bound,
                              !.ok = IF t.op = "natpmp" THEN bound ELSE @],
                 IF bound THEN BindNatPmp(host) ELSE host)
    BY <1>8 DEF ServeStep, CanBindNatPmp
  <2> DEFINE n == [t EXCEPT !.server = bound,
                            !.ok = IF t.op = "natpmp" THEN bound ELSE @]
             h == IF bound THEN BindNatPmp(host) ELSE host
  <2>2. n \in TaskState /\ n.op = t.op /\ n.fwd = t.fwd
    BY <1>1 DEF TaskState
  <2>3. t.op \in {"upstream", "natpmp"}
    BY <1>2, <1>8, PcTells DEF ServeStep
  <2>4. TaskShape([n EXCEPT !.pc = "sent"])
    BY <1>1, <1>2, <2>3 DEF TaskState, TaskShape, Placed
  <2>5. SameForwarding(host, h) /\ h.body = host.body
    BY <1>1, <1>18, EffectsLeaveForwarding DEF BindNatPmp, HostState
  <2> HIDE DEF n, h
  <2>6. Answer(s, n, h)
    BY <2>1 DEF n, h
  <2> QED
    BY <1>17, <2>2, <2>4, <2>5, <2>6, AnswerMoves
<1>9. CASE WorkStep(s)
  <2> DEFINE n == [t EXCEPT !.ok = TRUE]
  <2>1. t.pc = "work" /\ t.op \in {"resolver", "wan"}
    BY <1>9 DEF WorkStep
  <2>2. n \in TaskState /\ n.op = t.op /\ n.fwd = t.fwd
    BY <1>1 DEF TaskState
  <2>3. TaskShape([n EXCEPT !.pc = "sent"])
    BY <1>1, <1>2, <2>1 DEF TaskState, TaskShape, Placed
  <2>4. Answer(s, n, host) \/ AnswerError(s)
    BY <1>9 DEF WorkStep
  <2> HIDE DEF n
  <2> QED
    BY <1>3, <1>17, <1>18, <2>1, <2>2, <2>3, <2>4, AdvanceMoves, AnswerMoves
<1>10. CASE DhcpStep(s)
  <2> DEFINE n == [t EXCEPT !.ok = TRUE]
  <2>1. t.pc = "work" /\ t.op = "dhcp"
    BY <1>10 DEF DhcpStep
  <2>2. n \in TaskState /\ n.op = t.op /\ n.fwd = t.fwd
    BY <1>1 DEF TaskState
  <2>3. /\ TaskShape([n EXCEPT !.pc = "sent"])
        /\ TaskShape([t EXCEPT !.pc = "sent"])
    BY <1>1, <1>2, <2>1 DEF TaskState, TaskShape, Placed
  <2>4. \A h \in {StartDnsmasq(host), StopDnsmasq(host)} :
           SameForwarding(host, h) /\ h.body = host.body
    BY <1>1, EffectsLeave, EffectsLeaveForwarding
  <2>5. \E h \in {StartDnsmasq(host), StopDnsmasq(host)} :
           Answer(s, n, h) \/ Answer(s, t, h)
    BY <1>10 DEF DhcpStep
  <2> HIDE DEF n
  <2> QED
    BY <1>1, <1>17, <2>2, <2>3, <2>4, <2>5, AnswerMoves
<1>11. CASE StopDnsmasqStep(s)
  <2> DEFINE n == [t EXCEPT !.pc = "cleanup"]
             h == IF t.dhcp THEN StopDnsmasq(host) ELSE host
  <2>1. t.pc = "dnsmasq" /\ t.op = "stop"
    BY <1>2, <1>11, PcTells DEF StopDnsmasqStep
  <2>2. n \in TaskState /\ n.op = t.op /\ n.fwd = t.fwd
    BY <1>1 DEF TaskState, Writes
  <2>3. TaskShape(n)
    BY <1>1, <1>2, <2>1 DEF TaskState, TaskShape, Placed
  <2>4. SameForwarding(host, h) /\ h.body = host.body
    BY <1>1, <1>18, EffectsLeave, EffectsLeaveForwarding
  <2>5. Advance(s, n, h)
    BY <1>11 DEF StopDnsmasqStep
  <2> HIDE DEF n, h
  <2> QED
    BY <1>17, <2>2, <2>3, <2>4, <2>5, AdvanceMoves
<1>12. CASE CleanupStep(s)
  <2> DEFINE n == [t EXCEPT !.pc = "restore"]
             m == [t EXCEPT !.pc = "restore", !.fw = "unloaded"]
             h == Cleanup(host)
  <2>1. t.pc = "cleanup" /\ t.op = "stop"
    BY <1>2, <1>12, PcTells DEF CleanupStep
  <2>2. /\ n \in TaskState /\ n.op = t.op /\ n.fwd = t.fwd
        /\ m \in TaskState /\ m.op = t.op /\ m.fwd = t.fwd
    BY <1>1 DEF TaskState, Writes, FirewallManager
  <2>3. TaskShape(n) /\ TaskShape(m)
    BY <1>1, <1>2, <2>1 DEF TaskState, TaskShape, Placed
  <2>4. SameForwarding(host, h)
    BY <1>1, EffectsLeaveForwarding
  <2>5. Advance(s, m, h) \/ Advance(s, n, h)
    BY <1>12 DEF CleanupStep
  <2> HIDE DEF n, m, h
  <2> QED
    BY <1>17, <2>1, <2>2, <2>3, <2>4, <2>5, AdvanceMoves
<1>13. CASE RestoreStep(s)
  <2> DEFINE n == [t EXCEPT !.fwd = "unset"]
             h == RestoreForwarding(host, t.fwd)
  <2>1. t.pc = "restore" /\ t.op = "stop"
    BY <1>2, <1>13, PcTells DEF RestoreStep
  <2>2. n \in TaskState /\ n.op = t.op /\ n.fwd = "unset"
    BY <1>1 DEF TaskState, SavedForwarding
  <2>3. TaskShape([n EXCEPT !.pc = "sent"])
    BY <1>1, <1>2, <2>1 DEF TaskState, TaskShape, Placed
  <2>4. /\ ForwardingIsBack(h) /\ h.body = host.body
        /\ Lost(host) => Lost(h)
    BY <1>1, <1>2, <2>1, RestoreEffect
  <2>5. Answer(s, n, h)
    BY <1>13 DEF RestoreStep
  <2>6. MayLeave(n, h)
    BY <2>1, <2>2, <2>4 DEF MayLeave, Knows
  <2> HIDE DEF n, h
  <2> QED
    BY <2>1, <2>2, <2>3, <2>4, <2>5, <2>6, AnswerMoves
<1>14. CASE ProbeStep(s)
  <2> DEFINE seen == [t EXCEPT !.route = route]
             bad == [seen EXCEPT !.ok = FALSE]
             good == [seen EXCEPT !.ok = TRUE]
             heal == [seen EXCEPT !.pc = "body"]
  <2>1. t.pc = "probe" /\ t.op = "health"
    BY <1>2, <1>14, PcTells DEF ProbeStep
  <2>2. /\ bad \in TaskState /\ bad.op = t.op /\ bad.fwd = t.fwd
        /\ good \in TaskState /\ good.op = t.op /\ good.fwd = t.fwd
        /\ heal \in TaskState /\ heal.op = t.op /\ heal.fwd = t.fwd
    BY <1>1 DEF TaskState, Writes, TypeOK
  <2>3. /\ TaskShape([bad EXCEPT !.pc = "sent"])
        /\ TaskShape([good EXCEPT !.pc = "sent"])
        /\ TaskShape(heal)
    BY <1>1, <1>2, <2>1 DEF TaskState, TaskShape, Placed
  <2>4. Answer(s, bad, host) \/ Answer(s, good, host) \/ Advance(s, heal, host)
    BY <1>14 DEF ProbeStep
  <2> HIDE DEF bad, good, heal
  <2> QED
    BY <1>17, <1>18, <2>2, <2>3, <2>4, AdvanceMoves, AnswerMoves
<1>15. CASE TimeoutStep(s)
  <2> DEFINE n == TimedOut(t)
  <2>1. /\ t.op \in {"start", "stop", "upstream", "firewall", "health"}
        /\ t.pc # "sent"
    BY <1>15 DEF TimeoutStep, TimeLimited
  <2>2. n \in TaskState /\ n.op = t.op /\ n.fwd = t.fwd
    BY <1>1 DEF TaskState, TimedOut
  <2>3. TaskShape([n EXCEPT !.pc = "sent"])
    BY <1>1, <1>2, <2>1 DEF TaskState, TimedOut, TaskShape, Placed
  <2>4. Answer(s, n, host)
    BY <1>15 DEF TimeoutStep
  <2> HIDE DEF n
  <2> QED
    BY <1>17, <1>18, <2>2, <2>3, <2>4, AdvanceMoves, AnswerMoves
<1>16. ~LingerStep(s)
    BY NotSpent DEF LingerStep, Disturbances
<1> QED
    BY <1>4, <1>5, <1>6, <1>7, <1>8, <1>9, <1>10, <1>11, <1>12, <1>13, <1>14,
       <1>15, <1>16 DEF TaskStep

-----------------------------------------------------------------------------
(* A probe that heals nothing.                                             *)

(* It only looks, and answers. *)
LEMMA ProbeLooks ==
    ASSUME TypeOK, SoloInv, ProbesOnly, ~Spend("heal"),
           NEW s \in Slots, TaskStep(s), task[s].op = "health"
    PROVE  /\ host' = host
           /\ \/ task'[s].op = "health" /\ task'[s].pc = "sent"
              \/ task'[s].op = "none"
           /\ ~task'[s].nat /\ ~task[s].server
<1> DEFINE t == task[s]
           seen == [t EXCEPT !.route = route]
           bad == [seen EXCEPT !.ok = FALSE]
           good == [seen EXCEPT !.ok = TRUE]
           late == TimedOut(t)
<1>1. /\ t \in TaskState /\ TaskShape(t) /\ t.pc \in {"probe", "sent"}
      /\ route \in Utuns \cup {None}
    BY DEF TypeOK, SoloInv, ProbesOnly
<1>2. ~LingerStep(s)
    BY NotSpent DEF LingerStep, SoloInv, Disturbances
<1>3. /\ t.pc # "sent"
      /\ \/ Answer(s, bad, host) \/ Answer(s, good, host)
         \/ Answer(s, late, host)
    BY <1>1, <1>2 DEF TaskStep, EnableForwardingStep, DetectStep,
       LoadBodyStep, MergeMainStep, ServeStep, WorkStep, DhcpStep,
       StopDnsmasqStep, CleanupStep, RestoreStep, ProbeStep, TimeoutStep
<1>4. PICK n \in TaskState : /\ Answer(s, n, host) /\ n.op = "health"
                             /\ n.fw = t.fw /\ n.nat = t.nat
  <2>1. \A n \in {bad, good, late} :
          /\ n \in TaskState /\ n.op = "health" /\ n.fw = t.fw
          /\ n.nat = t.nat
    BY <1>1 DEF TaskState, TimedOut
  <2> HIDE DEF bad, good, late
  <2> QED
    BY <1>3, <2>1
<1> DEFINE sent == [n EXCEPT !.pc = "sent"]
<1>5. sent.op = "health" /\ sent.pc = "sent" /\ sent.nat = t.nat
    BY <1>4 DEF TaskState
<1>6. n.fw # "loaded" /\ ~t.server /\ ~t.nat
    BY <1>1, <1>3, <1>4 DEF TaskShape
<1>7. host' = host /\ (Launch(s, sent) \/ Launch(s, Idle))
    BY <1>4, <1>6 DEF Answer, Release, DropFirewall
<1>8. Idle.op = "none" /\ ~Idle.nat
    BY DEF Idle
<1> HIDE DEF sent
<1> QED
    BY <1>5, <1>6, <1>7, <1>8, Filled

(* A task that can take a step is somewhere, and has not answered. *)
LEMMA StepUnanswered ==
    ASSUME TypeOK, SoloInv, NEW s \in Slots, TaskStep(s)
    PROVE  task[s].pc \notin {"idle", "sent"} /\ task[s].op # "none"
<1>1. TaskShape(task[s]) /\ ~LingerStep(s)
    BY NotSpent DEF SoloInv, LingerStep, Disturbances
<1>2. task[s].pc \notin {"idle", "sent"}
    BY <1>1, PcTells DEF TaskStep, EnableForwardingStep, DetectStep,
       LoadBodyStep, MergeMainStep, ServeStep, WorkStep, DhcpStep,
       StopDnsmasqStep, CleanupStep, RestoreStep, ProbeStep, TimeoutStep,
       TimeLimited, TaskShape, Placed
<1> QED
    BY <1>1, <1>2 DEF TaskShape, Placed

-----------------------------------------------------------------------------
(* SoloInv is kept by every step.                                          *)

\* Nothing is working but what the App waits for; in one slot or in none.
Alone(s) == pending = "none" \/ Working(task[s])

(* A task of the operation that is now pending takes the slot of the last *)
(* one, or nothing does and nothing is pending any more.                  *)
LEMMA WorkerLaunched ==
    ASSUME TypeOK, SoloInv, NEW s \in Slots, NEW t, Launch(s, t), TaskShape(t),
           Alone(s),
           Working(t) => pending' # "none" /\ t.op = OpOf(pending'),
           t.op \in {"start", "stop"} => Knows(t.fwd, host')
    PROVE  /\ (\A r \in Slots : TaskShape(task[r]) /\ Remembers(task[r]))'
           /\ OneWorker'
<1>1. /\ task'[s] = t
      /\ \A r \in Slots : r # s => task'[r] = task[r] /\ ~Working(task[r])
    BY Filled DEF SoloInv, OneWorker, Alone
<1>2. \A r \in Slots : TaskShape(task'[r]) /\ Remembers(task[r])'
    BY <1>1 DEF SoloInv, Remembers, Working
<1>3. OneWorker'
    BY <1>1 DEF OneWorker, OpOf, Working
<1> QED
    BY <1>2, <1>3

(* A probe comes or goes beside whatever is working. *)
LEMMA BystanderLaunched ==
    ASSUME TypeOK, SoloInv, NEW s \in Slots, NEW t, Launch(s, t), TaskShape(t),
           ~Working(t), ~Working(task[s]), pending' = pending,
           Still(host, host')
    PROVE  /\ (\A r \in Slots : TaskShape(task[r]) /\ Remembers(task[r]))'
           /\ OneWorker'
<1>1. /\ task'[s] = t
      /\ \A r \in Slots : r # s => task'[r] = task[r]
    BY Filled
<1>2. \A r \in Slots : TaskShape(task'[r]) /\ Remembers(task[r])'
    BY <1>1, StillKnown DEF SoloInv, Remembers, Working
<1>3. OneWorker'
    BY <1>1 DEF SoloInv, OneWorker, OpOf, Working
<1> QED
    BY <1>2, <1>3

(* A task, wherever it is, keeps to its operation and to its managers. *)
LEMMA TaskStepKeepsSolo ==
    ASSUME TypeOK, PendingInv, SoloInv, NEW s \in Slots, TaskStep(s)
    PROVE  TaskMove(s) /\ SoloInv'
<1>1. MayMove(s)
    BY DEF SoloInv, PendingInv, OneWorker, Working, MayMove
<1>2. TaskMove(s)
    BY <1>1, TaskStepMoves DEF SoloInv
<1>3. /\ UNCHANGED <<phase, pending, screen, session>>
      /\ Exhausted(Disturbances)'
  <2>1. [Next]_vars /\ Disturbances \subseteq Events
    BY DEF Next, Disturbances, Events
  <2> QED
    BY <2>1, ExhaustedStays DEF TaskStep, appVars, SoloInv
<1>4. task[s].op \in {"start", "stop"}
        => session.alive /\ session.fwd = "taken" /\ Working(task[s])
  <2> SUFFICES ASSUME task[s].op \in {"start", "stop"}
               PROVE  session.alive /\ session.fwd = "taken" /\ Working(task[s])
    OBVIOUS
  <2>1. Working(task[s]) /\ pending \in PendingOps /\ task[s].op = OpOf(pending)
    BY DEF SoloInv, OneWorker, Working, TypeOK
  <2>2. pending \in {"StartingSharing", "StoppingSharing"}
    BY <2>1 DEF OpOf, PendingOps, StartChain
  <2> QED
    BY <2>1, <2>2 DEF PendingInv, PendingHasTask, SoloInv, Custody
<1>5. \A r \in Slots : TaskShape(task'[r]) /\ Remembers(task[r])'
  <2> SUFFICES ASSUME NEW r \in Slots, r # s
               PROVE  TaskShape(task'[r]) /\ Remembers(task[r])'
    BY <1>2 DEF TaskMove
  <2>1. task'[r] = task[r] /\ TaskShape(task[r]) /\ Remembers(task[r])
    BY <1>2 DEF TaskMove, SoloInv
  <2>2. CASE Still(host, host')
    BY <2>1, <2>2, StillKnown DEF Remembers
  <2>3. CASE task[s].op \in {"start", "stop"}
    BY <1>4, <2>1, <2>3 DEF SoloInv, OneWorker, Remembers, Working
  <2> QED
    BY <1>2, <2>2, <2>3 DEF TaskMove
<1>6. OneWorker'
    BY <1>2, <1>3 DEF TaskMove, SoloInv, OneWorker, Working, OpOf
<1>7. Custody' /\ SessionRemembers'
  <2>1. Custody'
    BY <1>2, <1>3 DEF SoloInv, Custody, StartChain
  <2>2. CASE Still(host, host')
    <3>1. SessionRemembers /\ session' = session
      BY <1>3 DEF SoloInv
    <3> QED
      BY <2>1, <2>2, <3>1, StillKnown DEF SessionRemembers, Still
  <2>3. CASE task[s].op \in {"start", "stop"}
    BY <1>3, <1>4, <2>1, <2>3 DEF SessionRemembers
  <2> QED
    BY <1>2, <2>1, <2>2, <2>3 DEF TaskMove
<1> QED
    BY <1>2, <1>3, <1>5, <1>6, <1>7 DEF SoloInv

(* What a session has in its hands when nothing is pending. *)
LEMMA SessionAtRest ==
    ASSUME TypeOK, SoloInv, session.alive, pending = "none"
    PROVE  /\ session.fw \in FirewallManager
           /\ session.fwd \in SavedForwarding /\ Knows(session.fwd, host)
           /\ TakenFw(session) = session.fw
           /\ TakenFwd(session) = session.fwd
           /\ \A s \in Slots : Alone(s) /\ ~Working(task[s])
<1>1. /\ session.fw \in FirewallManager /\ session.fwd \in SavedForwarding
      /\ session.fw # "taken" /\ session.fwd # "taken"
    BY DEF TypeOK, SessionState, SoloInv, Custody
<1>2. Knows(session.fwd, host)
    BY <1>1 DEF SoloInv, SessionRemembers
<1>3. \A s \in Slots : Alone(s) /\ ~Working(task[s])
    BY DEF SoloInv, OneWorker, Alone
<1> QED
    BY <1>1, <1>2, <1>3 DEF TakenFw, TakenFwd

(* The end of a session that has its managers restores IP forwarding. *)
LEMMA DropRestores ==
    ASSUME NEW h \in HostState, NEW sess \in SessionState,
           IF sess.alive THEN sess.fwd # "taken" /\ Knows(sess.fwd, h)
                         ELSE ForwardingIsBack(h)
    PROVE  ForwardingIsBack(DropSession(h, sess))
<1> DEFINE nat == IF sess.nat THEN SignalNatPmp(h, sess.server) ELSE h
           dhcp == IF sess.dhcp THEN StopDnsmasq(nat) ELSE nat
           pf == IF sess.fw = "taken" THEN dhcp ELSE Cleanup(dhcp)
<1>0. sess.server \in BOOLEAN
    BY DEF SessionState
<1>1. nat \in HostState /\ SameForwarding(h, nat)
    BY <1>0, EffectsLeaveForwarding DEF HostState, SignalNatPmp
<1>2. dhcp \in HostState /\ SameForwarding(nat, dhcp)
  <2> HIDE DEF nat
  <2>1. StopDnsmasq(nat) \in HostState
    BY <1>1 DEF HostState, StopDnsmasq, Undoable
  <2> QED
    BY <1>1, <2>1, EffectsLeaveForwarding
<1>3. pf \in HostState /\ SameForwarding(dhcp, pf)
  <2> HIDE DEF dhcp
  <2>1. Cleanup(dhcp) \in HostState
    BY <1>2, HostTypes DEF SavedForwarding, FirewallManager
  <2> QED
    BY <1>2, <2>1, EffectsLeaveForwarding
<1>4. DropSession(h, sess) = IF ~sess.alive THEN h
                             ELSE IF sess.fwd = "taken" THEN pf
                             ELSE RestoreForwarding(pf, sess.fwd)
    BY DEF DropSession
<1> HIDE DEF nat, dhcp, pf
<1>5. sess.alive => Knows(sess.fwd, pf)
    BY <1>1, <1>2, <1>3, SameIsStill
<1> QED
    BY <1>3, <1>4, <1>5, RestoreEffect

(* The program that leaves with nothing pending has restored it. *)
LEMMA ExitKeepsSolo ==
    ASSUME TypeOK, PendingInv, SoloInv, Exhausted(Disturbances)', BeginExit,
           pending = "none"
    PROVE  SoloInv'
<1> DEFINE torn == DropSession(host, session)
<1>1. ForwardingIsBack(torn) /\ torn \in HostState
  <2>1. session.fwd \in SavedForwarding => session.fwd # "taken"
    BY DEF SavedForwarding
  <2>2. IF session.alive THEN session.fwd # "taken" /\ Knows(session.fwd, host)
                         ELSE ForwardingIsBack(host)
    BY <2>1, SessionAtRest DEF SoloInv, SessionRemembers
  <2> QED
    BY <2>2, DropRestores, DropSessionType DEF TypeOK
<1>2. host' \in {torn, Cleanup(torn)}
    BY DEF BeginExit
<1> HIDE DEF torn
<1>3. ForwardingIsBack(host')
    BY <1>1, <1>2, EffectsLeaveForwarding, SameIsStill DEF Still
<1>4. \A r \in Slots : /\ task'[r] \in {task[r], Idle}
                       /\ ~Working(task[r]) /\ ~Working(Idle)
    BY DEF BeginExit, TypeOK, SoloInv, OneWorker, Working, Idle
<1>5. \A r \in Slots : TaskShape(task'[r]) /\ Remembers(task[r])'
    BY <1>4, IdleShape DEF SoloInv, Remembers, Working
<1>6. OneWorker' /\ Custody' /\ SessionRemembers'
    BY <1>3, <1>4 DEF BeginExit, OneWorker, Custody, SessionRemembers,
       NoSession
<1> QED
    BY <1>5, <1>6 DEF SoloInv

(* A stop takes everything out of a session at rest. *)
LEMMA BeginStopKeepsSolo ==
    ASSUME TypeOK, SoloInv, Exhausted(Disturbances)', NEW s \in Slots,
           NEW sess \in SessionState, BeginStop(s, sess),
           session.alive, pending = "none", phase = "running",
           phase' = phase, screen' = screen,
           sess.alive, sess.fw = session.fw, sess.fwd = session.fwd,
           sess.upstream = session.upstream
    PROVE  SoloInv'
<1>1. /\ sess.alive /\ sess.fw = session.fw /\ sess.fwd = session.fwd
      /\ sess.upstream = session.upstream
    OBVIOUS
<1> DEFINE t == [Idle EXCEPT !.op = "stop", !.pc = "dnsmasq",
                             !.dhcp = sess.dhcp, !.fw = TakenFw(sess),
                             !.fwd = TakenFwd(sess)]
<1>2. TakenFw(sess) = session.fw /\ TakenFwd(sess) = session.fwd
    BY <1>1, SessionAtRest DEF TakenFw, TakenFwd
<1>3. /\ t.op = "stop" /\ t.pc = "dnsmasq" /\ t.fw = session.fw
      /\ t.fwd = session.fwd /\ ~t.nat /\ ~t.server /\ ~t.ok
    BY <1>2 DEF Idle
<1>4. Launch(s, t) /\ pending' = "StoppingSharing"
    BY DEF BeginStop
<1> HIDE DEF t
<1>5. TaskShape(t)
    BY <1>3, SessionAtRest DEF TaskShape, Placed
<1>6. SameForwarding(host, host')
    BY EffectsLeaveForwarding DEF BeginStop, TypeOK
<1>7. Alone(s) /\ Knows(t.fwd, host')
    BY <1>3, <1>6, SessionAtRest, SameIsStill
<1>8. /\ (\A r \in Slots : TaskShape(task[r]) /\ Remembers(task[r]))'
      /\ OneWorker'
    BY <1>3, <1>4, <1>5, <1>7, WorkerLaunched DEF OpOf
<1>9. /\ session'.alive /\ session'.fw = "taken" /\ session'.fwd = "taken"
      /\ session'.upstream = session.upstream
    BY <1>1 DEF BeginStop, SessionState
<1>10. Custody' /\ SessionRemembers'
    BY <1>4, <1>9 DEF Custody, SessionRemembers, SoloInv, StartChain
<1> QED
    BY <1>8, <1>10 DEF SoloInv

(* A reload takes the firewall and leaves an empty one. *)
LEMMA BeginReloadKeepsSolo ==
    ASSUME TypeOK, SoloInv, Exhausted(Disturbances)', NEW s \in Slots,
           NEW sess \in SessionState,
           \/ /\ host' = host
              /\ \E on \in BOOLEAN : BeginReloadFirewall(s, sess, on)
           \/ /\ sess = session
              /\ \E new \in Utuns : BeginReloadUpstream(s, new),
           session.alive, phase = "running", phase' = phase, screen' = screen,
           pending \in {"none", "DetectingWan"}, Alone(s),
           sess.alive, sess.fw = session.fw, sess.fwd = session.fwd,
           sess.upstream = session.upstream
    PROVE  SoloInv'
<1>1. /\ sess.alive /\ sess.fw = session.fw /\ sess.fwd = session.fwd
      /\ sess.upstream = session.upstream
    OBVIOUS
<1>2. /\ session.fw \in FirewallManager /\ session.fw # "taken"
      /\ session.fwd \in SavedForwarding /\ session.fwd # "taken"
      /\ Knows(session.fwd, host)
      /\ session.upstream \in Utuns /\ Alone(s)
      /\ screen # "SelectingLan"
    BY DEF TypeOK, SessionState, SoloInv, Custody, SessionRemembers, Alone,
       StartChain
<1>3. TakenFw(sess) = session.fw /\ TakenFwd(sess) = session.fwd
    BY <1>1, <1>2 DEF TakenFw, TakenFwd
<1>4. PICK t : /\ Launch(s, t) /\ TaskShape(t)
               /\ t.op \in {"upstream", "firewall"}
               /\ pending' \in {"ReloadingUpstream", "ReloadingFirewall"}
               /\ t.op = OpOf(pending')
  <2>1. ASSUME NEW on \in BOOLEAN, BeginReloadFirewall(s, sess, on)
        PROVE  \E t : /\ Launch(s, t) /\ TaskShape(t)
                      /\ t.op \in {"upstream", "firewall"}
                      /\ pending' \in {"ReloadingUpstream", "ReloadingFirewall"}
                      /\ t.op = OpOf(pending')
    <3> DEFINE t == [Idle EXCEPT !.op = "firewall", !.pc = "body",
                                 !.fw = TakenFw(sess), !.vpn = sess.upstream,
                                 !.bypass = on, !.on = on]
    <3>1. /\ t.op = "firewall" /\ t.pc = "body" /\ t.fwd = "unset"
          /\ t.vpn = session.upstream /\ ~t.nat /\ ~t.server /\ ~t.ok
      BY <1>1 DEF Idle
    <3>2. Launch(s, t) /\ pending' = "ReloadingFirewall"
      BY <2>1 DEF BeginReloadFirewall
    <3> HIDE DEF t
    <3>3. TaskShape(t)
      BY <1>2, <3>1 DEF TaskShape, Placed
    <3> QED
      BY <3>1, <3>2, <3>3 DEF OpOf
  <2>2. ASSUME NEW new \in Utuns, BeginReloadUpstream(s, new)
        PROVE  \E t : /\ Launch(s, t) /\ TaskShape(t)
                      /\ t.op \in {"upstream", "firewall"}
                      /\ pending' \in {"ReloadingUpstream", "ReloadingFirewall"}
                      /\ t.op = OpOf(pending')
    <3> DEFINE t == [Idle EXCEPT !.op = "upstream", !.pc = "detect",
                                 !.fw = TakenFw(session), !.vpn = new,
                                 !.bypass = session.wan, !.nat = session.nat]
    <3>1. /\ t.op = "upstream" /\ t.pc = "detect" /\ t.fwd = "unset"
          /\ t.vpn = new /\ ~t.server /\ ~t.ok
      BY DEF Idle
    <3>2. Launch(s, t) /\ pending' = "ReloadingUpstream"
      BY <2>2 DEF BeginReloadUpstream
    <3> HIDE DEF t
    <3>3. TaskShape(t)
      BY <3>1 DEF TaskShape, Placed
    <3> QED
      BY <3>1, <3>2, <3>3 DEF OpOf
  <2> QED
    BY <2>1, <2>2
<1>5. Knows(session.fwd, host')
  <2>1. SameForwarding(host, host')
    BY EffectsLeaveForwarding DEF BeginReloadUpstream, TypeOK
  <2> QED
    BY <1>2, <2>1, SameIsStill
<1>6. /\ (\A r \in Slots : TaskShape(task[r]) /\ Remembers(task[r]))'
      /\ OneWorker'
    BY <1>2, <1>4, WorkerLaunched
<1>7. /\ session'.alive /\ session'.fw = "unloaded"
      /\ session'.fwd = session.fwd /\ session'.upstream = session.upstream
  <2> DEFINE kept == WithPlaceholder(sess)
  <2>1. /\ kept.alive /\ kept.fw = "unloaded" /\ kept.fwd = session.fwd
        /\ kept.upstream = session.upstream /\ kept \in SessionState
    BY <1>1, <1>2, <1>3
       DEF WithPlaceholder, SessionState, FirewallManager, SavedForwarding
  <2>2. \/ session' = kept
        \/ session' = [kept EXCEPT !.server = IF session.nat THEN FALSE ELSE @]
    BY DEF BeginReloadFirewall, BeginReloadUpstream
  <2> HIDE DEF kept
  <2> QED
    BY <2>1, <2>2 DEF SessionState
<1>8. Custody' /\ SessionRemembers'
    BY <1>2, <1>4, <1>5, <1>7 DEF Custody, SessionRemembers
<1> QED
    BY <1>6, <1>8 DEF SoloInv

(* What changes neither tasks, nor the session, nor IP forwarding. *)
LEMMA IdleStepKeepsSolo ==
    ASSUME SoloInv, Exhausted(Disturbances)',
           UNCHANGED <<phase, pending, session, task>>,
           Still(host, host'),
           screen' = "SelectingLan" /\ session.alive => screen = "SelectingLan"
    PROVE  SoloInv'
<1>1. OneWorker' /\ Custody' /\ SessionRemembers'
    BY StillKnown DEF SoloInv, OneWorker, Custody, SessionRemembers, Still
<1>2. \A r \in Slots : Remembers(task[r])'
    BY StillKnown DEF SoloInv, Remembers
<1> QED
    BY <1>1, <1>2 DEF SoloInv

(* A machine that is left as it is is still so. *)
LEMMA UntouchedStill == host' = host => Still(host, host')
BY DEF Still

(* A start makes a new session, whose managers its task carries. *)
LEMMA StartKeepsSolo ==
    ASSUME TypeOK, PendingInv, SoloInv, Exhausted(Disturbances)',
           NEW s \in Slots, NEW vpn \in up, StartSharing(s, vpn)
    PROVE  SoloInv'
<1> DEFINE t == [Idle EXCEPT !.op = "start", !.pc = "enable", !.vpn = vpn,
                             !.bypass = allowOn]
<1>1. /\ t.op = "start" /\ t.pc = "enable" /\ t.vpn = vpn /\ t.fwd = "unset"
      /\ t.fw = "unloaded" /\ ~t.nat /\ ~t.server /\ ~t.ok
    BY DEF Idle
<1>2. /\ Launch(s, t) /\ pending = "none" /\ pending' = "StartingSharing"
      /\ phase = "running" /\ phase' = phase /\ vpn \in Utuns
    BY DEF StartSharing, KeyReady, TypeOK
<1> HIDE DEF t
<1>3. TaskShape(t)
    BY <1>1, <1>2 DEF TaskShape, Placed
<1>4. Knows("unset", host')
  <2>1. IF session.alive THEN session.fwd # "taken" /\ Knows(session.fwd, host)
                         ELSE ForwardingIsBack(host)
    BY <1>2, SessionAtRest DEF SoloInv, SessionRemembers, SavedForwarding
  <2>2. ForwardingIsBack(host')
    BY <2>1, DropRestores DEF StartSharing, TypeOK
  <2> QED
    BY <2>2 DEF Knows
<1>5. /\ (\A r \in Slots : TaskShape(task[r]) /\ Remembers(task[r]))'
      /\ OneWorker'
    BY <1>1, <1>2, <1>3, <1>4, WorkerLaunched DEF OpOf, Alone
<1>6. /\ session'.alive /\ session'.fw = "taken" /\ session'.fwd = "taken"
      /\ session'.upstream = vpn
    BY DEF StartSharing, NoSession
<1>7. Custody' /\ SessionRemembers'
    BY <1>2, <1>4, <1>6 DEF Custody, SessionRemembers, StartChain
<1> QED
    BY <1>5, <1>7 DEF SoloInv

(* A detection of the WAN uplink that is launched carries nothing. *)
LEMMA WorkShape ==
    ASSUME NEW op \in {"resolver", "dhcp", "natpmp", "wan"}
    PROVE  LET t == [Idle EXCEPT !.op = op, !.pc = "work"]
           IN  /\ TaskShape(t) /\ t.op = op /\ t.pc = "work" /\ ~t.ok
               /\ ~t.server
<1> DEFINE t == [Idle EXCEPT !.op = op, !.pc = "work"]
<1>1. /\ t.op = op /\ t.pc = "work" /\ t.fwd = "unset" /\ t.fw = "unloaded"
      /\ ~t.nat /\ ~t.server /\ ~t.ok
    BY DEF Idle
<1> HIDE DEF t
<1>2. TaskShape(t)
    BY <1>1 DEF TaskShape, Placed
<1> QED
    BY <1>1, <1>2 DEF t

(* The switch of the WAN bypass: at once, by a reload, or after a detection. *)
LEMMA ToggleKeepsSolo ==
    ASSUME TypeOK, SoloInv, Exhausted(Disturbances)', NEW s \in Slots,
           ToggleBypass(s)
    PROVE  SoloInv'
<1>1. /\ pending = "none" /\ phase = "running" /\ phase' = phase
      /\ screen' = screen /\ host' = host /\ screen # "SelectingLan"
      /\ session \in SessionState
    BY DEF ToggleBypass, KeyReady, TypeOK
<1>2. CASE UNCHANGED <<pending, session, task>>
    BY <1>1, <1>2, UntouchedStill, IdleStepKeepsSolo
<1>3. CASE session.alive /\ \E on \in BOOLEAN :
             BeginReloadFirewall(s, session, on)
  <2>1. Alone(s)
    BY <1>1 DEF Alone
  <2> QED
    BY <1>1, <1>3, <2>1, BeginReloadKeepsSolo
<1>4. CASE /\ session.alive /\ pending' = "DetectingWan" /\ session' = session
           /\ Launch(s, [Idle EXCEPT !.op = "wan", !.pc = "work"])
  <2> DEFINE t == [Idle EXCEPT !.op = "wan", !.pc = "work"]
  <2>1. TaskShape(t) /\ t.op = "wan" /\ Launch(s, t)
    BY <1>4, WorkShape
  <2> HIDE DEF t
  <2>2. /\ (\A r \in Slots : TaskShape(task[r]) /\ Remembers(task[r]))'
        /\ OneWorker'
    BY <1>1, <1>4, <2>1, WorkerLaunched DEF OpOf, Alone
  <2>3. Custody' /\ SessionRemembers'
    BY <1>1, <1>4 DEF SoloInv, Custody, SessionRemembers
  <2> QED
    BY <2>2, <2>3 DEF SoloInv
<1> QED
    BY <1>2, <1>3, <1>4 DEF ToggleBypass

(* Every key; a key that cancels is not pressed. *)
LEMMA UserStepKeepsSolo ==
    ASSUME TypeOK, PendingInv, SoloInv, Exhausted(Disturbances)', UserStep
    PROVE  SoloInv'
<1>1. session \in SessionState /\ Free \subseteq Slots
    BY DEF TypeOK, Free
<1>2. CASE OpenPicker \/ Navigate
    BY <1>2, UntouchedStill, IdleStepKeepsSolo DEF OpenPicker, Navigate
<1>3. CASE KeyAfterQuit
    BY <1>3, ExitKeepsSolo DEF KeyAfterQuit, KeyReady
<1>4. ~Cancel /\ ~Interrupt
    BY NotSpent DEF SoloInv, Cancel, Interrupt, Disturbances
<1>5. ASSUME NEW s \in Slots, StopSharing(s) PROVE SoloInv'
    BY <1>1, <1>5, BeginStopKeepsSolo DEF StopSharing, KeyReady
<1>6. ASSUME NEW s \in Slots, Quit(s) PROVE SoloInv'
  <2>1. CASE pending # "none"
    BY <1>6, <2>1, UntouchedStill, IdleStepKeepsSolo DEF Quit
  <2>2. CASE pending = "none" /\ session.alive
    BY <1>1, <1>6, <2>2, BeginStopKeepsSolo DEF Quit
  <2>3. CASE pending = "none" /\ ~session.alive
    BY <1>6, <2>3, ExitKeepsSolo DEF Quit
  <2> QED
    BY <2>1, <2>2, <2>3
<1> QED
    BY <1>1, <1>2, <1>3, <1>4, <1>5, <1>6, StartKeepsSolo, ToggleKeepsSolo
       DEF UserStep

(* A probe that is launched, and the moves of the machine. *)
LEMMA OtherStepKeepsSolo ==
    ASSUME TypeOK, PendingInv, SoloInv, Exhausted(Disturbances)',
           \/ \E s \in Slots : SpawnHealthCheck(s)
           \/ EnvironmentStep \/ RuntimeDrop
    PROVE  SoloInv'
<1>1. ASSUME NEW s \in Slots, SpawnHealthCheck(s) PROVE SoloInv'
  <2> DEFINE t == [Idle EXCEPT !.op = "health", !.pc = "probe",
                               !.vpn = session.upstream,
                               !.bypass = session.wan,
                               !.on = allowOn /\ session.wan]
  <2>1. /\ t.op = "health" /\ t.pc = "probe" /\ t.vpn = session.upstream
        /\ t.fwd = "unset" /\ t.fw = "unloaded" /\ ~t.nat /\ ~t.server /\ ~t.ok
    BY DEF Idle
  <2>2. /\ Launch(s, t) /\ pending = "none" /\ session.alive
        /\ UNCHANGED <<appVars, host>>
    BY <1>1 DEF SpawnHealthCheck, KeyReady
  <2> HIDE DEF t
  <2>3. TaskShape(t) /\ ~Working(t) /\ ~Working(task[s])
    BY <2>1, <2>2, SessionAtRest DEF TaskShape, Placed, SoloInv, Custody,
       Working
  <2>4. /\ (\A r \in Slots : TaskShape(task[r]) /\ Remembers(task[r]))'
        /\ OneWorker'
    BY <2>2, <2>3, UntouchedStill, BystanderLaunched DEF appVars
  <2>5. Custody' /\ SessionRemembers'
    BY <2>2 DEF SoloInv, Custody, SessionRemembers, appVars
  <2> QED
    BY <2>4, <2>5 DEF SoloInv
<1>2. CASE EnvironmentStep
  <2>1. SameForwarding(host, host')
    BY <1>2 DEF EnvironmentStep, NatPmpExit, DropVpn, FlushMain, SwapVpn,
       Deny, Relent, TypeOK, HostState, SameForwarding, Lost
  <2>2. UNCHANGED <<phase, pending, screen, session, task>>
    BY <1>2 DEF EnvironmentStep, NatPmpExit, DropVpn, FlushMain, SwapVpn,
       Deny, Relent, appVars
  <2> QED
    BY <2>1, <2>2, SameIsStill, IdleStepKeepsSolo
<1>3. CASE RuntimeDrop
  <2>1. /\ phase' # "running" /\ ~session.alive
        /\ \A s \in Slots : ~Working(task[s]) /\ task[s].fw # "loaded"
    BY <1>3 DEF RuntimeDrop, SoloInv, Custody, OneWorker, PendingInv,
       TaskShape, Working
  <2>2. ForwardingIsBack(host')
    <3>1. host' = [host EXCEPT !.natpmp = "off"] /\ host \in HostState
      BY <1>3, <2>1 DEF RuntimeDrop, TypeOK
    <3>2. SameForwarding(host, host')
      BY <3>1, EffectsLeaveForwarding
    <3> QED
      BY <2>1, <3>2, SameIsStill DEF SoloInv, SessionRemembers, Still
  <2>3. \A s \in Slots : task'[s] = Idle
    BY <1>3 DEF RuntimeDrop, SoloInv, TaskShape, Placed
  <2>4. ~Working(Idle)
    BY DEF Idle, Working
  <2>5. \A s \in Slots : TaskShape(task'[s]) /\ Remembers(task[s])'
    BY <2>3, <2>4, IdleShape DEF Remembers, Working
  <2>6. OneWorker' /\ Custody' /\ SessionRemembers'
    BY <1>3, <2>1, <2>2, <2>3, <2>4 DEF RuntimeDrop, OneWorker, Custody,
       SessionRemembers, SoloInv
  <2> QED
    BY <2>5, <2>6 DEF SoloInv
<1> QED
    BY <1>1, <1>2, <1>3

-----------------------------------------------------------------------------
(* The result handlers.                                                    *)

(* Who answers what is pending was alone; others were not working. *)
LEMMA AnswersPending ==
    ASSUME TypeOK, PendingInv, SoloInv, NEW s \in Slots
    PROVE  /\ Working(task[s]) => /\ pending \in PendingOps /\ session.alive
                                  /\ task[s].op = OpOf(pending) /\ Alone(s)
           /\ task[s].op = "start" => pending = "StartingSharing"
           /\ task[s].op = "stop" => pending = "StoppingSharing"
           /\ task[s].op = "resolver" => pending = "StartingResolver"
           /\ task[s].op = "dhcp" => pending = "StartingDhcp"
           /\ task[s].op = "natpmp" => pending = "StartingNatPmp"
           /\ task[s].op = "wan" => pending = "DetectingWan"
           /\ task[s].op = "upstream" => pending = "ReloadingUpstream"
           /\ task[s].op = "firewall" => pending = "ReloadingFirewall"
<1>1. Working(task[s]) => /\ pending \in PendingOps /\ session.alive
                          /\ task[s].op = OpOf(pending) /\ Alone(s)
    BY DEF SoloInv, OneWorker, Alone, TypeOK, PendingInv, PendingHasTask
<1> QED
    BY <1>1 DEF Working, OpOf, PendingOps, StartChain

(* When the worker ends and nothing is pending any more, the session that *)
(* is left has its managers, or there is none and forwarding is restored.  *)
LEMMA EndKeepsSolo ==
    ASSUME TypeOK, SoloInv, Exhausted(Disturbances)', NEW s \in Slots,
           Release(s), Working(task[s]), pending' = "none", phase' = phase,
           phase = "running",
           \/ session' = NoSession
           \/ /\ session'.alive /\ session'.fw # "taken"
              /\ session'.fwd # "taken"
              /\ session'.upstream \in Utuns
              /\ screen' # "SelectingLan",
           IF session'.alive THEN Knows(session'.fwd, host')
                             ELSE ForwardingIsBack(host')
    PROVE  SoloInv'
<1>1. Launch(s, Idle) /\ TaskShape(Idle) /\ ~Working(Idle)
    BY IdleShape DEF Release, Idle, Working
<1>2. /\ (\A r \in Slots : TaskShape(task[r]) /\ Remembers(task[r]))'
      /\ OneWorker'
    BY <1>1, WorkerLaunched DEF Alone, Working
<1>3. Custody' /\ SessionRemembers'
    BY DEF Custody, SessionRemembers, NoSession
<1> QED
    BY <1>2, <1>3 DEF SoloInv

(* The next link of the start chain, or its end. *)
LEMMA ChainKeepsSolo ==
    ASSUME TypeOK, SoloInv, Exhausted(Disturbances)', NEW s \in Slots,
           NEW wantDhcp, NEW wantNatPmp, Chain(s, wantDhcp, wantNatPmp),
           Working(task[s]), pending \in StartChain \ {"StartingSharing"},
           session.alive, phase' = phase, phase = "running",
           session'.alive, session'.fw = session.fw,
           session'.fwd = session.fwd, session'.upstream = session.upstream,
           host' = host
    PROVE  SoloInv'
<1>1. /\ session.fw # "taken" /\ session.fwd # "taken"
      /\ session.upstream \in Utuns /\ Knows(session.fwd, host)
    BY DEF SoloInv, Custody, SessionRemembers, StartChain
<1>2. ASSUME NEW op \in {"dhcp", "natpmp"},
             Launch(s, [Idle EXCEPT !.op = op, !.pc = "work"]),
             pending' \in StartChain \ {"StartingSharing"},
             OpOf(pending') = op, screen' = screen
      PROVE  SoloInv'
  <2> DEFINE t == [Idle EXCEPT !.op = op, !.pc = "work"]
  <2>1. TaskShape(t) /\ t.op = op /\ Launch(s, t)
    BY <1>2, WorkShape
  <2> HIDE DEF t
  <2>2. /\ (\A r \in Slots : TaskShape(task[r]) /\ Remembers(task[r]))'
        /\ OneWorker'
    BY <1>2, <2>1, WorkerLaunched DEF OpOf, Alone, StartChain
  <2>3. Custody' /\ SessionRemembers'
    BY <1>1, <1>2 DEF Custody, SessionRemembers, StartChain
  <2> QED
    BY <2>2, <2>3 DEF SoloInv
<1>3. CASE pending' = "none" /\ screen' = "Active" /\ Release(s)
    BY <1>1, <1>3, EndKeepsSolo
<1>4. CASE /\ pending' = "StartingDhcp" /\ screen' = screen
           /\ Launch(s, [Idle EXCEPT !.op = "dhcp", !.pc = "work"])
    BY <1>2, <1>4 DEF StartChain, OpOf
<1>5. CASE /\ pending' = "StartingNatPmp" /\ screen' = screen
           /\ Launch(s, [Idle EXCEPT !.op = "natpmp", !.pc = "work"])
    BY <1>2, <1>5 DEF StartChain, OpOf
<1> QED
    BY <1>3, <1>4, <1>5 DEF Chain

(* A session gets back from its task what the task carries. *)
LEMMA GiveBackFields ==
    ASSUME TypeOK, NEW t \in TaskState, session.alive
    PROVE  /\ GiveBack(t) \in SessionState
           /\ GiveBack(t).alive /\ GiveBack(t).fw = t.fw
           /\ GiveBack(t).fwd = t.fwd
           /\ GiveBack(t).upstream = session.upstream
           /\ GiveBack(t).dhcp = session.dhcp /\ GiveBack(t).nat = session.nat
           /\ GiveBack(t).server = session.server
           /\ GiveBack(t).dns = session.dns /\ GiveBack(t).wan = session.wan
           /\ session.fw # "loaded" => HostAfterGiveBack(t) = host
BY DEF TypeOK, GiveBack, SessionState, TaskState, HostAfterGiveBack,
   DropFirewall

(* The end of a start: the next link, or the session dropped. *)
LEMMA SharingStartedKeepsSolo ==
    ASSUME TypeOK, PendingInv, SoloInv, Exhausted(Disturbances)',
           NEW s \in Slots, OnSharingStarted(s)
    PROVE  SoloInv'
<1> DEFINE t == task[s]
<1>1. /\ t \in TaskState /\ t.op = "start" /\ pending = "StartingSharing"
      /\ session.alive /\ Working(t) /\ phase = "running" /\ phase' = phase
      /\ TaskShape(t) /\ Remembers(t) /\ Alone(s)
    BY AnswersPending DEF OnSharingStarted, Receive, TypeOK, Working, SoloInv
<1>2. session.fw = "taken"
    BY <1>1 DEF SoloInv, Custody
<1>3. HostAfterGiveBack(t) = host
    BY <1>1, <1>2, GiveBackFields
<1>4. /\ t.fwd # "taken" /\ t.vpn \in Utuns /\ t.fw # "taken"
      /\ Knows(t.fwd, host)
    BY <1>1
       DEF TaskShape, Remembers, TaskState, FirewallManager, SavedForwarding
<1>5. CASE /\ session' = [GiveBack(t) EXCEPT !.upstream = t.vpn,
                                             !.wan = t.bypass]
           /\ pending' = "StartingResolver" /\ host' = host /\ screen' = screen
           /\ Launch(s, [Idle EXCEPT !.op = "resolver", !.pc = "work"])
  <2> DEFINE n == [Idle EXCEPT !.op = "resolver", !.pc = "work"]
  <2>1. TaskShape(n) /\ n.op = "resolver" /\ Launch(s, n)
    BY <1>5, WorkShape
  <2> HIDE DEF n
  <2>2. /\ (\A r \in Slots : TaskShape(task[r]) /\ Remembers(task[r]))'
        /\ OneWorker'
    BY <1>1, <1>5, <2>1, WorkerLaunched DEF OpOf
  <2>3. /\ session'.alive /\ session'.fw = t.fw /\ session'.fwd = t.fwd
        /\ session'.upstream = t.vpn
    <3> DEFINE kept == GiveBack(t)
    <3>1. /\ kept \in SessionState /\ kept.alive /\ kept.fw = t.fw
          /\ kept.fwd = t.fwd
      BY <1>1, GiveBackFields
    <3>2. session' = [kept EXCEPT !.upstream = t.vpn, !.wan = t.bypass]
      BY <1>5
    <3> HIDE DEF kept
    <3> QED
      BY <3>1, <3>2 DEF SessionState
  <2>4. /\ pending' = "StartingResolver" /\ host' = host /\ phase' = "running"
        /\ screen' = screen
    BY <1>1, <1>5
  <2>5. Custody' /\ SessionRemembers'
    BY <1>4, <2>3, <2>4 DEF Custody, SessionRemembers, StartChain
  <2> QED
    BY <2>2, <2>5 DEF SoloInv
<1>6. CASE /\ pending' = "none" /\ session' = NoSession /\ Release(s)
           /\ host' = DropSession(host, GiveBack(t))
  <2>1. ForwardingIsBack(host')
    <3>1. /\ GiveBack(t) \in SessionState /\ GiveBack(t).alive
          /\ GiveBack(t).fwd = t.fwd /\ host \in HostState
      BY <1>1, GiveBackFields DEF TypeOK
    <3> QED
      BY <1>4, <1>6, <3>1, DropRestores
  <2> QED
    BY <1>1, <1>6, <2>1, EndKeepsSolo DEF NoSession
<1> QED
    BY <1>1, <1>3, <1>5, <1>6 DEF OnSharingStarted

(* The resolver bound: the next link.  It did not: the session is dropped. *)
LEMMA ResolverStartedKeepsSolo ==
    ASSUME TypeOK, PendingInv, SoloInv, Exhausted(Disturbances)',
           NEW s \in Slots, OnResolverStarted(s)
    PROVE  SoloInv'
<1>1. /\ task[s].op = "resolver" /\ pending = "StartingResolver"
      /\ session.alive /\ Working(task[s]) /\ phase = "running"
      /\ phase' = phase /\ session \in SessionState /\ host \in HostState
    BY AnswersPending DEF OnResolverStarted, Receive, Working, TypeOK
<1>2. session.fwd # "taken" /\ Knows(session.fwd, host)
    BY <1>1 DEF SoloInv, Custody, SessionRemembers
<1>3. CASE /\ session' = [session EXCEPT !.dns = session.alive]
           /\ host' = host
           /\ \E a, b : Chain(s, a, b)
  <2>1. /\ session'.alive /\ session'.fw = session.fw
        /\ session'.fwd = session.fwd /\ session'.upstream = session.upstream
    BY <1>1, <1>3 DEF SessionState
  <2>2. pending \in StartChain \ {"StartingSharing"}
    BY <1>1 DEF StartChain
  <2> QED
    BY <1>1, <1>3, <2>1, <2>2, ChainKeepsSolo
<1>4. CASE /\ pending' = "none" /\ session' = NoSession /\ Release(s)
           /\ host' = DropSession(host, session)
  <2>1. ForwardingIsBack(host')
    BY <1>1, <1>2, <1>4, DropRestores
  <2> QED
    BY <1>1, <1>4, <2>1, EndKeepsSolo DEF NoSession
<1> QED
    BY <1>3, <1>4 DEF OnResolverStarted

(* DHCP and NAT-PMP: whatever came of it, the chain goes on. *)
LEMMA ServersStartedKeepSolo ==
    ASSUME TypeOK, PendingInv, SoloInv, Exhausted(Disturbances)',
           NEW s \in Slots, OnDhcpStarted(s) \/ OnNatPmpStarted(s)
    PROVE  SoloInv'
<1>1. /\ task[s].op \in {"dhcp", "natpmp"}
      /\ pending \in {"StartingDhcp", "StartingNatPmp"}
      /\ session.alive /\ Working(task[s]) /\ phase = "running"
      /\ phase' = phase /\ session \in SessionState
    BY AnswersPending DEF OnDhcpStarted, OnNatPmpStarted, Receive, Working,
       TypeOK
<1>2. /\ session'.alive /\ session'.fw = session.fw
      /\ session'.fwd = session.fwd /\ session'.upstream = session.upstream
      /\ host' = host
    BY <1>1 DEF OnDhcpStarted, OnNatPmpStarted, SessionState
<1>3. \E a, b : Chain(s, a, b)
    BY DEF OnDhcpStarted, OnNatPmpStarted
<1>4. pending \in StartChain \ {"StartingSharing"}
    BY <1>1 DEF StartChain
<1> QED
    BY <1>1, <1>2, <1>3, <1>4, ChainKeepsSolo

(* The end of a stop: the managers come back and the session is dropped. *)
LEMMA SharingStoppedKeepsSolo ==
    ASSUME TypeOK, PendingInv, SoloInv, Exhausted(Disturbances)',
           NEW s \in Slots, OnSharingStopped(s)
    PROVE  SoloInv'
<1> DEFINE t == task[s]
<1>1. /\ t \in TaskState /\ t.op = "stop" /\ pending = "StoppingSharing"
      /\ session.alive /\ Working(t) /\ phase = "running" /\ phase' = phase
      /\ TaskShape(t) /\ Remembers(t) /\ host \in HostState
    BY AnswersPending DEF OnSharingStopped, Receive, TypeOK, Working, SoloInv
<1>2. session.fw = "taken"
    BY <1>1 DEF SoloInv, Custody
<1>3. t.fwd # "taken" /\ Knows(t.fwd, host)
    BY <1>1 DEF TaskState, SavedForwarding, Remembers
<1>4. /\ pending' = "none" /\ session' = NoSession /\ Release(s)
      /\ host' = DropSession(host, GiveBack(t))
    BY <1>1, <1>2, GiveBackFields DEF OnSharingStopped
<1>5. /\ GiveBack(t) \in SessionState /\ GiveBack(t).alive
      /\ GiveBack(t).fwd = t.fwd
    BY <1>1, GiveBackFields
<1>6. ForwardingIsBack(host')
    BY <1>1, <1>3, <1>4, <1>5, DropRestores
<1> QED
    BY <1>1, <1>4, <1>6, EndKeepsSolo DEF NoSession

(* The placeholder goes and the firewall comes back. *)
LEMMA GiveFirewallBackFields ==
    ASSUME TypeOK, NEW t \in TaskState, session.alive, session.fwd # "taken"
    PROVE  /\ GiveFirewallBack(t) \in SessionState
           /\ GiveFirewallBack(t).alive /\ GiveFirewallBack(t).fw = t.fw
           /\ GiveFirewallBack(t).fwd = session.fwd
           /\ GiveFirewallBack(t).upstream = session.upstream
           /\ GiveFirewallBack(t).dhcp = session.dhcp
           /\ GiveFirewallBack(t).nat = session.nat
           /\ GiveFirewallBack(t).server = session.server
           /\ GiveFirewallBack(t).dns = session.dns
           /\ GiveFirewallBack(t).wan = session.wan
BY DEF TypeOK, GiveFirewallBack, SessionState, TaskState, TakenFwd

(* The end of a reload: the firewall comes back, the rest never went. *)
LEMMA ReloadedKeepsSolo ==
    ASSUME TypeOK, PendingInv, SoloInv, Exhausted(Disturbances)',
           NEW s \in Slots, OnFirewallReloaded(s) \/ OnUpstreamReloaded(s)
    PROVE  SoloInv'
<1> DEFINE t == task[s]
<1>1. /\ t \in TaskState /\ t.op \in {"firewall", "upstream"}
      /\ pending \in {"ReloadingFirewall", "ReloadingUpstream"}
      /\ session.alive /\ Working(t) /\ phase = "running" /\ phase' = phase
      /\ TaskShape(t) /\ session \in SessionState
    BY AnswersPending DEF OnFirewallReloaded, OnUpstreamReloaded, Receive,
       TypeOK, Working, SoloInv
<1>2. /\ session.fw = "unloaded" /\ session.fwd # "taken"
      /\ session.upstream \in Utuns /\ screen # "SelectingLan"
      /\ Knows(session.fwd, host)
    BY <1>1 DEF SoloInv, Custody, SessionRemembers, StartChain
<1>3. host' = host /\ pending' = "none" /\ Release(s) /\ screen' = screen
    BY <1>1, <1>2, GiveBackFields DEF OnFirewallReloaded, OnUpstreamReloaded
<1>4. t.fw # "taken" /\ t.vpn \in Utuns
    BY <1>1 DEF TaskState, FirewallManager, TaskShape
<1>5. /\ session'.alive /\ session'.fw = t.fw /\ session'.fwd = session.fwd
      /\ session'.upstream \in {session.upstream, t.vpn}
  <2> DEFINE back == GiveFirewallBack(t)
             kept == [back EXCEPT
                        !.server = IF session.alive THEN t.server ELSE @]
  <2>1. /\ back \in SessionState /\ back.alive /\ back.fw = t.fw
        /\ back.fwd = session.fwd /\ back.upstream = session.upstream
    BY <1>1, <1>2, GiveFirewallBackFields
  <2>2. /\ kept \in SessionState /\ kept.alive /\ kept.fw = t.fw
        /\ kept.fwd = session.fwd /\ kept.upstream = session.upstream
    <3> HIDE DEF back
    <3> QED
      BY <1>1, <2>1 DEF SessionState, TaskState
  <2>3. \/ session' = back \/ session' = kept
        \/ session' = [kept EXCEPT !.upstream = t.vpn, !.down = FALSE]
    BY DEF OnFirewallReloaded, OnUpstreamReloaded
  <2> HIDE DEF back, kept
  <2> QED
    BY <2>1, <2>2, <2>3 DEF SessionState
<1> QED
    BY <1>1, <1>2, <1>3, <1>4, <1>5, EndKeepsSolo

(* A WAN uplink was found, or not. *)
LEMMA WanDetectedKeepsSolo ==
    ASSUME TypeOK, PendingInv, SoloInv, Exhausted(Disturbances)',
           NEW s \in Slots, OnWanDetected(s)
    PROVE  SoloInv'
<1>1. /\ task[s].op = "wan" /\ pending = "DetectingWan" /\ session.alive
      /\ Working(task[s]) /\ phase = "running" /\ phase' = phase
      /\ session \in SessionState /\ Alone(s) /\ screen' = screen
      /\ host' = host
    BY AnswersPending DEF OnWanDetected, Receive, Working, TypeOK
<1>2. /\ session.fw # "taken" /\ session.fwd # "taken"
      /\ session.upstream \in Utuns /\ screen # "SelectingLan"
      /\ Knows(session.fwd, host)
    BY <1>1 DEF SoloInv, Custody, SessionRemembers, StartChain
<1> DEFINE sess == [session EXCEPT !.wan = TRUE]
<1>3. /\ sess \in SessionState /\ sess.alive /\ sess.fw = session.fw
      /\ sess.fwd = session.fwd /\ sess.upstream = session.upstream
    BY <1>1 DEF SessionState
<1>4. \/ BeginReloadFirewall(s, sess, TRUE)
      \/ pending' = "none" /\ Release(s) /\ session' = session
    BY DEF OnWanDetected
<1> HIDE DEF sess
<1>5. CASE BeginReloadFirewall(s, sess, TRUE)
  <2>1. \E on \in BOOLEAN : BeginReloadFirewall(s, sess, on)
    BY <1>5
  <2> QED
    BY <1>1, <1>3, <2>1, BeginReloadKeepsSolo
<1>6. CASE pending' = "none" /\ Release(s) /\ session' = session
    BY <1>1, <1>2, <1>6, EndKeepsSolo
<1> QED
    BY <1>4, <1>5, <1>6

(* A probe's answer: nothing, a reload for another tunnel, or a stop. *)
LEMMA HealthCheckKeepsSolo ==
    ASSUME TypeOK, PendingInv, SoloInv, Exhausted(Disturbances)',
           NEW s \in Slots, OnHealthCheck(s)
    PROVE  SoloInv'
<1> DEFINE t == task[s]
           seen == [session EXCEPT !.down = ~t.ok]
           Stays == /\ Release(s) /\ UNCHANGED <<pending, host>>
                    /\ session' \in {session, seen}
           Reloads == \E new \in Utuns : BeginReloadUpstream(s, new)
<1>1. /\ ~Working(t) /\ phase = "running" /\ phase' = phase
      /\ screen' = screen /\ session \in SessionState /\ t.ok \in BOOLEAN
    BY DEF OnHealthCheck, Receive, Working, TypeOK, TaskState
<1>2. /\ seen \in SessionState /\ seen.alive = session.alive
      /\ seen.fw = session.fw /\ seen.fwd = session.fwd
      /\ seen.upstream = session.upstream
    BY <1>1 DEF SessionState
<1>3. \/ ~session.alive /\ Stays /\ session' = session
      \/ session.alive /\ Stays
      \/ session.alive /\ pending = "none" /\ Reloads
      \/ session.alive /\ pending = "none" /\ BeginStop(s, seen)
    BY DEF OnHealthCheck
<1> HIDE DEF seen
<1>4. CASE Stays /\ (session.alive \/ session' = session)
  <2>1. Launch(s, Idle) /\ TaskShape(Idle) /\ ~Working(Idle)
    BY <1>4, IdleShape DEF Release, Idle, Working
  <2>2. /\ (\A r \in Slots : TaskShape(task[r]) /\ Remembers(task[r]))'
        /\ OneWorker'
    BY <1>1, <1>4, <2>1, UntouchedStill, BystanderLaunched
  <2>3. Custody' /\ SessionRemembers'
    BY <1>1, <1>2, <1>4 DEF SoloInv, Custody, SessionRemembers
  <2> QED
    BY <2>2, <2>3 DEF SoloInv
<1>5. CASE session.alive /\ pending = "none" /\ Reloads
  <2>1. Alone(s)
    BY <1>5 DEF Alone
  <2> QED
    BY <1>1, <1>5, <2>1, BeginReloadKeepsSolo
<1>6. CASE session.alive /\ pending = "none" /\ BeginStop(s, seen)
  <2>1. seen.alive
    BY <1>2, <1>6
  <2> QED
    BY <1>1, <1>2, <1>6, <2>1, BeginStopKeepsSolo
<1> HIDE DEF Stays, Reloads
<1> QED
    BY <1>3, <1>4, <1>5, <1>6

(* Every handler; with one worker at a time no result is ever stale. *)
LEMMA HandleKeepsSolo ==
    ASSUME TypeOK, PendingInv, SoloInv, Exhausted(Disturbances)',
           NEW s \in Slots, Handle(s)
    PROVE  SoloInv' /\ ~DiscardStale(s)
<1>1. ~DiscardStale(s)
    BY AnswersPending DEF DiscardStale
<1> QED
    BY <1>1, SharingStartedKeepsSolo, ResolverStartedKeepsSolo,
       ServersStartedKeepSolo, SharingStoppedKeepsSolo, ReloadedKeepsSolo,
       WanDetectedKeepsSolo, HealthCheckKeepsSolo DEF Handle

-----------------------------------------------------------------------------
(* The whole program.                                                      *)

(* No command outlives its task. *)
LEMMA NoLateStep ==
    ASSUME SoloInv, NEW s \in Slots
    PROVE  ~LateStep(s)
BY DEF SoloInv, TaskShape, Placed, LateStep

(* The program starts with IP forwarding as it is and nobody working. *)
LEMMA InitSolo ==
    ASSUME Never(Disturbances), Init
    PROVE  SoloInv
<1>1. Exhausted(Disturbances)
    BY DEF Init, Never, Exhausted
<1>2. /\ ~Working(Idle) /\ Idle.op = "none" /\ ~NoSession.alive
      /\ ForwardingIsBack(PristineHost)
    BY DEF Idle, Working, NoSession, PristineHost, ForwardingIsBack
<1>3. \A s \in Slots : TaskShape(task[s]) /\ Remembers(task[s])
    BY <1>2, IdleShape DEF Init, Remembers
<1>4. OneWorker /\ Custody /\ SessionRemembers
    BY <1>2 DEF Init, OneWorker, Custody, SessionRemembers
<1> QED
    BY <1>1, <1>3, <1>4 DEF SoloInv

(* SoloInv is inductive. *)
LEMMA NextKeepsSolo ==
    ASSUME TypeOK, PendingInv, SoloInv, [Next]_vars
    PROVE  SoloInv'
<1>1. Exhausted(Disturbances)'
    BY ExhaustedStays DEF SoloInv, Disturbances, Events
<1>2. CASE UserStep
    BY <1>1, <1>2, UserStepKeepsSolo
<1>3. ASSUME NEW s \in Slots, TaskStep(s) PROVE SoloInv'
    BY <1>3, TaskStepKeepsSolo
<1>4. CASE PollStep
    BY <1>1, <1>4, HandleKeepsSolo, OtherStepKeepsSolo DEF PollStep
<1>5. CASE RuntimeDrop \/ EnvironmentStep
    BY <1>1, <1>5, OtherStepKeepsSolo
<1>6. CASE UNCHANGED vars
    BY <1>1, <1>6, UntouchedStill, IdleStepKeepsSolo DEF vars, appVars
<1> QED
    BY <1>2, <1>3, <1>4, <1>5, <1>6, NoLateStep DEF Next

(* SoloInv always holds. *)
LEMMA AlwaysSolo ==
    ASSUME Never(Disturbances)
    PROVE  Spec => [](TypeOK /\ PendingInv /\ SoloInv)
<1>1. Init => TypeOK /\ PendingInv /\ SoloInv
    BY InitEstablishes, InitSolo
<1>2. TypeOK /\ PendingInv /\ SoloInv /\ [Next]_vars
        => (TypeOK /\ PendingInv /\ SoloInv)'
    BY NextKeeps, NextKeepsSolo
<1> QED
    BY <1>1, <1>2, PTL DEF Spec

-----------------------------------------------------------------------------
(* What follows for the machine.                                           *)

(* However often operations fail, time out or answer late, as long as they  *)
(* are left to answer: while IP forwarding differs from what it was,        *)
(* somebody remembers what it was, and nobody remembers anything else --    *)
(* until a restore that would have changed something is refused, for then   *)
(* the original state has been taken already.                               *)
THEOREM MemoryIsKept ==
    ASSUME Never(Disturbances)
    PROVE  Spec => []OriginalRemembered
<1> DEFINE other == IF OriginalForwarding THEN "off" ELSE "on"
<1>1. Original \in {"on", "off"} /\ other \in {"on", "off"} /\ other # Original
    BY DEF Original
<1>2. TypeOK /\ PendingInv /\ SoloInv => OriginalRemembered
  <2> SUFFICES ASSUME TypeOK, PendingInv, SoloInv, ~Lost(host)
               PROVE  OriginalRemembered
    BY DEF OriginalRemembered, Lost
  <2>1. NoSession.fwd = "taken"
    BY DEF NoSession
  <2>2. /\ session.fwd \in {"unset", "taken", Original}
        /\ session.alive /\ session.fwd = "unset" => ForwardingIsBack(host)
        /\ ~session.alive => ForwardingIsBack(host)
    BY <2>1 DEF SoloInv, Custody, SessionRemembers, Knows
  <2>3. \A s \in Slots :
          /\ task[s].fwd \in {"unset", Original}
          /\ task[s].op \in {"start", "stop"} /\ task[s].fwd = "unset"
               => ForwardingIsBack(host)
    BY DEF SoloInv, TaskShape, Remembers, Knows
  <2>4. other \notin Remembered
    BY <1>1, <2>2, <2>3 DEF Remembered
  <2>5. ASSUME host.forwarding # OriginalForwarding
        PROVE  Original \in Remembered
    <3>1. CASE session.fwd = Original
      BY <3>1 DEF Remembered
    <3>2. CASE session.fwd # Original
      <4>1. ~ForwardingIsBack(host)
        BY <2>5 DEF ForwardingIsBack, Lost
      <4>2. /\ session.alive /\ session.fwd = "taken"
            /\ pending \in {"StartingSharing", "StoppingSharing"}
        BY <2>2, <3>2, <4>1 DEF SoloInv, Custody
      <4>3. PICK s \in Slots : task[s].op \in {"start", "stop"}
        BY <4>2 DEF PendingInv, PendingHasTask, OpOf
      <4>4. task[s].fwd = Original
        BY <2>3, <4>1, <4>3
      <4> QED
        BY <4>4 DEF Remembered
    <3> QED
      BY <3>1, <3>2
  <2> QED
    BY <2>4, <2>5 DEF OriginalRemembered, Original
<1> QED
    BY <1>2, AlwaysSolo, PTL

(* ... and IP forwarding is as it was found when the program is gone, or    *)
(* the sysctl that was to put it back has been refused.                     *)
THEOREM ForwardingIsRestored ==
    ASSUME Never(Disturbances)
    PROVE  Spec => []ForwardingRestored
<1>1. SoloInv => ForwardingRestored
    BY DEF SoloInv, Custody, SessionRemembers, ForwardingRestored, Gone
<1> QED
    BY <1>1, AlwaysSolo, PTL

(* No handler takes the rules of a session that goes on. *)
LEMMA HandleKeepsRules ==
    ASSUME TypeOK, PendingInv, SoloInv, NEW s \in Slots, Handle(s),
           session.alive, session'.alive
    PROVE  host'.body = host.body
<1> DEFINE t == task[s]
<1>1. t \in TaskState /\ host \in HostState
    BY DEF TypeOK
<1>2. ~NoSession.alive
    BY DEF NoSession
<1>3. CASE t.op \in {"start", "firewall", "upstream"}
  <2>1. session.fw # "loaded"
    BY <1>3, AnswersPending DEF SoloInv, Custody
  <2>2. HostAfterGiveBack(t) = host
    BY <1>1, <2>1, GiveBackFields
  <2> QED
    BY <1>2, <1>3, <2>2 DEF Handle, OnSharingStarted, OnFirewallReloaded,
       OnUpstreamReloaded, OnResolverStarted, OnDhcpStarted, OnNatPmpStarted,
       OnSharingStopped, OnWanDetected, OnHealthCheck, DiscardStale
<1>4. CASE t.op \notin {"start", "firewall", "upstream"}
  <2>1. \/ host' = host
        \/ \E held \in BOOLEAN : host' = SignalNatPmp(host, held)
    <3>1. session.server \in BOOLEAN /\ session.nat \in BOOLEAN
          /\ session \in SessionState
      BY DEF TypeOK, SessionState
    <3>2. CASE OnHealthCheck(s)
      <4> DEFINE seen == [session EXCEPT !.down = ~t.ok]
      <4>1. seen.server \in BOOLEAN
        BY <3>1 DEF SessionState
      <4>2. \/ host' = host \/ \E new : BeginReloadUpstream(s, new)
            \/ BeginStop(s, seen)
        BY <3>2 DEF OnHealthCheck
      <4> HIDE DEF seen
      <4> QED
        BY <3>1, <4>1, <4>2 DEF BeginReloadUpstream, BeginStop
    <3> QED
      BY <1>2, <1>4, <3>2 DEF Handle, OnSharingStarted, OnFirewallReloaded,
         OnUpstreamReloaded, OnResolverStarted, OnDhcpStarted,
         OnNatPmpStarted, OnSharingStopped, OnWanDetected, DiscardStale
  <2> QED
    BY <1>1, <2>1 DEF SignalNatPmp, HostState
<1> QED
    BY <1>3, <1>4

(* As long as operations are left to answer, no Firewall that loaded the    *)
(* rules of a live session is dropped behind its back: they go in its stop. *)
THEOREM RulesAreKept ==
    ASSUME Never(Disturbances)
    PROVE  Spec => RulesStayLoaded
<1> DEFINE Kept == session.alive /\ session'.alive /\ host.body # None
                     /\ host'.body = None => pending = "StoppingSharing"
<1>1. ASSUME TypeOK, PendingInv, SoloInv, [Next]_vars PROVE Kept
  <2> SUFFICES ASSUME session.alive, session'.alive, host.body # None,
                      host'.body = None
               PROVE  pending = "StoppingSharing"
    OBVIOUS
  <2>1. ~NoSession.alive /\ phase = "running" /\ host \in HostState
    BY <1>1 DEF NoSession, SoloInv, Custody, TypeOK
  <2>2. ASSUME NEW s \in Slots, TaskStep(s) PROVE pending = "StoppingSharing"
    BY <1>1, <2>2, TaskStepKeepsSolo, AnswersPending DEF TaskMove
  <2>3. ASSUME UserStep PROVE FALSE
    <3>1. session \in SessionState /\ ~BeginExit
      BY <1>1, <2>1 DEF TypeOK, BeginExit
    <3>2. ASSUME NEW s \in Slots, NEW vpn PROVE ~StartSharing(s, vpn)
      BY <1>1 DEF StartSharing, KeyReady, SoloInv, Custody, StartChain
    <3>3. ~Cancel /\ ~Interrupt
      BY <1>1, NotSpent DEF SoloInv, Cancel, Interrupt, Disturbances
    <3>4. PICK held \in BOOLEAN : \/ host' = SignalNatPmp(host, held)
                                  \/ host' = host
      BY <2>3, <3>1, <3>2, <3>3 DEF UserStep, OpenPicker, Navigate,
         KeyAfterQuit, StopSharing, ToggleBypass, Quit, BeginStop,
         SessionState
    <3> QED
      BY <2>1, <3>4 DEF SignalNatPmp, HostState
  <2>4. ASSUME PollStep PROVE FALSE
    <3>1. PICK s \in Slots : Handle(s) \/ SpawnHealthCheck(s)
      BY <2>4 DEF PollStep
    <3>2. ~SpawnHealthCheck(s)
      BY DEF SpawnHealthCheck
    <3> QED
      BY <1>1, <3>1, <3>2, HandleKeepsRules
  <2>5. ASSUME RuntimeDrop \/ EnvironmentStep \/ UNCHANGED vars PROVE FALSE
    BY <2>1, <2>5 DEF RuntimeDrop, EnvironmentStep, NatPmpExit, DropVpn,
       FlushMain, SwapVpn, Deny, Relent, vars, HostState
  <2> QED
    BY <1>1, <2>2, <2>3, <2>4, <2>5, NoLateStep DEF Next
<1>2. TypeOK /\ PendingInv /\ SoloInv /\ [Next]_vars => [Kept]_vars
    BY <1>1
<1>3. Spec => [][Kept]_vars
    BY <1>2, AlwaysSolo, PTL DEF Spec
<1> QED
    BY <1>3 DEF RulesStayLoaded

-----------------------------------------------------------------------------
(***************************************************************************)
(* What a session promises: that it implements Lease (AccountedInv), that  *)
(* the Active screen is served (ServedInv), that loaded rules have an owner *)
(* (OwnerInv), and that they name the session's upstream (FollowInv).      *)
(* Each part goes through the steps of Sharing in the same order: tasks,   *)
(* keys, results, the rest.                                                *)
(***************************************************************************)

(***************************************************************************)
(* Part 1.  The session is a lease of the machine.                         *)
(***************************************************************************)

(* Steps of a task.                                                        *)

\* A step of a task starts a server only for its own answer to tell.
TaskAccounts(s) ==
    /\ task[s].op = "health" => host' = host
    /\ task'[s].op = "health" => task'[s].pc = "sent"
    /\ task'[s].nat => task[s].nat
    /\ \/ DnsmasqIsDown(host')
       \/ ~DnsmasqIsDown(host) /\ task[s].op # "dhcp"
       \/ task'[s].op = "dhcp" /\ task'[s].ok
    /\ host'.natpmp = "on" => \/ host.natpmp = "on" /\ ~task[s].server
                              \/ BringsServer(task'[s])

(* While the App runs, an answer is delivered. *)
LEMMA AnswerDelivered ==
    ASSUME NEW s \in Slots, NEW t, NEW h, Answer(s, t, h), phase = "running"
    PROVE  Launch(s, [t EXCEPT !.pc = "sent"]) /\ host' = h
BY DEF Answer

(* What a step that leaves the servers alone accounts for. *)
LEMMA PlainAccounts ==
    ASSUME TypeOK, NEW s \in Slots, NEW t \in TaskState, NEW h,
           phase = "running",
           Advance(s, t, h) \/ Answer(s, t, h),
           t.op # "health", task[s].op \notin {"health", "dhcp"},
           ~task[s].server, t.nat = task[s].nat,
           DnsmasqIsDown(host) => DnsmasqIsDown(h), h.natpmp = host.natpmp
    PROVE  TaskAccounts(s)
<1> DEFINE n == [t EXCEPT !.pc = "sent"]
<1>1. n.op = t.op /\ n.nat = t.nat
    BY DEF TaskState
<1>2. \/ Launch(s, t) /\ host' = h
      \/ Launch(s, n) /\ host' = h
    BY AnswerDelivered DEF Advance
<1> HIDE DEF n
<1> QED
    BY <1>1, <1>2, Filled DEF TaskAccounts

(* A probe accounts for nothing new. *)
LEMMA ProbeAccounts ==
    ASSUME TypeOK, SoloInv, AccountedInv, NEW s \in Slots, TaskStep(s),
           task[s].op = "health"
    PROVE  TaskAccounts(s)
<1>1. ~Spend("heal") /\ ProbesOnly
    BY NotSpent DEF AccountedInv, Uncertain
<1> QED
    BY <1>1, ProbeLooks DEF TaskAccounts

(* Every other step of a task. *)
LEMMA WorkAccounts ==
    ASSUME TypeOK, SoloInv, AccountedInv, NEW s \in Slots, TaskStep(s),
           Working(task[s]), phase = "running"
    PROVE  TaskAccounts(s)
<1> DEFINE t == task[s]
<1>1. /\ t \in TaskState /\ TaskShape(t) /\ host \in HostState
      /\ t.op \notin {"none", "health"} /\ (t.nat => session.nat)
    BY DEF TypeOK, SoloInv, Working, AccountedInv, HandleMoves
<1>2. ~LingerStep(s) /\ ~Spend("dhcpTimeout")
    BY NotSpent DEF LingerStep, SoloInv, Disturbances, AccountedInv, Uncertain
<1>3. t.pc # "sent" => ~t.server
    BY <1>1 DEF TaskShape
<1>4. ASSUME AnswerError(s), ~t.server, t.op # "dhcp" PROVE TaskAccounts(s)
  <2> DEFINE n == [t EXCEPT !.fwd = "unset"]
             m == [t EXCEPT !.ok = t.op = "health"]
             h == RestoreForwarding(host, t.fwd)
  <2>1. /\ n \in TaskState /\ n.op = t.op /\ n.nat = t.nat
        /\ m \in TaskState /\ m.op = t.op /\ m.nat = t.nat
    BY <1>1 DEF TaskState, SavedForwarding
  <2>2. /\ DnsmasqIsDown(host) => DnsmasqIsDown(h)
        /\ h.natpmp = host.natpmp
    BY <1>1, RestoreEffect
  <2>3. Answer(s, n, h) \/ Answer(s, m, host)
    BY <1>4 DEF AnswerError
  <2> HIDE DEF n, m, h
  <2> QED
    BY <1>1, <1>4, <2>1, <2>2, <2>3, PlainAccounts
<1>5. CASE EnableForwardingStep(s)
  <2> DEFINE n == [t EXCEPT !.pc = "detect", !.fwd = Remember(host, @)]
             h == EnableForwarding(host)
  <2>1. t.op = "start" /\ t.pc = "enable"
    BY <1>1, <1>5, PcTells DEF EnableForwardingStep
  <2>2. n \in TaskState /\ n.op = t.op /\ n.nat = t.nat
    BY <1>1 DEF TaskState, SavedForwarding, Remember
  <2>3. /\ DnsmasqIsDown(host) => DnsmasqIsDown(h)
        /\ h.natpmp = host.natpmp
    BY <1>1 DEF EnableForwarding, HostState, DnsmasqIsDown
  <2>4. \/ Advance(s, n, h)
        \/ \E saved \in {t.fwd, Remember(host, t.fwd)} :
             Answer(s, [t EXCEPT !.fwd = saved], host)
    BY <1>5, Zenon DEF EnableForwardingStep
  <2> HIDE DEF n, h
  <2>5. CASE Advance(s, n, h)
    BY <1>3, <2>1, <2>2, <2>3, <2>5, PlainAccounts
  <2>6. ASSUME NEW saved \in {t.fwd, Remember(host, t.fwd)},
               Answer(s, [t EXCEPT !.fwd = saved], host)
        PROVE  TaskAccounts(s)
    <3> DEFINE m == [t EXCEPT !.fwd = saved]
    <3>1. m \in TaskState /\ m.op = t.op /\ m.nat = t.nat
      BY <1>1 DEF TaskState, SavedForwarding, Remember
    <3> HIDE DEF m
    <3> QED
      BY <1>3, <2>1, <2>6, <3>1, PlainAccounts DEF m
  <2> QED
    BY <2>4, <2>5, <2>6
<1>6. CASE DetectStep(s)
  <2> DEFINE n == [t EXCEPT !.pc = "body"]
  <2>1. t.pc = "detect" /\ t.op \in {"start", "upstream"}
    BY <1>1, <1>6, PcTells DEF DetectStep
  <2>2. n \in TaskState /\ n.op = t.op /\ n.nat = t.nat
    BY <1>1 DEF TaskState, Writes
  <2>3. Advance(s, n, host) \/ AnswerError(s)
    BY <1>6 DEF DetectStep
  <2> HIDE DEF n
  <2> QED
    BY <1>3, <1>4, <2>1, <2>2, <2>3, PlainAccounts
<1>7. CASE LoadBodyStep(s)
  <2> DEFINE n == [t EXCEPT !.pc = "hooks"]
             h == LoadBody(host, t.vpn, t.bypass)
  <2>1. t.pc = "body" /\ t.op \in {"start", "upstream", "firewall"}
    BY <1>1, <1>7, PcTells DEF LoadBodyStep
  <2>2. n \in TaskState /\ n.op = t.op /\ n.nat = t.nat
    BY <1>1 DEF TaskState, Writes
  <2>3. /\ DnsmasqIsDown(host) => DnsmasqIsDown(h)
        /\ h.natpmp = host.natpmp
    BY <1>1 DEF LoadBody, HostState, DnsmasqIsDown
  <2>4. Advance(s, n, h) \/ AnswerError(s)
    BY <1>7 DEF LoadBodyStep
  <2> HIDE DEF n, h
  <2> QED
    BY <1>3, <1>4, <2>1, <2>2, <2>3, <2>4, PlainAccounts
<1>8. CASE MergeMainStep(s)
  <2> DEFINE done == [t EXCEPT !.fw = IF t.op = "health" THEN @ ELSE "loaded",
                               !.ok = TRUE]
             n == [done EXCEPT !.pc = "serve"]
             h == MergeMain(host)
  <2>1. t.pc = "hooks" /\ t.op \in {"start", "upstream", "firewall"}
    BY <1>1, <1>8, PcTells DEF MergeMainStep
  <2>2. done \in TaskState /\ done.op = t.op /\ done.nat = t.nat
    BY <1>1 DEF TaskState, FirewallManager
  <2>3. n \in TaskState /\ n.op = t.op /\ n.nat = t.nat
    <3> HIDE DEF done
    <3> QED
      BY <2>2 DEF TaskState
  <2>4. /\ DnsmasqIsDown(host) => DnsmasqIsDown(h)
        /\ h.natpmp = host.natpmp
    BY <1>1 DEF MergeMain, HostState, DnsmasqIsDown
  <2>5. Advance(s, n, h) \/ Answer(s, done, h) \/ AnswerError(s)
    BY <1>8 DEF MergeMainStep
  <2> HIDE DEF done, n, h
  <2> QED
    BY <1>3, <1>4, <2>1, <2>2, <2>3, <2>4, <2>5, PlainAccounts
<1>9. CASE ServeStep(s)
  <2>1. PICK bound \in BOOLEAN :
          /\ bound <=> host.natpmp = "off"
          /\ Answer(s, [t EXCEPT !.server = bound,
                                 !.ok = IF t.op = "natpmp" THEN bound ELSE @],
                    IF bound THEN BindNatPmp(host) ELSE host)
    BY <1>9 DEF ServeStep, CanBindNatPmp
  <2> DEFINE n == [t EXCEPT !.server = bound,
                            !.ok = IF t.op = "natpmp" THEN bound ELSE @]
             h == IF bound THEN BindNatPmp(host) ELSE host
             sent == [n EXCEPT !.pc = "sent"]
  <2>2. /\ (t.op = "upstream" /\ t.nat) \/ t.op = "natpmp"
        /\ ~t.server
    BY <1>1, <1>3, <1>9, PcTells DEF ServeStep, TaskShape
  <2>3. /\ n \in TaskState /\ n.op = t.op /\ n.nat = t.nat /\ n.server = bound
        /\ n.op = "natpmp" => n.ok = bound
    BY <1>1 DEF TaskState
  <2>4. /\ DnsmasqIsDown(host) => DnsmasqIsDown(h)
        /\ ~bound => h.natpmp = host.natpmp
    BY <1>1, EffectsLeave
  <2>5. Launch(s, sent) /\ host' = h
    BY <2>1, AnswerDelivered
  <2> HIDE DEF n, h
  <2>6. /\ sent.op = t.op /\ sent.nat = t.nat /\ sent.server = bound
        /\ sent.op = "natpmp" => sent.ok = bound
    BY <2>3 DEF TaskState
  <2> HIDE DEF sent
  <2> QED
    BY <1>1, <2>2, <2>4, <2>5, <2>6, Filled DEF TaskAccounts, BringsServer
<1>10. CASE WorkStep(s)
  <2> DEFINE n == [t EXCEPT !.ok = TRUE]
  <2>1. t.pc = "work" /\ t.op \in {"resolver", "wan"}
    BY <1>10 DEF WorkStep
  <2>2. n \in TaskState /\ n.op = t.op /\ n.nat = t.nat
    BY <1>1 DEF TaskState
  <2>3. Answer(s, n, host) \/ AnswerError(s)
    BY <1>10 DEF WorkStep
  <2> HIDE DEF n
  <2> QED
    BY <1>3, <1>4, <2>1, <2>2, <2>3, PlainAccounts
<1>11. CASE DhcpStep(s)
  <2> DEFINE n == [t EXCEPT !.ok = TRUE]
             started == [n EXCEPT !.pc = "sent"]
             failed == [t EXCEPT !.pc = "sent"]
             running == StartDnsmasq(host)
             stopped == StopDnsmasq(host)
  <2>1. t.pc = "work" /\ t.op = "dhcp" /\ ~t.server /\ ~t.nat
    BY <1>1, <1>3, <1>11 DEF DhcpStep, TaskShape
  <2>2. n \in TaskState /\ n.op = t.op /\ n.nat = t.nat /\ n.ok
    BY <1>1 DEF TaskState
  <2>3. /\ running.natpmp = host.natpmp /\ stopped.natpmp = host.natpmp
        /\ DnsmasqIsDown(stopped)
    BY <1>1, EffectsLeave
  <2>4. \/ Launch(s, started) /\ host' = running
        \/ Launch(s, failed) /\ host' = stopped
    BY <1>2, <1>11, AnswerDelivered DEF DhcpStep
  <2> HIDE DEF n, running, stopped
  <2>5. /\ started.op = "dhcp" /\ started.ok /\ ~started.nat
        /\ failed.op = "dhcp" /\ ~failed.nat
    BY <1>1, <2>1, <2>2 DEF TaskState
  <2> HIDE DEF started, failed
  <2> QED
    BY <2>1, <2>3, <2>4, <2>5, Filled DEF TaskAccounts
<1>12. CASE StopDnsmasqStep(s)
  <2> DEFINE n == [t EXCEPT !.pc = "cleanup"]
             h == IF t.dhcp THEN StopDnsmasq(host) ELSE host
  <2>1. t.pc = "dnsmasq" /\ t.op = "stop"
    BY <1>1, <1>12, PcTells DEF StopDnsmasqStep
  <2>2. n \in TaskState /\ n.op = t.op /\ n.nat = t.nat
    BY <1>1 DEF TaskState, Writes
  <2>3. /\ DnsmasqIsDown(host) => DnsmasqIsDown(h)
        /\ h.natpmp = host.natpmp
    BY <1>1, EffectsLeave
  <2>4. Advance(s, n, h)
    BY <1>12 DEF StopDnsmasqStep
  <2> HIDE DEF n, h
  <2> QED
    BY <1>3, <2>1, <2>2, <2>3, <2>4, PlainAccounts
<1>13. CASE CleanupStep(s)
  <2> DEFINE n == [t EXCEPT !.pc = "restore"]
             m == [t EXCEPT !.pc = "restore", !.fw = "unloaded"]
             h == Cleanup(host)
  <2>1. t.pc = "cleanup" /\ t.op = "stop"
    BY <1>1, <1>13, PcTells DEF CleanupStep
  <2>2. /\ n \in TaskState /\ n.op = t.op /\ n.nat = t.nat
        /\ m \in TaskState /\ m.op = t.op /\ m.nat = t.nat
    BY <1>1 DEF TaskState, Writes, FirewallManager
  <2>3. /\ DnsmasqIsDown(host) => DnsmasqIsDown(h)
        /\ h.natpmp = host.natpmp
    BY <1>1, CleanupEffect
  <2>4. Advance(s, m, h) \/ Advance(s, n, h)
    BY <1>13, Zenon DEF CleanupStep
  <2> HIDE DEF n, m, h
  <2> QED
    BY <1>3, <2>1, <2>2, <2>3, <2>4, PlainAccounts
<1>14. CASE RestoreStep(s)
  <2> DEFINE n == [t EXCEPT !.fwd = "unset"]
             h == RestoreForwarding(host, t.fwd)
  <2>1. t.pc = "restore" /\ t.op = "stop"
    BY <1>1, <1>14, PcTells DEF RestoreStep
  <2>2. n \in TaskState /\ n.op = t.op /\ n.nat = t.nat
    BY <1>1 DEF TaskState, SavedForwarding
  <2>3. /\ DnsmasqIsDown(host) => DnsmasqIsDown(h)
        /\ h.natpmp = host.natpmp
    BY <1>1, RestoreEffect
  <2>4. Answer(s, n, h)
    BY <1>14 DEF RestoreStep
  <2> HIDE DEF n, h
  <2> QED
    BY <1>3, <2>1, <2>2, <2>3, <2>4, PlainAccounts
<1>15. CASE TimeoutStep(s)
  <2> DEFINE n == TimedOut(t)
  <2>1. t.op \in {"start", "stop", "upstream", "firewall"} /\ t.pc # "sent"
    BY <1>1, <1>15 DEF TimeoutStep, TimeLimited
  <2>2. n \in TaskState /\ n.op = t.op /\ n.nat = t.nat
    BY <1>1 DEF TaskState, TimedOut
  <2>3. Answer(s, n, host)
    BY <1>15 DEF TimeoutStep
  <2> HIDE DEF n
  <2> QED
    BY <1>3, <2>1, <2>2, <2>3, PlainAccounts
<1>16. ~ProbeStep(s)
    BY <1>1, PcTells DEF ProbeStep
<1> QED
    BY <1>2, <1>5, <1>6, <1>7, <1>8, <1>9, <1>10, <1>11, <1>12, <1>13, <1>14,
       <1>15, <1>16 DEF TaskStep

(* AccountedInv is kept by every task. *)
LEMMA TaskStepKeepsAccounts ==
    ASSUME TypeOK, PendingInv, SoloInv, AccountedInv, Exhausted(Uncertain)',
           NEW s \in Slots, TaskStep(s)
    PROVE  AccountedInv'
<1>1. TaskMove(s) /\ UNCHANGED <<phase, pending, session>>
    BY TaskStepKeepsSolo DEF TaskStep, appVars
<1>2. task[s].pc \notin {"idle", "sent"} /\ task[s].op # "none"
    BY StepUnanswered
<1>3. Working(task[s]) => session.alive /\ phase = "running"
    BY AnswersPending DEF SoloInv, Custody
<1>4. TaskAccounts(s)
    BY <1>2, <1>3, ProbeAccounts, WorkAccounts DEF Working
<1>5. \A r \in Slots : r # s => task'[r] = task[r]
    BY <1>1 DEF TaskMove
<1>6. ProbesOnly' /\ HandleMoves'
    BY <1>1, <1>4, <1>5 DEF TaskAccounts, AccountedInv, ProbesOnly, HandleMoves
<1>7. DnsmasqKnown'
    BY <1>1, <1>4, <1>5 DEF TaskAccounts, AccountedInv, DnsmasqKnown
<1>8. NatPmpKnown'
    BY <1>1, <1>4, <1>5 DEF TaskAccounts, AccountedInv, NatPmpKnown,
       BringsServer
<1>9. (~session.alive => GivenBack(host))'
    BY <1>1, <1>2, <1>3, <1>4 DEF TaskAccounts, AccountedInv, Working
<1> QED
    BY <1>6, <1>7, <1>8, <1>9 DEF AccountedInv

-----------------------------------------------------------------------------
(* Steps of the App.                                                       *)

(* What a session at the end of its life still has, it gives back. *)
LEMMA DropGivesBack ==
    ASSUME NEW h \in HostState, NEW sess \in SessionState,
           sess.alive, sess.fw # "taken", sess.fwd # "taken",
           Knows(sess.fwd, h),
           DnsmasqIsDown(h) \/ sess.dhcp,
           h.natpmp = "on" => sess.nat /\ sess.server
    PROVE  GivenBack(DropSession(h, sess))
<1> DEFINE nat == IF sess.nat THEN SignalNatPmp(h, sess.server) ELSE h
           dhcp == IF sess.dhcp THEN StopDnsmasq(nat) ELSE nat
           pf == Cleanup(dhcp)
<1>1. /\ nat \in HostState /\ nat.natpmp # "on"
      /\ DnsmasqIsDown(nat) \/ sess.dhcp
    BY DEF HostState, SignalNatPmp, DnsmasqIsDown
<1>2. dhcp \in HostState /\ dhcp.natpmp # "on" /\ DnsmasqIsDown(dhcp)
  <2> HIDE DEF nat
  <2>1. StopDnsmasq(nat) \in HostState
    BY <1>1 DEF HostState, StopDnsmasq, Undoable
  <2> QED
    BY <1>1, <2>1, EffectsLeave
<1>3. /\ pf \in HostState /\ pf.natpmp # "on" /\ DnsmasqIsDown(pf)
      /\ ~HasRules(pf)
  <2> HIDE DEF dhcp
  <2>1. Cleanup(dhcp) \in HostState
    BY <1>2, HostTypes DEF SavedForwarding, FirewallManager
  <2> QED
    BY <1>2, <2>1, CleanupEffect
<1>4. DropSession(h, sess) = RestoreForwarding(pf, sess.fwd)
    BY DEF DropSession
<1>5. ForwardingIsBack(DropSession(h, sess))
    BY DropRestores
<1> HIDE DEF pf
<1> QED
    BY <1>3, <1>4, <1>5, RestoreEffect DEF GivenBack, HasRules

(* Only a start of that server's own, and a reload of its handle, stand      *)
(* between a server that runs and the session.                             *)
LEMMA KnownToSession ==
    ASSUME TypeOK, PendingInv, SoloInv, AccountedInv
    PROVE  /\ pending # "StartingDhcp" => DnsmasqIsDown(host) \/ session.dhcp
           /\ host.natpmp = "on"
                /\ pending \notin {"StartingNatPmp", "ReloadingUpstream"}
              => session.nat /\ session.server
BY AnswersPending DEF AccountedInv, DnsmasqKnown, NatPmpKnown, BringsServer

(* When a session is over, so is the work for it. *)
LEMMA EndAccounts ==
    ASSUME SoloInv', PendingInv', AccountedInv, Exhausted(Uncertain)',
           \A r \in Slots : task'[r] \in {task[r], Idle},
           ~session'.alive, GivenBack(host')
    PROVE  AccountedInv'
<1>1. pending' = "none"
    BY DEF PendingInv, PendingHasTask
<1>2. \A r \in Slots : ~Working(task'[r]) /\ ~task'[r].nat
    BY <1>1 DEF SoloInv, OneWorker, TaskShape, Working
<1>3. ProbesOnly'
    BY DEF AccountedInv, ProbesOnly, Idle
<1>4. HandleMoves' /\ DnsmasqKnown' /\ NatPmpKnown'
    BY <1>1, <1>2 DEF HandleMoves, DnsmasqKnown, NatPmpKnown, GivenBack
<1> QED
    BY <1>3, <1>4 DEF AccountedInv

\* A session that goes on takes over what the result in slot s tells it of,
\* and the next task starts with nothing.
Accounts(s, t) ==
    /\ Launch(s, t)
    /\ t.op = "health" => t.pc \in {"probe", "sent"}
    /\ t.nat => session'.nat
    /\ session'.alive
    /\ session.nat => session'.nat
    /\ ~DnsmasqIsDown(host') =>
         /\ ~DnsmasqIsDown(host)
         /\ session.dhcp \/ (task[s].op = "dhcp" /\ task[s].ok)
              => session'.dhcp
    /\ host'.natpmp = "on" =>
         /\ host.natpmp = "on"
         /\ (session.nat /\ session.server) \/ BringsServer(task[s])
              => session'.nat /\ session'.server
    /\ pending' = "ReloadingUpstream" /\ session'.nat => ~session'.server

(* That is how a session keeps its accounts. *)
LEMMA OnwardAccounts ==
    ASSUME TypeOK, AccountedInv, Exhausted(Uncertain)', NEW s \in Slots,
           NEW t, Accounts(s, t)
    PROVE  AccountedInv'
<1>1. task'[s] = t /\ \A r \in Slots : r # s => task'[r] = task[r]
    BY Filled DEF Accounts
<1>2. ProbesOnly' /\ HandleMoves'
  <2>1. ProbesOnly'
    BY <1>1 DEF Accounts, AccountedInv, ProbesOnly
  <2>2. \A r \in Slots : task'[r].nat => session'.nat
    BY <1>1 DEF Accounts, AccountedInv, HandleMoves
  <2> QED
    BY <2>1, <2>2 DEF Accounts, HandleMoves
<1>3. DnsmasqKnown'
    BY <1>1 DEF Accounts, AccountedInv, DnsmasqKnown
<1>4. NatPmpKnown'
    BY <1>1 DEF Accounts, AccountedInv, NatPmpKnown, BringsServer
<1> QED
    BY <1>2, <1>3, <1>4 DEF Accounts, AccountedInv

(* A stop keeps the handles' signals in order: the server is told to stop. *)
LEMMA BeginStopAccounts ==
    ASSUME TypeOK, PendingInv, SoloInv, AccountedInv, Exhausted(Uncertain)',
           NEW s \in Slots, NEW sess \in SessionState, BeginStop(s, sess),
           session.alive, pending = "none", sess.alive,
           sess.nat = session.nat, sess.server = session.server,
           sess.dhcp = session.dhcp
    PROVE  AccountedInv'
<1> DEFINE t == [Idle EXCEPT !.op = "stop", !.pc = "dnsmasq",
                             !.dhcp = sess.dhcp, !.fw = TakenFw(sess),
                             !.fwd = TakenFwd(sess)]
<1>1. t.op = "stop" /\ ~t.nat
    BY DEF Idle
<1>2. Launch(s, t) /\ pending' = "StoppingSharing"
    BY DEF BeginStop
<1> HIDE DEF t
<1>3. /\ session'.alive /\ session'.nat = session.nat
      /\ session'.dhcp = session.dhcp
    BY DEF BeginStop, SessionState
<1>4. /\ DnsmasqIsDown(host) => DnsmasqIsDown(host')
      /\ host'.natpmp # "on"
    BY KnownToSession DEF BeginStop, SignalNatPmp, TypeOK, HostState,
       DnsmasqIsDown
<1>5. task[s].op # "dhcp"
    BY AnswersPending
<1> QED
    BY <1>1, <1>2, <1>3, <1>4, <1>5, OnwardAccounts DEF Accounts

(* A reload keeps the handle out of the session it will return to. *)
LEMMA BeginReloadAccounts ==
    ASSUME TypeOK, PendingInv, SoloInv, AccountedInv, Exhausted(Uncertain)',
           NEW s \in Slots, NEW sess \in SessionState,
           \/ /\ host' = host
              /\ \E on \in BOOLEAN : BeginReloadFirewall(s, sess, on)
           \/ /\ sess = session
              /\ \E new \in Utuns : BeginReloadUpstream(s, new),
           session.alive, pending \in {"none", "DetectingWan"},
           sess.alive, sess.nat = session.nat, sess.server = session.server,
           sess.dhcp = session.dhcp
    PROVE  AccountedInv'
<1>1. /\ DnsmasqIsDown(host) \/ session.dhcp
      /\ host.natpmp = "on" => session.nat /\ session.server
    BY KnownToSession
<1>2. host \in HostState /\ session.nat \in BOOLEAN /\ session.server \in BOOLEAN
      /\ session \in SessionState
    BY DEF TypeOK, SessionState
<1> DEFINE kept == WithPlaceholder(sess)
<1>3. /\ kept.alive /\ kept.nat = session.nat
      /\ kept.server = session.server /\ kept.dhcp = session.dhcp
      /\ kept \in SessionState
    BY DEF WithPlaceholder, SessionState, TakenFwd, FirewallManager,
       SavedForwarding
<1>4. ASSUME NEW on \in BOOLEAN, BeginReloadFirewall(s, sess, on), host' = host
      PROVE  \E t : Accounts(s, t)
  <2> DEFINE t == [Idle EXCEPT !.op = "firewall", !.pc = "body",
                               !.fw = TakenFw(sess), !.vpn = sess.upstream,
                               !.bypass = on, !.on = on]
  <2>1. t.op = "firewall" /\ ~t.nat
    BY DEF Idle
  <2>2. /\ Launch(s, t) /\ pending' = "ReloadingFirewall"
        /\ session' = kept
    BY <1>4 DEF BeginReloadFirewall
  <2> HIDE DEF t, kept
  <2> QED
    BY <1>1, <1>3, <1>4, <2>1, <2>2 DEF Accounts
<1>5. ASSUME NEW new \in Utuns, BeginReloadUpstream(s, new), sess = session
      PROVE  \E t : Accounts(s, t)
  <2> DEFINE t == [Idle EXCEPT !.op = "upstream", !.pc = "detect",
                               !.fw = TakenFw(session), !.vpn = new,
                               !.bypass = session.wan, !.nat = session.nat]
  <2>1. t.op = "upstream" /\ t.nat = session.nat
    BY DEF Idle
  <2>2. /\ Launch(s, t) /\ pending' = "ReloadingUpstream"
        /\ session' = [kept EXCEPT !.server = IF session.nat THEN FALSE ELSE @]
    BY <1>5 DEF BeginReloadUpstream
  <2>3. /\ DnsmasqIsDown(host) => DnsmasqIsDown(host')
        /\ host'.natpmp # "on"
    BY <1>1, <1>2, <1>5 DEF BeginReloadUpstream, SignalNatPmp, HostState,
       DnsmasqIsDown
  <2> HIDE DEF t, kept
  <2>4. /\ session'.alive /\ session'.nat = session.nat
        /\ session.nat => ~session'.server
        /\ session'.dhcp = session.dhcp
    BY <1>3, <2>2 DEF SessionState
  <2> QED
    BY <1>1, <2>1, <2>2, <2>3, <2>4 DEF Accounts
<1> QED
    BY <1>4, <1>5, OnwardAccounts

(* What neither fills a slot nor touches a server. *)
LEMMA IdleStepAccounts ==
    ASSUME TypeOK, AccountedInv, Exhausted(Uncertain)',
           UNCHANGED <<pending, session, task>>,
           \/ host' = host \/ NatPmpExit \/ FlushMain \/ Relent
           \/ \E what \in Undoable : Deny(what)
    PROVE  AccountedInv'
<1>1. /\ host'.dnsmasq = host.dnsmasq /\ host'.forwarding = host.forwarding
      /\ host'.natpmp = "on" => host.natpmp = "on"
      /\ host'.body = host.body /\ (host'.hooks => host.hooks)
      /\ host'.refused = host.refused
    BY DEF NatPmpExit, FlushMain, Relent, Deny, TypeOK, HostState
<1>2. ProbesOnly' /\ HandleMoves' /\ DnsmasqKnown' /\ NatPmpKnown'
    BY <1>1 DEF AccountedInv, ProbesOnly, HandleMoves, DnsmasqKnown,
       DnsmasqIsDown, NatPmpKnown, BringsServer
<1>3. (~session.alive => GivenBack(host))'
    BY <1>1 DEF AccountedInv, GivenBack, ForwardingIsBack, RulesAreOut,
       DnsmasqIsDown
<1> QED
    BY <1>2, <1>3 DEF AccountedInv

(* The program that leaves drops a session at rest, or none. *)
LEMMA ExitAccounts ==
    ASSUME TypeOK, PendingInv, SoloInv, AccountedInv, Exhausted(Uncertain)',
           SoloInv', PendingInv', BeginExit, pending = "none"
    PROVE  AccountedInv'
<1> DEFINE torn == DropSession(host, session)
<1>1. torn \in HostState /\ session \in SessionState /\ host \in HostState
    BY DropSessionType DEF TypeOK
<1>2. GivenBack(torn)
  <2>1. CASE ~session.alive
    BY <2>1 DEF AccountedInv, DropSession
  <2>2. CASE session.alive
    <3>1. session.fw # "taken"
      BY <2>2, SessionAtRest DEF FirewallManager
    <3> QED
      BY <1>1, <2>2, <3>1, SessionAtRest, KnownToSession, DropGivesBack
         DEF SavedForwarding
  <2> QED
    BY <2>1, <2>2
<1>3. host' \in {torn, Cleanup(torn)}
    BY DEF BeginExit
<1> HIDE DEF torn
<1>4. GivenBack(Cleanup(torn))
    BY <1>1, <1>2, CleanupEffect, EffectsLeaveForwarding, SameIsStill
       DEF GivenBack, HasRules, Still
<1>6. GivenBack(host')
    BY <1>2, <1>3, <1>4
<1>5. /\ \A r \in Slots : task'[r] \in {task[r], Idle}
      /\ ~session'.alive
    BY DEF BeginExit, TypeOK, NoSession
<1> QED
    BY <1>5, <1>6, EndAccounts

(* The next link of the start chain. *)
LEMMA ChainAccounts ==
    ASSUME TypeOK, AccountedInv, Exhausted(Uncertain)', NEW s \in Slots,
           NEW wantDhcp, NEW wantNatPmp, Chain(s, wantDhcp, wantNatPmp),
           session'.alive, host' = host,
           session.nat => session'.nat,
           session.dhcp \/ (task[s].op = "dhcp" /\ task[s].ok)
             => session'.dhcp,
           (session.nat /\ session.server) \/ BringsServer(task[s])
             => session'.nat /\ session'.server
    PROVE  AccountedInv'
<1>1. PICK t : Launch(s, t) /\ t.op # "health" /\ ~t.nat
  <2>1. ~Idle.nat /\ Idle.op # "health"
    BY DEF Idle
  <2>2. \A op \in {"dhcp", "natpmp"} :
          LET t == [Idle EXCEPT !.op = op, !.pc = "work"]
          IN  t.op # "health" /\ ~t.nat
    BY DEF Idle
  <2> QED
    BY <2>1, <2>2 DEF Chain, Release
<1>2. pending' # "ReloadingUpstream"
    BY DEF Chain
<1>3. Accounts(s, t)
    BY <1>1, <1>2 DEF Accounts, AccountedInv, DnsmasqKnown, NatPmpKnown
<1> QED
    BY <1>3, OnwardAccounts

(* A slot is emptied and the session goes on. *)
LEMMA ReleaseAccounts ==
    ASSUME TypeOK, AccountedInv, Exhausted(Uncertain)', NEW s \in Slots,
           Release(s), session'.alive, host' = host,
           pending' # "ReloadingUpstream" \/ ~session'.nat \/ ~session'.server,
           session.nat => session'.nat,
           session.dhcp \/ (task[s].op = "dhcp" /\ task[s].ok)
             => session'.dhcp,
           host.natpmp = "on"
             /\ ((session.nat /\ session.server) \/ BringsServer(task[s]))
             => session'.nat /\ session'.server
    PROVE  AccountedInv'
<1>1. Launch(s, Idle) /\ Idle.op # "health" /\ ~Idle.nat
    BY DEF Release, Idle
<1>2. Accounts(s, Idle)
    BY <1>1 DEF Accounts, AccountedInv
<1> QED
    BY <1>2, OnwardAccounts

-----------------------------------------------------------------------------
(* Keys and results.                                                       *)

(* A start finds a machine nobody has touched. *)
LEMMA StartAccounts ==
    ASSUME TypeOK, PendingInv, SoloInv, AccountedInv, Exhausted(Uncertain)',
           NEW s \in Slots, NEW vpn, StartSharing(s, vpn)
    PROVE  AccountedInv' /\ host' = host
<1>1. pending = "none" /\ ~session.alive /\ session = NoSession
    BY DEF StartSharing, KeyReady, SoloInv, Custody, StartChain
<1> DEFINE t == [Idle EXCEPT !.op = "start", !.pc = "enable", !.vpn = vpn,
                             !.bypass = allowOn]
<1>2. t.op = "start" /\ ~t.nat
    BY DEF Idle
<1>3. /\ Launch(s, t) /\ pending' = "StartingSharing" /\ host' = host
      /\ session'.alive
    BY <1>1 DEF StartSharing, DropSession, NoSession
<1> HIDE DEF t
<1>4. ~session.nat /\ DnsmasqIsDown(host) /\ host.natpmp # "on"
    BY <1>1 DEF NoSession, AccountedInv, GivenBack
<1>5. Accounts(s, t)
    BY <1>2, <1>3, <1>4 DEF Accounts
<1> QED
    BY <1>3, <1>5, OnwardAccounts

(* Every key. *)
LEMMA UserStepAccounts ==
    ASSUME TypeOK, PendingInv, SoloInv, AccountedInv, Exhausted(Uncertain)',
           SoloInv', PendingInv', UserStep
    PROVE  AccountedInv' /\ (session.alive \/ ~session'.alive \/ host' = host)
<1>1. session \in SessionState /\ Free \subseteq Slots
    BY DEF TypeOK, Free
<1>2. ~NoSession.alive
    BY DEF NoSession
<1>3. ~Cancel /\ ~Interrupt
    BY NotSpent DEF SoloInv, Cancel, Interrupt, Disturbances
<1>4. CASE OpenPicker \/ Navigate
    BY <1>4, IdleStepAccounts DEF OpenPicker, Navigate
<1>5. CASE KeyAfterQuit
  <2>1. BeginExit /\ pending = "none"
    BY <1>5 DEF KeyAfterQuit, KeyReady
  <2> QED
    BY <1>2, <2>1, ExitAccounts DEF BeginExit
<1>6. ASSUME NEW s \in Slots, StopSharing(s)
      PROVE  AccountedInv' /\ session.alive
    BY <1>1, <1>6, BeginStopAccounts DEF StopSharing, KeyReady
<1>7. ASSUME NEW s \in Slots, Quit(s)
      PROVE  AccountedInv' /\ (session.alive \/ ~session'.alive \/ host' = host)
  <2>1. CASE pending # "none"
    BY <1>7, <2>1, IdleStepAccounts DEF Quit
  <2>2. CASE pending = "none" /\ session.alive
    BY <1>1, <1>7, <2>2, BeginStopAccounts DEF Quit
  <2>3. CASE pending = "none" /\ ~session.alive
    <3>1. BeginExit
      BY <1>7, <2>3 DEF Quit
    <3> QED
      BY <1>2, <2>3, <3>1, ExitAccounts DEF BeginExit
  <2> QED
    BY <2>1, <2>2, <2>3
<1>8. ASSUME NEW s \in Slots, ToggleBypass(s)
      PROVE  AccountedInv' /\ host' = host
  <2>1. pending = "none" /\ host' = host
    BY <1>8 DEF ToggleBypass, KeyReady
  <2>2. CASE UNCHANGED <<pending, session, task>>
    BY <2>1, <2>2, IdleStepAccounts
  <2>3. CASE session.alive /\ \E on \in BOOLEAN :
               BeginReloadFirewall(s, session, on)
    BY <1>1, <2>1, <2>3, BeginReloadAccounts
  <2>4. CASE /\ session.alive /\ pending' = "DetectingWan"
             /\ session' = session
             /\ Launch(s, [Idle EXCEPT !.op = "wan", !.pc = "work"])
    <3> DEFINE t == [Idle EXCEPT !.op = "wan", !.pc = "work"]
    <3>1. t.op = "wan" /\ ~t.nat /\ Launch(s, t)
      BY <2>4 DEF Idle
    <3> HIDE DEF t
    <3>2. Accounts(s, t)
      BY <2>1, <2>4, <3>1, KnownToSession DEF Accounts
    <3> QED
      BY <2>1, <3>2, OnwardAccounts
  <2> QED
    BY <2>1, <2>2, <2>3, <2>4, <1>8 DEF ToggleBypass
<1> QED
    BY <1>1, <1>3, <1>4, <1>5, <1>6, <1>7, <1>8, StartAccounts DEF UserStep,
       OpenPicker, Navigate

(* The end of a start: the session goes on, or its drop cleans up. *)
LEMMA SharingStartedAccounts ==
    ASSUME TypeOK, PendingInv, SoloInv, AccountedInv, Exhausted(Uncertain)',
           SoloInv', PendingInv', NEW s \in Slots, OnSharingStarted(s)
    PROVE  AccountedInv'
<1> DEFINE t == task[s]
           kept == GiveBack(t)
<1>1. /\ t \in TaskState /\ t.op = "start" /\ pending = "StartingSharing"
      /\ session.alive /\ TaskShape(t) /\ Remembers(t) /\ host \in HostState
    BY AnswersPending DEF OnSharingStarted, TypeOK, SoloInv, Working
<1>2. HostAfterGiveBack(t) = host
  <2>1. session.fw = "taken"
    BY <1>1 DEF SoloInv, Custody
  <2> QED
    BY <1>1, <2>1, GiveBackFields
<1>3. /\ DnsmasqIsDown(host) \/ session.dhcp
      /\ host.natpmp = "on" => session.nat /\ session.server
    BY <1>1, KnownToSession
<1>4. /\ kept \in SessionState /\ kept.alive /\ kept.fw = t.fw
      /\ kept.fwd = t.fwd /\ kept.dhcp = session.dhcp
      /\ kept.nat = session.nat /\ kept.server = session.server
    BY <1>1, GiveBackFields
<1> HIDE DEF kept
<1>5. CASE /\ session' = [kept EXCEPT !.upstream = t.vpn, !.wan = t.bypass]
           /\ pending' = "StartingResolver" /\ host' = host
           /\ Launch(s, [Idle EXCEPT !.op = "resolver", !.pc = "work"])
  <2> DEFINE n == [Idle EXCEPT !.op = "resolver", !.pc = "work"]
  <2>1. n.op = "resolver" /\ ~n.nat /\ Launch(s, n)
    BY <1>5 DEF Idle
  <2>2. /\ session'.alive /\ session'.dhcp = session.dhcp
        /\ session'.nat = session.nat /\ session'.server = session.server
    BY <1>4, <1>5 DEF SessionState
  <2> HIDE DEF n
  <2>3. pending' = "StartingResolver" /\ host' = host
    BY <1>5
  <2>4. Accounts(s, n)
    BY <1>3, <2>1, <2>2, <2>3 DEF Accounts
  <2> QED
    BY <2>4, OnwardAccounts
<1>6. CASE /\ session' = NoSession /\ Release(s)
           /\ host' = DropSession(host, kept)
  <2>1. t.fw # "taken" /\ t.fwd # "taken" /\ Knows(t.fwd, host)
    BY <1>1 DEF TaskState, FirewallManager, SavedForwarding, Remembers
  <2>2. GivenBack(host')
    BY <1>1, <1>3, <1>4, <1>6, <2>1, DropGivesBack
  <2>3. /\ \A r \in Slots : task'[r] \in {task[r], Idle}
        /\ ~session'.alive
    BY <1>6, Filled DEF Release, NoSession
  <2> QED
    BY <2>2, <2>3, EndAccounts
<1> QED
    BY <1>1, <1>2, <1>5, <1>6 DEF OnSharingStarted, kept

(* The end of a stop. *)
LEMMA SharingStoppedAccounts ==
    ASSUME TypeOK, PendingInv, SoloInv, AccountedInv, Exhausted(Uncertain)',
           SoloInv', PendingInv', NEW s \in Slots, OnSharingStopped(s)
    PROVE  AccountedInv'
<1> DEFINE t == task[s]
           kept == GiveBack(t)
<1>1. /\ t \in TaskState /\ t.op = "stop" /\ pending = "StoppingSharing"
      /\ session.alive /\ TaskShape(t) /\ Remembers(t) /\ host \in HostState
    BY AnswersPending DEF OnSharingStopped, TypeOK, SoloInv, Working
<1>2. HostAfterGiveBack(t) = host
  <2>1. session.fw = "taken"
    BY <1>1 DEF SoloInv, Custody
  <2> QED
    BY <1>1, <2>1, GiveBackFields
<1>3. /\ DnsmasqIsDown(host) \/ session.dhcp
      /\ host.natpmp = "on" => session.nat /\ session.server
    BY <1>1, KnownToSession
<1>4. /\ kept \in SessionState /\ kept.alive /\ kept.fw = t.fw
      /\ kept.fwd = t.fwd /\ kept.dhcp = session.dhcp
      /\ kept.nat = session.nat /\ kept.server = session.server
    BY <1>1, GiveBackFields
<1>5. session' = NoSession /\ Release(s) /\ host' = DropSession(host, kept)
    BY <1>2 DEF OnSharingStopped
<1> HIDE DEF kept
<1>6. t.fw # "taken" /\ t.fwd # "taken" /\ Knows(t.fwd, host)
    BY <1>1 DEF TaskState, FirewallManager, SavedForwarding, Remembers
<1>7. GivenBack(host')
  BY <1>1, <1>3, <1>4, <1>5, <1>6, DropGivesBack
<1>8. /\ \A r \in Slots : task'[r] \in {task[r], Idle}
      /\ ~session'.alive
  BY <1>5, Filled DEF Release, NoSession
<1> QED
    BY <1>7, <1>8, EndAccounts

(* The results of the start chain after the start. *)
LEMMA ChainStartedAccounts ==
    ASSUME TypeOK, PendingInv, SoloInv, AccountedInv, Exhausted(Uncertain)',
           SoloInv', PendingInv', NEW s \in Slots,
           OnResolverStarted(s) \/ OnDhcpStarted(s) \/ OnNatPmpStarted(s)
    PROVE  AccountedInv'
<1> DEFINE t == task[s]
<1>1. /\ t \in TaskState /\ TaskShape(t) /\ session \in SessionState
      /\ session.alive /\ host \in HostState
      /\ pending \in {"StartingResolver", "StartingDhcp", "StartingNatPmp"}
    BY AnswersPending DEF OnResolverStarted, OnDhcpStarted, OnNatPmpStarted,
       TypeOK, SoloInv, Working
<1>2. CASE /\ OnResolverStarted(s) /\ t.ok
  <2>1. /\ t.op = "resolver" /\ host' = host
        /\ session' = [session EXCEPT !.dns = session.alive]
        /\ \E a, b : Chain(s, a, b)
    BY <1>2 DEF OnResolverStarted
  <2>2. /\ session'.alive /\ session'.dhcp = session.dhcp
        /\ session'.nat = session.nat /\ session'.server = session.server
    BY <1>1, <2>1 DEF SessionState
  <2>3. ~BringsServer(t)
    BY <2>1 DEF BringsServer
  <2> QED
    BY <2>1, <2>2, <2>3, ChainAccounts
<1>3. CASE /\ OnResolverStarted(s) /\ ~t.ok
  <2>1. /\ t.op = "resolver" /\ pending = "StartingResolver" /\ Release(s)
        /\ session' = NoSession /\ host' = DropSession(host, session)
    BY <1>3 DEF OnResolverStarted
  <2>2. /\ session.fw # "taken" /\ session.fwd # "taken"
        /\ Knows(session.fwd, host)
    BY <1>1, <2>1 DEF SoloInv, Custody, SessionRemembers
  <2>3. GivenBack(host')
    BY <1>1, <2>1, <2>2, KnownToSession, DropGivesBack
  <2>4. /\ \A r \in Slots : task'[r] \in {task[r], Idle}
        /\ ~session'.alive
    BY <2>1, Filled DEF Release, NoSession
  <2> QED
    BY <2>3, <2>4, EndAccounts
<1>4. CASE OnDhcpStarted(s)
  <2>1. /\ t.op = "dhcp" /\ host' = host
        /\ session' = [session EXCEPT !.dhcp = @ \/ (t.ok /\ session.alive)]
        /\ \E a, b : Chain(s, a, b)
    BY <1>4 DEF OnDhcpStarted
  <2>2. /\ session'.alive /\ (session.dhcp \/ t.ok => session'.dhcp)
        /\ session'.nat = session.nat /\ session'.server = session.server
    BY <1>1, <2>1 DEF SessionState
  <2>3. ~BringsServer(t)
    BY <2>1 DEF BringsServer
  <2> QED
    BY <2>1, <2>2, <2>3, ChainAccounts
<1>5. CASE OnNatPmpStarted(s)
  <2>1. /\ t.op = "natpmp" /\ host' = host
        /\ session' = IF t.ok /\ session.alive
                      THEN [session EXCEPT !.nat = TRUE, !.server = t.server]
                      ELSE session
        /\ \E a, b : Chain(s, a, b)
    BY <1>5 DEF OnNatPmpStarted
  <2>2. t.ok => t.server
    BY <1>1, <2>1 DEF TaskShape
  <2>3. /\ session'.alive /\ session'.dhcp = session.dhcp
        /\ t.ok => session'.nat /\ session'.server
        /\ ~t.ok => session'.nat = session.nat /\ session'.server = session.server
    BY <1>1, <2>1, <2>2 DEF SessionState
  <2>4. BringsServer(t) => t.ok
    BY <2>1 DEF BringsServer
  <2> QED
    BY <2>1, <2>3, <2>4, ChainAccounts
<1> QED
    BY <1>2, <1>3, <1>4, <1>5

(* The end of a reload: a server of its own takes the old one's place. *)
LEMMA ReloadedAccounts ==
    ASSUME TypeOK, PendingInv, SoloInv, AccountedInv, Exhausted(Uncertain)',
           NEW s \in Slots, OnFirewallReloaded(s) \/ OnUpstreamReloaded(s)
    PROVE  AccountedInv'
<1> DEFINE t == task[s]
           back == GiveFirewallBack(t)
           kept == [back EXCEPT
                      !.server = IF session.alive THEN t.server ELSE @]
<1>1. /\ t \in TaskState /\ t.op \in {"firewall", "upstream"}
      /\ pending \in {"ReloadingFirewall", "ReloadingUpstream"}
      /\ session.alive /\ session \in SessionState
    BY AnswersPending DEF OnFirewallReloaded, OnUpstreamReloaded, TypeOK,
       Working
<1>2. session.fw = "unloaded" /\ session.fwd # "taken"
    BY <1>1 DEF SoloInv, Custody
<1>3. host' = host /\ pending' = "none" /\ Release(s)
    BY <1>1, <1>2, GiveBackFields DEF OnFirewallReloaded, OnUpstreamReloaded
<1>4. /\ back \in SessionState /\ back.alive /\ back.dhcp = session.dhcp
      /\ back.nat = session.nat /\ back.server = session.server
    BY <1>1, <1>2, GiveFirewallBackFields
<1>5. /\ kept \in SessionState /\ kept.alive /\ kept.dhcp = session.dhcp
      /\ kept.nat = session.nat /\ kept.server = t.server
  <2> HIDE DEF back
  <2> QED
    BY <1>1, <1>4 DEF SessionState, TaskState
<1>6. CASE OnFirewallReloaded(s)
  <2>1. session' = back /\ t.op = "firewall"
    BY <1>6 DEF OnFirewallReloaded
  <2>2. ~BringsServer(t)
    BY <2>1 DEF BringsServer
  <2> HIDE DEF back
  <2> QED
    BY <1>3, <1>4, <2>1, <2>2, ReleaseAccounts
<1>7. CASE OnUpstreamReloaded(s)
  <2>1. /\ t.op = "upstream" /\ pending = "ReloadingUpstream"
        /\ \/ session' = kept
           \/ session' = [kept EXCEPT !.upstream = t.vpn, !.down = FALSE]
    BY <1>7, AnswersPending DEF OnUpstreamReloaded
  <2> HIDE DEF back, kept
  <2>2. /\ session'.alive /\ session'.dhcp = session.dhcp
        /\ session'.nat = session.nat /\ session'.server = t.server
    BY <1>5, <2>1 DEF SessionState
  <2>3. ~(session.nat /\ session.server)
    BY <2>1 DEF AccountedInv, HandleMoves
  <2>4. BringsServer(t) => t.server /\ session.nat
    BY <2>1 DEF BringsServer
  <2> QED
    BY <1>3, <2>1, <2>2, <2>3, <2>4, ReleaseAccounts
<1> QED
    BY <1>6, <1>7

(* A WAN uplink was found, or not. *)
LEMMA WanDetectedAccounts ==
    ASSUME TypeOK, PendingInv, SoloInv, AccountedInv, Exhausted(Uncertain)',
           NEW s \in Slots, OnWanDetected(s)
    PROVE  AccountedInv'
<1>1. /\ task[s].op = "wan" /\ pending = "DetectingWan" /\ session.alive
      /\ session \in SessionState /\ host' = host
    BY AnswersPending DEF OnWanDetected, TypeOK, Working
<1> DEFINE sess == [session EXCEPT !.wan = TRUE]
<1>2. /\ sess \in SessionState /\ sess.alive /\ sess.nat = session.nat
      /\ sess.server = session.server /\ sess.dhcp = session.dhcp
    BY <1>1 DEF SessionState
<1>3. \/ BeginReloadFirewall(s, sess, TRUE)
      \/ pending' = "none" /\ Release(s) /\ session' = session
    BY DEF OnWanDetected
<1> HIDE DEF sess
<1>4. CASE BeginReloadFirewall(s, sess, TRUE)
  <2>1. \E on \in BOOLEAN : BeginReloadFirewall(s, sess, on)
    BY <1>4
  <2> QED
    BY <1>1, <1>2, <2>1, BeginReloadAccounts
<1>5. CASE pending' = "none" /\ Release(s) /\ session' = session
  <2>1. ~BringsServer(task[s])
    BY <1>1 DEF BringsServer
  <2> QED
    BY <1>1, <1>5, <2>1, ReleaseAccounts
<1> QED
    BY <1>3, <1>4, <1>5

(* A probe's answer: nothing, a reload, or a stop. *)
LEMMA HealthCheckAccounts ==
    ASSUME TypeOK, PendingInv, SoloInv, AccountedInv, Exhausted(Uncertain)',
           SoloInv', PendingInv', NEW s \in Slots, OnHealthCheck(s)
    PROVE  AccountedInv' /\ (session'.alive => session.alive)
<1> DEFINE t == task[s]
           seen == [session EXCEPT !.down = ~t.ok]
           Stays == /\ Release(s) /\ UNCHANGED <<pending, host>>
                    /\ session' \in {session, seen}
           Reloads == \E new \in Utuns : BeginReloadUpstream(s, new)
<1>1. /\ t.op = "health" /\ session \in SessionState /\ t.ok \in BOOLEAN
      /\ host \in HostState
    BY DEF OnHealthCheck, TypeOK, TaskState
<1>2. /\ seen \in SessionState /\ seen.alive = session.alive
      /\ seen.dhcp = session.dhcp /\ seen.nat = session.nat
      /\ seen.server = session.server
    BY <1>1 DEF SessionState
<1>3. \/ ~session.alive /\ Stays /\ session' = session
      \/ session.alive /\ Stays
      \/ session.alive /\ pending = "none" /\ Reloads
      \/ session.alive /\ pending = "none" /\ BeginStop(s, seen)
    BY DEF OnHealthCheck
<1> HIDE DEF seen
<1>4. CASE ~session.alive /\ Stays /\ session' = session
  <2>1. GivenBack(host')
    BY <1>4 DEF AccountedInv
  <2>2. \A r \in Slots : task'[r] \in {task[r], Idle}
    BY <1>4, Filled DEF Release
  <2> QED
    BY <1>4, <2>1, <2>2, EndAccounts
<1>5. CASE session.alive /\ Stays
  <2>1. /\ session'.alive /\ session'.dhcp = session.dhcp
        /\ session'.nat = session.nat /\ session'.server = session.server
    BY <1>2, <1>5
  <2>2. ~BringsServer(t) /\ (pending = "ReloadingUpstream" /\ session.nat
                               => ~session.server)
    BY <1>1 DEF BringsServer, AccountedInv, HandleMoves
  <2> QED
    BY <1>1, <1>5, <2>1, <2>2, ReleaseAccounts
<1>6. CASE session.alive /\ pending = "none" /\ Reloads
    BY <1>1, <1>6, BeginReloadAccounts
<1>7. CASE session.alive /\ pending = "none" /\ BeginStop(s, seen)
  <2>1. seen.alive
    BY <1>2, <1>7
  <2> QED
    BY <1>1, <1>2, <1>7, <2>1, BeginStopAccounts
<1> HIDE DEF Stays, Reloads
<1> QED
    BY <1>3, <1>4, <1>5, <1>6, <1>7

-----------------------------------------------------------------------------
(* The whole program.                                                      *)

(* Every handler; none makes a session. *)
LEMMA HandleAccounts ==
    ASSUME TypeOK, PendingInv, SoloInv, AccountedInv, Exhausted(Uncertain)',
           Exhausted(Disturbances)', SoloInv', PendingInv', NEW s \in Slots,
           Handle(s)
    PROVE  AccountedInv' /\ (session'.alive => session.alive)
<1>1. ~DiscardStale(s)
    BY HandleKeepsSolo
<1>2. CASE OnHealthCheck(s)
    BY <1>2, HealthCheckAccounts
<1>3. CASE ~OnHealthCheck(s)
  <2>1. task[s].op \notin {"none", "health"}
    BY <1>1, <1>3 DEF Handle, OnSharingStarted, OnResolverStarted,
       OnDhcpStarted, OnNatPmpStarted, OnSharingStopped, OnFirewallReloaded,
       OnUpstreamReloaded, OnWanDetected
  <2>2. session.alive
    BY <2>1, AnswersPending DEF Working
  <2> QED
    BY <1>1, <1>3, <2>2, SharingStartedAccounts, SharingStoppedAccounts,
       ChainStartedAccounts, ReloadedAccounts, WanDetectedAccounts DEF Handle
<1> QED
    BY <1>2, <1>3

(* A probe is launched; the runtime goes; the machine moves. *)
LEMMA OtherStepAccounts ==
    ASSUME TypeOK, PendingInv, SoloInv, AccountedInv, Exhausted(Uncertain)',
           SoloInv', PendingInv',
           \/ \E s \in Slots : SpawnHealthCheck(s)
           \/ EnvironmentStep \/ RuntimeDrop
    PROVE  AccountedInv' /\ session' = session
<1>1. ASSUME NEW s \in Slots, SpawnHealthCheck(s)
      PROVE  AccountedInv' /\ session' = session
  <2> DEFINE t == [Idle EXCEPT !.op = "health", !.pc = "probe",
                               !.vpn = session.upstream,
                               !.bypass = session.wan,
                               !.on = allowOn /\ session.wan]
  <2>1. t.pc = "probe" /\ ~t.nat
    BY DEF Idle
  <2>2. /\ Launch(s, t) /\ pending = "none" /\ session.alive
        /\ UNCHANGED <<pending, session, host>>
    BY <1>1 DEF SpawnHealthCheck, KeyReady, appVars
  <2> HIDE DEF t
  <2>3. Accounts(s, t)
    BY <2>1, <2>2, KnownToSession DEF Accounts
  <2> QED
    BY <2>2, <2>3, OnwardAccounts
<1>2. CASE EnvironmentStep
    BY <1>2, IdleStepAccounts DEF EnvironmentStep, NatPmpExit, DropVpn,
       FlushMain, SwapVpn, Deny, Relent, appVars
<1>3. CASE RuntimeDrop
  <2>1. /\ ~session.alive /\ session' = session /\ host \in HostState
        /\ \A s \in Slots : task[s].fw # "loaded"
    BY <1>3 DEF RuntimeDrop, SoloInv, Custody, OneWorker, PendingInv,
       TaskShape, Working, TypeOK
  <2>2. host' = [host EXCEPT !.natpmp = "off"]
    BY <1>3, <2>1 DEF RuntimeDrop
  <2>3. GivenBack(host')
    BY <2>1, <2>2 DEF AccountedInv, GivenBack, HostState, ForwardingIsBack,
       RulesAreOut, DnsmasqIsDown
  <2>4. \A s \in Slots : task'[s] \in {task[s], Idle}
    BY <1>3 DEF RuntimeDrop
  <2> QED
    BY <2>1, <2>3, <2>4, EndAccounts
<1> QED
    BY <1>1, <1>2, <1>3

(* AccountedInv is inductive, and only a start makes a session. *)
LEMMA NextKeepsAccounts ==
    ASSUME TypeOK, PendingInv, SoloInv, AccountedInv, [Next]_vars
    PROVE  /\ AccountedInv'
           /\ session'.alive => session.alive \/ host' = host
<1>1. Exhausted(Disturbances)' /\ Exhausted(Uncertain)'
    BY ExhaustedStays DEF SoloInv, AccountedInv, Disturbances, Uncertain,
       Events
<1>2. PendingInv' /\ SoloInv'
    BY NextKeeps, NextKeepsSolo
<1>3. CASE UserStep
    BY <1>1, <1>2, <1>3, UserStepAccounts
<1>4. ASSUME NEW s \in Slots, TaskStep(s)
      PROVE  AccountedInv' /\ session' = session
    BY <1>1, <1>4, TaskStepKeepsAccounts DEF TaskStep, appVars
<1>5. CASE PollStep
    BY <1>1, <1>2, <1>5, HandleAccounts, OtherStepAccounts DEF PollStep
<1>6. CASE RuntimeDrop \/ EnvironmentStep
    BY <1>1, <1>2, <1>6, OtherStepAccounts
<1>7. CASE UNCHANGED vars
    BY <1>1, <1>7, IdleStepAccounts DEF vars, appVars
<1> QED
    BY <1>3, <1>4, <1>5, <1>6, <1>7, NoLateStep DEF Next

(* The machine starts as it is found. *)
LEMMA InitAccounts ==
    ASSUME Never(Uncertain), Init
    PROVE  AccountedInv
<1>1. Exhausted(Uncertain)
    BY DEF Init, Never, Exhausted
<1>2. Idle.op = "none" /\ ~Idle.nat /\ GivenBack(host) /\ pending = "none"
    BY DEF Idle, Init, GivenBack, PristineHost, ForwardingIsBack, RulesAreOut,
       DnsmasqIsDown
<1>3. ProbesOnly /\ HandleMoves /\ DnsmasqKnown /\ NatPmpKnown
    BY <1>2 DEF Init, ProbesOnly, HandleMoves, DnsmasqKnown, NatPmpKnown,
       GivenBack
<1> QED
    BY <1>1, <1>2, <1>3 DEF AccountedInv

(* The session implements Lease, on every path on which its operations are  *)
(* left to answer and nothing it cannot account for happens: whatever fails *)
(* or times out, whatever the tunnels and the default route do, a machine   *)
(* without a session is as it was found, but for what it was told to undo   *)
(* and refused (GivenBack), and a session is the only reason for it to      *)
(* change.                                                                  *)
THEOREM SessionIsLease ==
    ASSUME Never(Disturbances), Never(Uncertain)
    PROVE  Spec => ImplementsLease
<1> DEFINE IInv == TypeOK /\ PendingInv /\ SoloInv /\ AccountedInv
           Lent == MachineLease!Acquire \/ MachineLease!Use
                     \/ MachineLease!Return
<1>1. Init => MachineLease!LeaseInit
    BY DEF Init, MachineLease!LeaseInit, NoSession, GivenBack, PristineHost,
       ForwardingIsBack, RulesAreOut, DnsmasqIsDown
<1>2. IInv /\ [Next]_vars => [Lent]_(MachineLease!leaseVars)
  <2> SUFFICES ASSUME IInv, [Next]_vars
               PROVE  [Lent]_(MachineLease!leaseVars)
    OBVIOUS
  <2>1. /\ AccountedInv' /\ TypeOK'
        /\ session'.alive => session.alive \/ host' = host
    BY NextKeepsAccounts, NextKeeps
  <2>2. session.alive \in BOOLEAN /\ session'.alive \in BOOLEAN
    BY <2>1 DEF TypeOK, SessionState
  <2>3. ~session.alive => GivenBack(host)
    BY DEF AccountedInv
  <2>4. ~session'.alive => GivenBack(host')
    BY <2>1 DEF AccountedInv
  <2>5. GivenBack(host) \in BOOLEAN /\ GivenBack(host') \in BOOLEAN
    BY DEF GivenBack, ForwardingIsBack, RulesAreOut, DnsmasqIsDown,
          TypeOK, HostState
  <2>6. CASE ~session.alive /\ ~session'.alive
    BY <2>2, <2>3, <2>4, <2>5, <2>6 DEF MachineLease!leaseVars
  <2>7. CASE ~session.alive /\ session'.alive
    BY <2>1, <2>2, <2>3, <2>7 DEF MachineLease!Acquire
  <2>8. CASE session.alive /\ session'.alive
    BY <2>2, <2>5, <2>8 DEF MachineLease!Use
  <2>9. CASE session.alive /\ ~session'.alive
    BY <2>2, <2>4, <2>5, <2>9 DEF MachineLease!Return
  <2> QED
    BY <2>6, <2>7, <2>8, <2>9
<1>3. Init => IInv
    BY InitEstablishes, InitSolo, InitAccounts
<1>4. IInv /\ [Next]_vars => IInv'
    BY NextKeeps, NextKeepsSolo, NextKeepsAccounts
<1> QED
    BY <1>1, <1>2, <1>3, <1>4, PTL
       DEF Spec, ImplementsLease, MachineLease!LeaseSpec

-----------------------------------------------------------------------------
(***************************************************************************)
(* Part 2.  The Active screen is served.                                   *)
(***************************************************************************)

(* Where a step of a task puts it.                                         *)

\* Same operation, same rules to load.
SameOrder(t, u) == t.op = u.op /\ t.bypass = u.bypass /\ t.on = u.on

(* A step inside the task ... *)
LEMMA AdvanceLands ==
    ASSUME TypeOK, NEW s \in Slots, NEW t \in TaskState, NEW h, Advance(s, t, h)
    PROVE  /\ host' = h /\ SameOrder(task'[s], t)
           /\ task'[s].ok = t.ok /\ task'[s].pc = t.pc
BY Filled DEF Advance, SameOrder

(* ... and its answer, while the App is there to hear it. *)
LEMMA AnswerLands ==
    ASSUME TypeOK, NEW s \in Slots, NEW t \in TaskState, NEW h, Answer(s, t, h),
           phase = "running"
    PROVE  /\ host' = h /\ SameOrder(task'[s], t)
           /\ task'[s].ok = t.ok /\ task'[s].pc = "sent"
<1> DEFINE n == [t EXCEPT !.pc = "sent"]
<1>1. SameOrder(n, t) /\ n.ok = t.ok /\ n.pc = "sent"
    BY DEF TaskState, SameOrder
<1>2. Launch(s, n) /\ host' = h
    BY DEF Answer
<1> HIDE DEF n
<1> QED
    BY <1>1, <1>2, Filled

\* What a step of an operation other than a start and a stop leaves standing,
\* and what the task has achieved once it is made.
TaskServes(s) ==
    /\ StartProgress(task[s])' /\ ReloadProgress(task[s])'
    /\ task[s].op \notin {"start", "stop"} =>
         /\ host.body # None => host'.body # None
         /\ host.hooks => host'.hooks
         /\ host.forwarding => host'.forwarding
         /\ allowOn /\ host.bypass => host'.bypass
         /\ host.dnsmasq => host'.dnsmasq \/ task[s].op = "dhcp"

(* An operation that fails or times out has achieved nothing. *)
LEMMA FailureServes ==
    ASSUME TypeOK, ServedInv, NEW s \in Slots, UNCHANGED <<session, allowOn>>,
           phase = "running", NEW t \in TaskState, NEW h \in HostState,
           Answer(s, t, h), SameOrder(t, task[s]), ~t.ok,
           \/ task[s].op = "start"
           \/ /\ h = host
              /\ task[s].op \notin {"dhcp"}
    PROVE  TaskServes(s)
<1>1. /\ host' = h /\ SameOrder(task'[s], task[s]) /\ ~task'[s].ok
      /\ task'[s].pc = "sent"
    BY AnswerLands DEF SameOrder
<1>2. StartProgress(task[s]) /\ ReloadProgress(task[s])
    BY DEF ServedInv
<1>3. StartProgress(task[s])'
    BY <1>1, <1>2 DEF StartProgress, SameOrder
<1>4. ReloadProgress(task[s])'
    BY <1>1, <1>2 DEF ReloadProgress, SameOrder
<1> QED
    BY <1>1, <1>3, <1>4 DEF TaskServes

(* A stop serves nobody, and need not. *)
LEMMA StopServes ==
    ASSUME NEW s \in Slots, task[s].op = "stop", task'[s].op = "stop"
    PROVE  TaskServes(s)
BY DEF TaskServes, StartProgress, ReloadProgress

(* Every step of an operation that is not a stop. *)
LEMMA WorkServes ==
    ASSUME TypeOK, PendingInv, SoloInv, ServedInv, NEW s \in Slots,
           TaskStep(s), Working(task[s]), task[s].op # "stop",
           phase = "running"
    PROVE  TaskServes(s)
<1> DEFINE t == task[s]
<1>1. /\ t \in TaskState /\ TaskShape(t) /\ host \in HostState
      /\ t.op \notin {"none", "health", "stop"}
      /\ StartProgress(t) /\ ReloadProgress(t)
    BY DEF TypeOK, SoloInv, Working, ServedInv
<1>2. ~LingerStep(s) /\ UNCHANGED <<session, allowOn>>
    BY NotSpent DEF LingerStep, SoloInv, Disturbances, TaskStep, appVars
<1>3. ASSUME AnswerError(s), t.op # "dhcp" PROVE TaskServes(s)
  <2> DEFINE n == [t EXCEPT !.fwd = "unset"]
             m == [t EXCEPT !.ok = t.op = "health"]
             h == RestoreForwarding(host, t.fwd)
  <2>1. /\ n \in TaskState /\ SameOrder(n, t) /\ n.ok = t.ok
        /\ m \in TaskState /\ SameOrder(m, t) /\ ~m.ok
    BY <1>1 DEF TaskState, SavedForwarding, SameOrder
  <2>2. h \in HostState
    BY <1>1, HostTypes DEF TaskState, FirewallManager
  <2>3. \/ t.op = "start" /\ Answer(s, n, h)
        \/ t.op # "start" /\ Answer(s, m, host)
    BY <1>3 DEF AnswerError
  <2>4. t.op = "start" => ~t.ok
    <3>1. t.op = "start" => t.pc # "sent" /\ t.pc # "serve"
      BY <1>1, StepUnanswered DEF TaskShape, Placed
    <3> QED
      BY <1>1, <3>1 DEF TaskShape
  <2> HIDE DEF n, m, h
  <2> QED
    BY <1>1, <1>2, <1>3, <2>1, <2>2, <2>3, <2>4, FailureServes
<1>4. CASE EnableForwardingStep(s)
  <2> DEFINE n == [t EXCEPT !.pc = "detect", !.fwd = Remember(host, @)]
             h == EnableForwarding(host)
  <2>1. t.op = "start" /\ t.pc = "enable"
    BY <1>1, <1>4, PcTells DEF EnableForwardingStep
  <2>2. n \in TaskState /\ SameOrder(n, t) /\ ~n.ok /\ n.pc = "detect"
    BY <1>1, <2>1 DEF TaskState, SavedForwarding, Remember, SameOrder,
       TaskShape
  <2>3. h.forwarding
    BY <1>1 DEF EnableForwarding, HostState
  <2>4. \/ Advance(s, n, h)
        \/ \E saved \in {t.fwd, Remember(host, t.fwd)} :
             Answer(s, [t EXCEPT !.fwd = saved], host)
    BY <1>4, Zenon DEF EnableForwardingStep
  <2> HIDE DEF n, h
  <2>5. CASE Advance(s, n, h)
    <3>1. /\ host' = h /\ SameOrder(task'[s], t) /\ ~task'[s].ok
          /\ task'[s].pc = "detect"
      BY <2>2, <2>5, AdvanceLands DEF SameOrder
    <3> QED
      BY <1>1, <1>2, <2>1, <2>3, <3>1 DEF TaskServes, StartProgress,
         ReloadProgress, SameOrder
  <2>6. ASSUME NEW saved \in {t.fwd, Remember(host, t.fwd)},
               Answer(s, [t EXCEPT !.fwd = saved], host)
        PROVE  TaskServes(s)
    <3> DEFINE m == [t EXCEPT !.fwd = saved]
    <3>1. m \in TaskState /\ SameOrder(m, t) /\ ~m.ok
      BY <1>1, <2>1 DEF TaskState, SavedForwarding, Remember, SameOrder,
         TaskShape
    <3>2. Answer(s, m, host)
      BY <2>6
    <3> HIDE DEF m
    <3> QED
      BY <1>1, <1>2, <2>1, <3>1, <3>2, FailureServes
  <2> QED
    BY <2>4, <2>5, <2>6
<1>5. CASE DetectStep(s)
  <2> DEFINE n == [t EXCEPT !.pc = "body"]
  <2>1. t.pc = "detect" /\ t.op \in {"start", "upstream"} /\ ~t.ok
    BY <1>1, <1>5, PcTells DEF DetectStep, TaskShape
  <2>2. n \in TaskState /\ SameOrder(n, t) /\ ~n.ok /\ n.pc = "body"
    BY <1>1, <2>1 DEF TaskState, Writes, SameOrder
  <2>3. Advance(s, n, host) \/ AnswerError(s)
    BY <1>5 DEF DetectStep
  <2> HIDE DEF n
  <2>4. CASE Advance(s, n, host)
    <3>1. /\ host' = host /\ SameOrder(task'[s], t) /\ ~task'[s].ok
          /\ task'[s].pc = "body"
      BY <2>2, <2>4, AdvanceLands DEF SameOrder
    <3> QED
      BY <1>1, <1>2, <2>1, <3>1 DEF TaskServes, StartProgress,
         ReloadProgress, SameOrder
  <2> QED
    BY <1>3, <2>1, <2>3, <2>4
<1>6. CASE LoadBodyStep(s)
  <2> DEFINE n == [t EXCEPT !.pc = "hooks"]
             h == LoadBody(host, t.vpn, t.bypass)
  <2>1. /\ t.pc = "body" /\ t.op \in {"start", "upstream", "firewall"}
        /\ ~t.ok /\ t.vpn \in Utuns
    BY <1>1, <1>6, PcTells DEF LoadBodyStep, TaskShape
  <2>2. n \in TaskState /\ SameOrder(n, t) /\ ~n.ok /\ n.pc = "hooks"
    BY <1>1, <2>1 DEF TaskState, Writes, SameOrder
  <2>3. /\ h.body # None /\ h.bypass = t.bypass
        /\ h.forwarding = host.forwarding /\ h.hooks = host.hooks
        /\ h.dnsmasq = host.dnsmasq
    BY <1>1, <2>1, HostAssumption DEF LoadBody, HostState
  <2>4. Advance(s, n, h) \/ AnswerError(s)
    BY <1>6 DEF LoadBodyStep
  <2>5. /\ t.op = "firewall" => ~allowOn /\ t.bypass = t.on
        /\ t.op = "upstream" => (allowOn => t.bypass)
    <3>1. t.op = "firewall" => session.alive /\ pending = "ReloadingFirewall"
      BY AnswersPending DEF Working
    <3> QED
      BY <1>1, <3>1 DEF ServedInv, SessionProgress, ReloadProgress
  <2> HIDE DEF n, h
  <2>6. CASE Advance(s, n, h)
    <3>1. /\ host' = h /\ SameOrder(task'[s], t) /\ ~task'[s].ok
          /\ task'[s].pc = "hooks"
      BY <2>2, <2>6, AdvanceLands DEF SameOrder
    <3>2. StartProgress(task[s])'
      BY <1>1, <1>2, <2>1, <2>3, <3>1 DEF StartProgress, SameOrder
    <3>3. ReloadProgress(task[s])'
      BY <1>1, <1>2, <2>1, <2>3, <2>5, <3>1 DEF ReloadProgress, SameOrder
    <3> QED
      BY <2>1, <2>3, <2>5, <3>1, <3>2, <3>3 DEF TaskServes
  <2> QED
    BY <1>3, <2>1, <2>4, <2>6
<1>7. CASE MergeMainStep(s)
  <2> DEFINE done == [t EXCEPT !.fw = IF t.op = "health" THEN @ ELSE "loaded",
                               !.ok = TRUE]
             n == [done EXCEPT !.pc = "serve"]
             h == MergeMain(host)
  <2>1. t.pc = "hooks" /\ t.op \in {"start", "upstream", "firewall"}
    BY <1>1, <1>7, PcTells DEF MergeMainStep
  <2>2. done \in TaskState /\ SameOrder(done, t) /\ done.nat = t.nat
    BY <1>1 DEF TaskState, FirewallManager, SameOrder
  <2>3. n \in TaskState /\ SameOrder(n, t) /\ n.pc = "serve"
    <3> HIDE DEF done
    <3> QED
      BY <2>2 DEF TaskState, SameOrder
  <2>4. /\ h.hooks /\ h.body = host.body /\ h.bypass = host.bypass
        /\ h.forwarding = host.forwarding /\ h.dnsmasq = host.dnsmasq
    BY <1>1 DEF MergeMain, HostState
  <2>5. \/ t.nat /\ Advance(s, n, h)
        \/ Answer(s, done, h)
        \/ AnswerError(s)
    BY <1>7 DEF MergeMainStep
  <2> HIDE DEF done, n, h
  <2>6. ASSUME host' = h, SameOrder(task'[s], t),
               task'[s].pc \in {"serve", "sent"}
        PROVE  TaskServes(s)
    <3>1. StartProgress(task[s])'
      BY <1>1, <1>2, <2>1, <2>4, <2>6 DEF StartProgress, RulesStand, SameOrder
    <3>2. ReloadProgress(task[s])'
      BY <1>1, <1>2, <2>1, <2>4, <2>6 DEF ReloadProgress, SameOrder
    <3> QED
      BY <2>4, <2>6, <3>1, <3>2 DEF TaskServes
  <2>7. CASE Advance(s, n, h)
    BY <2>3, <2>6, <2>7, AdvanceLands DEF SameOrder
  <2>8. CASE Answer(s, done, h)
    BY <2>2, <2>6, <2>8, AnswerLands DEF SameOrder
  <2> QED
    BY <1>3, <2>1, <2>5, <2>7, <2>8
<1>8. CASE ServeStep(s)
  <2>1. PICK bound \in BOOLEAN :
          Answer(s, [t EXCEPT !.server = bound,
                              !.ok = IF t.op = "natpmp" THEN bound ELSE @],
                 IF bound THEN BindNatPmp(host) ELSE host)
    BY <1>8 DEF ServeStep, CanBindNatPmp
  <2> DEFINE n == [t EXCEPT !.server = bound,
                            !.ok = IF t.op = "natpmp" THEN bound ELSE @]
             h == IF bound THEN BindNatPmp(host) ELSE host
  <2>2. n \in TaskState /\ SameOrder(n, t)
    BY <1>1 DEF TaskState, SameOrder
  <2>3. t.op \in {"upstream", "natpmp"}
    BY <1>1, <1>8, PcTells DEF ServeStep
  <2>4. /\ h.hooks = host.hooks /\ h.body = host.body
        /\ h.bypass = host.bypass /\ h.forwarding = host.forwarding
        /\ h.dnsmasq = host.dnsmasq
    BY <1>1 DEF BindNatPmp, HostState
  <2> HIDE DEF n, h
  <2>5. Answer(s, n, h)
    BY <2>1 DEF n, h
  <2>6. host' = h /\ SameOrder(task'[s], t) /\ task'[s].pc = "sent"
    BY <2>2, <2>5, AnswerLands DEF SameOrder
  <2> QED
    BY <1>1, <1>2, <2>3, <2>4, <2>6 DEF TaskServes, StartProgress,
       ReloadProgress, SameOrder
<1>9. CASE WorkStep(s)
  <2> DEFINE n == [t EXCEPT !.ok = TRUE]
  <2>1. t.op \in {"resolver", "wan"}
    BY <1>9 DEF WorkStep
  <2>2. n \in TaskState /\ SameOrder(n, t)
    BY <1>1 DEF TaskState, SameOrder
  <2>3. Answer(s, n, host) \/ AnswerError(s)
    BY <1>9 DEF WorkStep
  <2> HIDE DEF n
  <2>4. CASE Answer(s, n, host)
    <3>1. host' = host /\ task'[s].op = t.op
      BY <2>2, <2>4, AnswerLands DEF SameOrder
    <3> QED
      BY <2>1, <3>1 DEF TaskServes, StartProgress, ReloadProgress
  <2> QED
    BY <1>3, <2>1, <2>3, <2>4
<1>10. CASE DhcpStep(s)
  <2> DEFINE n == [t EXCEPT !.ok = TRUE]
  <2>1. t.pc = "work" /\ t.op = "dhcp" /\ ~t.ok
    BY <1>1, <1>10 DEF DhcpStep, TaskShape
  <2>2. n \in TaskState /\ n.op = t.op
    BY <1>1 DEF TaskState
  <2>3. /\ \A h \in {StartDnsmasq(host), StopDnsmasq(host)} :
             /\ h.hooks = host.hooks /\ h.body = host.body
             /\ h.bypass = host.bypass /\ h.forwarding = host.forwarding
        /\ StartDnsmasq(host).dnsmasq
    BY <1>1, EffectsLeave, EffectsLeaveForwarding DEF SameForwarding
  <2>4. \/ Answer(s, n, StartDnsmasq(host))
        \/ \E h \in {StartDnsmasq(host), StopDnsmasq(host)} : Answer(s, t, h)
    BY <1>10 DEF DhcpStep
  <2>5. CASE Answer(s, n, StartDnsmasq(host))
    <3>1. task'[s].op = "dhcp" /\ host' = StartDnsmasq(host)
      BY <2>1, <2>2, <2>5, AnswerLands DEF SameOrder
    <3>2. host'.dnsmasq
      BY <2>3, <3>1
    <3>3. StartProgress(task[s])' /\ ReloadProgress(task[s])'
      BY <3>1, <3>2 DEF StartProgress, ReloadProgress
    <3> QED
      BY <2>1, <2>3, <3>1, <3>3 DEF TaskServes
  <2>6. ASSUME NEW h \in {StartDnsmasq(host), StopDnsmasq(host)},
               Answer(s, t, h)
        PROVE  TaskServes(s)
    <3>1. /\ task'[s].op = "dhcp" /\ host' = h
          /\ ~task'[s].ok
      BY <1>1, <2>1, <2>6, AnswerLands DEF SameOrder
    <3>2. StartProgress(task[s])' /\ ReloadProgress(task[s])'
      BY <3>1 DEF StartProgress, ReloadProgress
    <3> QED
      BY <2>1, <2>3, <2>6, <3>1, <3>2 DEF TaskServes
  <2> QED
    BY <2>4, <2>5, <2>6
<1>11. CASE TimeoutStep(s)
  <2> DEFINE n == TimedOut(t)
  <2>1. t.op \in {"start", "upstream", "firewall"}
    BY <1>1, <1>11 DEF TimeoutStep, TimeLimited
  <2>2. n \in TaskState /\ SameOrder(n, t) /\ ~n.ok
    BY <1>1, <2>1 DEF TaskState, TimedOut, SameOrder
  <2>3. Answer(s, n, host)
    BY <1>11 DEF TimeoutStep
  <2> HIDE DEF n
  <2> QED
    BY <1>1, <1>2, <2>1, <2>2, <2>3, FailureServes
<1>12. ~ProbeStep(s) /\ ~StopDnsmasqStep(s) /\ ~CleanupStep(s)
       /\ ~RestoreStep(s)
    BY <1>1, PcTells DEF ProbeStep, StopDnsmasqStep, CleanupStep, RestoreStep
<1> QED
    BY <1>2, <1>4, <1>5, <1>6, <1>7, <1>8, <1>9, <1>10, <1>11, <1>12
       DEF TaskStep

(* ServedInv is kept by every task. *)
LEMMA TaskStepKeepsServed ==
    ASSUME TypeOK, PendingInv, SoloInv, ServedInv, Exhausted(Upheavals)',
           NEW s \in Slots, TaskStep(s)
    PROVE  ServedInv'
<1>1. /\ TaskMove(s)
      /\ UNCHANGED <<phase, pending, session, allowOn, screen>>
    BY TaskStepKeepsSolo DEF TaskStep, appVars
<1>2. \A r \in Slots : r # s => task'[r] = task[r]
    BY <1>1 DEF TaskMove
<1>3. CASE task[s].op = "health"
  <2>1. ~Spend("heal")
    BY NotSpent DEF ServedInv, Upheavals
  <2>2. /\ host' = host
        /\ \/ task'[s].op = "health" /\ task'[s].pc = "sent"
           \/ task'[s].op = "none"
    BY <1>3, <2>1, ProbeLooks DEF ServedInv
  <2>3. ProbesOnly'
    BY <1>2, <2>2 DEF ServedInv, ProbesOnly
  <2>4. \A r \in Slots : StartProgress(task[r])' /\ ReloadProgress(task[r])'
    BY <1>1, <1>2, <2>2 DEF ServedInv, StartProgress, ReloadProgress,
       RulesStand
  <2>5. SessionProgress'
    BY <1>1, <2>2 DEF ServedInv, SessionProgress, RulesStand
  <2> QED
    BY <2>3, <2>4, <2>5 DEF ServedInv
<1>4. CASE task[s].op # "health"
  <2>1. Working(task[s])
    BY <1>4, StepUnanswered DEF Working
  <2>2. /\ phase = "running" /\ session.alive /\ Alone(s)
        /\ task'[s].op = task[s].op
    BY <1>1, <2>1, AnswersPending DEF SoloInv, Custody, TaskMove
  <2>3. TaskServes(s)
    BY <2>1, <2>2, StopServes, WorkServes
  <2>4. \A r \in Slots : r # s => ~Working(task[r])
    BY <2>1 DEF SoloInv, OneWorker
  <2>5. ProbesOnly'
    BY <1>2, <1>4, <2>2 DEF ServedInv, ProbesOnly
  <2>6. \A r \in Slots : StartProgress(task[r])' /\ ReloadProgress(task[r])'
    BY <1>2, <2>3, <2>4 DEF TaskServes, StartProgress, ReloadProgress, Working
  <2>7. SessionProgress'
    <3>1. pending \notin {"StartingSharing", "StoppingSharing"}
            => task[s].op \notin {"start", "stop"}
      BY AnswersPending
    <3>2. task[s].op = "dhcp" => pending = "StartingDhcp"
      BY AnswersPending
    <3> QED
      BY <1>1, <2>3, <3>1, <3>2 DEF ServedInv, TaskServes, SessionProgress,
         RulesStand
  <2> QED
    BY <2>5, <2>6, <2>7 DEF ServedInv
<1> QED
    BY <1>3, <1>4

-----------------------------------------------------------------------------
(* Steps of the App.                                                       *)

(* Whatever takes the slot of the last worker, the others are probes. *)
LEMMA FilledServes ==
    ASSUME TypeOK, SoloInv, ServedInv, Exhausted(Upheavals)', NEW s \in Slots,
           NEW t, Launch(s, t), Alone(s),
           t.op # "health" \/ t.pc \in {"probe", "sent"},
           StartProgress(task[s])', ReloadProgress(task[s])', SessionProgress'
    PROVE  ServedInv'
<1>1. /\ task'[s] = t
      /\ \A r \in Slots : r # s => task'[r] = task[r] /\ ~Working(task[r])
    BY Filled DEF SoloInv, OneWorker, Alone
<1>2. ProbesOnly'
    BY <1>1 DEF ServedInv, ProbesOnly
<1>3. \A r \in Slots : StartProgress(task[r])' /\ ReloadProgress(task[r])'
    BY <1>1 DEF StartProgress, ReloadProgress, Working
<1> QED
    BY <1>2, <1>3 DEF ServedInv

(* When a session is over, or is to be, nothing more is served. *)
LEMMA EndServes ==
    ASSUME SoloInv', PendingInv', ServedInv, Exhausted(Upheavals)',
           \A r \in Slots : task'[r] \in {task[r], Idle},
           ~session'.alive, phase' # "running" \/ screen' # "Active"
    PROVE  ServedInv'
<1>1. pending' = "none"
    BY DEF PendingInv, PendingHasTask
<1>2. \A r \in Slots : ~Working(task'[r])
    BY <1>1 DEF SoloInv, OneWorker
<1>3. ProbesOnly'
    BY DEF ServedInv, ProbesOnly, Idle
<1>4. \A r \in Slots : StartProgress(task[r])' /\ ReloadProgress(task[r])'
    BY <1>2 DEF StartProgress, ReloadProgress, Working
<1>5. SessionProgress'
    BY <1>1 DEF SessionProgress
<1> QED
    BY <1>3, <1>4, <1>5 DEF ServedInv

(* A stop serves nobody any more. *)
LEMMA BeginStopServes ==
    ASSUME TypeOK, SoloInv, ServedInv, Exhausted(Upheavals)',
           NEW s \in Slots, NEW sess \in SessionState, BeginStop(s, sess),
           session.alive, sess.alive, pending = "none"
    PROVE  ServedInv'
<1> DEFINE t == [Idle EXCEPT !.op = "stop", !.pc = "dnsmasq",
                             !.dhcp = sess.dhcp, !.fw = TakenFw(sess),
                             !.fwd = TakenFwd(sess)]
<1>1. t.op = "stop"
    BY DEF Idle
<1>2. Launch(s, t) /\ pending' = "StoppingSharing"
    BY DEF BeginStop
<1> HIDE DEF t
<1>3. session'.alive
    BY DEF BeginStop, SessionState
<1>4. StartProgress(task[s])' /\ ReloadProgress(task[s])'
    BY <1>1, <1>2, Filled DEF StartProgress, ReloadProgress
<1>5. SessionProgress'
    BY <1>2, <1>3 DEF SessionProgress
<1> QED
    BY <1>1, <1>2, <1>4, <1>5, FilledServes DEF Alone

\* What a session shows on screen and stands on is what it was.
KeepsServing ==
    /\ session'.alive /\ session'.dns = session.dns
    /\ session'.dhcp = session.dhcp /\ (session.wan => session'.wan)
    /\ host'.body = host.body /\ host'.hooks = host.hooks
    /\ host'.forwarding = host.forwarding /\ host'.bypass = host.bypass
    /\ host'.dnsmasq = host.dnsmasq

(* A session at rest, or with a reload to come, has everything in place. *)
LEMMA ServingAfter ==
    ASSUME ServedInv, session.alive, KeepsServing,
           pending \notin StartChain \cup {"StoppingSharing"},
           pending' \notin StartChain,
           allowOn' => allowOn,
           pending' \in {"DetectingWan", "ReloadingFirewall"} => ~allowOn'
    PROVE  SessionProgress'
BY DEF ServedInv, SessionProgress, KeepsServing, RulesStand, StartChain

(* A reload of the firewall that is begun knows where to load the bypass. *)
LEMMA BeginReloadServes ==
    ASSUME TypeOK, SoloInv, ServedInv, Exhausted(Upheavals)',
           NEW s \in Slots, NEW sess \in SessionState,
           \/ /\ host' = host /\ ~allowOn'
              /\ sess.dns = session.dns /\ sess.dhcp = session.dhcp
              /\ session.wan => sess.wan
              /\ \E on \in BOOLEAN : /\ on => sess.wan
                                     /\ BeginReloadFirewall(s, sess, on)
           \/ /\ sess = session /\ allowOn' = allowOn
              /\ \E new \in Utuns : BeginReloadUpstream(s, new),
           allowOn' => allowOn, session.alive, sess.alive,
           pending \in {"none", "DetectingWan"}, Alone(s)
    PROVE  ServedInv'
<1> DEFINE kept == WithPlaceholder(sess)
<1>1. /\ kept \in SessionState /\ kept.alive /\ kept.dns = sess.dns
      /\ kept.dhcp = sess.dhcp /\ kept.wan = sess.wan
    BY DEF WithPlaceholder, SessionState, TakenFwd, FirewallManager,
       SavedForwarding
<1>2. ASSUME NEW on \in BOOLEAN, BeginReloadFirewall(s, sess, on),
             host' = host, ~allowOn', on => sess.wan,
             sess.dns = session.dns, sess.dhcp = session.dhcp,
             session.wan => sess.wan
      PROVE  ServedInv'
  <2> DEFINE t == [Idle EXCEPT !.op = "firewall", !.pc = "body",
                               !.fw = TakenFw(sess), !.vpn = sess.upstream,
                               !.bypass = on, !.on = on]
  <2>1. /\ t.op = "firewall" /\ t.pc = "body" /\ t.bypass = on /\ t.on = on
        /\ ~t.ok
    BY DEF Idle
  <2>2. /\ Launch(s, t) /\ pending' = "ReloadingFirewall"
        /\ session' = kept
    BY <1>2 DEF BeginReloadFirewall
  <2> HIDE DEF t, kept
  <2>3. task'[s] = t
    BY <2>2, Filled
  <2>4. StartProgress(task[s])'
    BY <2>1, <2>3 DEF StartProgress
  <2>5. ReloadProgress(task[s])'
    BY <1>1, <1>2, <2>1, <2>2, <2>3 DEF ReloadProgress
  <2>6. KeepsServing
    BY <1>1, <1>2, <2>2 DEF KeepsServing
  <2>7. SessionProgress'
    BY <1>2, <2>2, <2>6, ServingAfter DEF StartChain
  <2> QED
    BY <2>1, <2>2, <2>4, <2>5, <2>7, FilledServes
<1>3. ASSUME NEW new \in Utuns, BeginReloadUpstream(s, new), sess = session,
             allowOn' = allowOn
      PROVE  ServedInv'
  <2> DEFINE t == [Idle EXCEPT !.op = "upstream", !.pc = "detect",
                               !.fw = TakenFw(session), !.vpn = new,
                               !.bypass = session.wan, !.nat = session.nat]
  <2>1. /\ t.op = "upstream" /\ t.pc = "detect" /\ t.bypass = session.wan
        /\ ~t.ok
    BY DEF Idle
  <2>2. /\ Launch(s, t) /\ pending' = "ReloadingUpstream"
        /\ session' = [kept EXCEPT !.server = IF session.nat THEN FALSE ELSE @]
    BY <1>3 DEF BeginReloadUpstream
  <2>3. /\ host'.body = host.body /\ host'.hooks = host.hooks
        /\ host'.forwarding = host.forwarding /\ host'.bypass = host.bypass
        /\ host'.dnsmasq = host.dnsmasq
    BY <1>3 DEF BeginReloadUpstream, SignalNatPmp, TypeOK, HostState
  <2> HIDE DEF t, kept
  <2>4. /\ session'.alive /\ session'.dns = session.dns
        /\ session'.dhcp = session.dhcp /\ session'.wan = session.wan
    BY <1>1, <1>3, <2>2 DEF SessionState
  <2>5. task'[s] = t
    BY <2>2, Filled
  <2>6. StartProgress(task[s])'
    BY <2>1, <2>5 DEF StartProgress
  <2>7. ReloadProgress(task[s])'
    <3>1. allowOn => session.wan
      BY DEF ServedInv, SessionProgress
    <3> QED
      BY <1>3, <2>1, <2>5, <3>1 DEF ReloadProgress
  <2>8. KeepsServing
    BY <2>3, <2>4 DEF KeepsServing
  <2>9. SessionProgress'
    BY <1>3, <2>2, <2>8, ServingAfter DEF StartChain
  <2> QED
    BY <2>1, <2>2, <2>6, <2>7, <2>9, FilledServes
<1> QED
    BY <1>2, <1>3

(* What starts nothing and leaves the machine alone. *)
LEMMA IdleStepServes ==
    ASSUME TypeOK, ServedInv, Exhausted(Upheavals)',
           UNCHANGED <<phase, pending, session, task>>,
           \/ host' = host \/ NatPmpExit \/ Relent
           \/ \E what \in Undoable : Deny(what),
           \/ allowOn' = allowOn
           \/ ~session.alive /\ pending = "none"
                /\ \A r \in Slots : ~Working(task[r]),
           screen' = "Active" => screen = "Active" \/ session.alive
    PROVE  ServedInv'
<1>1. /\ host'.body = host.body /\ host'.hooks = host.hooks
      /\ host'.forwarding = host.forwarding /\ host'.bypass = host.bypass
      /\ host'.dnsmasq = host.dnsmasq
    BY DEF NatPmpExit, Relent, Deny, TypeOK, HostState
<1>2. ProbesOnly'
    BY DEF ServedInv, ProbesOnly
<1>3. \A r \in Slots : StartProgress(task[r])' /\ ReloadProgress(task[r])'
    BY <1>1 DEF ServedInv, StartProgress, ReloadProgress, RulesStand, Working
<1>4. SessionProgress'
    BY <1>1 DEF ServedInv, SessionProgress, RulesStand
<1> QED
    BY <1>2, <1>3, <1>4 DEF ServedInv

(* The program that leaves serves nobody. *)
LEMMA ExitServes ==
    ASSUME TypeOK, ServedInv, Exhausted(Upheavals)', SoloInv', PendingInv',
           BeginExit
    PROVE  ServedInv'
<1>1. /\ \A r \in Slots : task'[r] \in {task[r], Idle}
      /\ ~session'.alive /\ phase' # "running"
    BY DEF BeginExit, TypeOK, NoSession
<1> QED
    BY <1>1, EndServes

-----------------------------------------------------------------------------
(* Keys and results.                                                       *)

(* A start will load what the switch says. *)
LEMMA StartServes ==
    ASSUME TypeOK, SoloInv, ServedInv, Exhausted(Upheavals)',
           NEW s \in Slots, NEW vpn, StartSharing(s, vpn)
    PROVE  ServedInv'
<1> DEFINE t == [Idle EXCEPT !.op = "start", !.pc = "enable", !.vpn = vpn,
                             !.bypass = allowOn]
<1>1. t.op = "start" /\ t.pc = "enable" /\ t.bypass = allowOn /\ ~t.ok
    BY DEF Idle
<1>2. /\ Launch(s, t) /\ pending' = "StartingSharing" /\ pending = "none"
      /\ session'.alive /\ ~session'.dhcp /\ allowOn' = allowOn
    BY DEF StartSharing, KeyReady, NoSession
<1> HIDE DEF t
<1>3. task'[s] = t
    BY <1>2, Filled
<1>4. StartProgress(task[s])' /\ ReloadProgress(task[s])'
    BY <1>1, <1>2, <1>3 DEF StartProgress, ReloadProgress
<1>5. SessionProgress'
    BY <1>2 DEF SessionProgress
<1> QED
    BY <1>1, <1>2, <1>4, <1>5, FilledServes DEF Alone

(* The switch: nothing is shown as on before it is loaded. *)
LEMMA ToggleServes ==
    ASSUME TypeOK, PendingInv, SoloInv, ServedInv, Exhausted(Upheavals)',
           NEW s \in Slots, ToggleBypass(s)
    PROVE  ServedInv'
<1>1. /\ pending = "none" /\ phase' = phase /\ screen' = screen /\ Alone(s)
      /\ host' = host /\ session \in SessionState
    BY DEF ToggleBypass, KeyReady, TypeOK, Alone
<1>2. CASE ~session.alive /\ UNCHANGED <<pending, session, task>>
  <2>1. \A r \in Slots : ~Working(task[r])
    BY <1>1 DEF SoloInv, OneWorker
  <2> QED
    BY <1>1, <1>2, <2>1, IdleStepServes
<1>3. CASE session.alive /\ allowOn' = FALSE
             /\ BeginReloadFirewall(s, session, FALSE)
  <2>1. \E on \in BOOLEAN : /\ on => session.wan
                            /\ BeginReloadFirewall(s, session, on)
    BY <1>3
  <2> QED
    BY <1>1, <1>3, <2>1, BeginReloadServes
<1>4. CASE session.alive /\ ~allowOn /\ session.wan /\ allowOn' = allowOn
             /\ BeginReloadFirewall(s, session, TRUE)
  <2>1. \E on \in BOOLEAN : /\ on => session.wan
                            /\ BeginReloadFirewall(s, session, on)
    BY <1>4
  <2> QED
    BY <1>1, <1>4, <2>1, BeginReloadServes
<1>5. CASE /\ session.alive /\ ~allowOn /\ allowOn' = allowOn
           /\ pending' = "DetectingWan" /\ session' = session
           /\ Launch(s, [Idle EXCEPT !.op = "wan", !.pc = "work"])
  <2> DEFINE t == [Idle EXCEPT !.op = "wan", !.pc = "work"]
  <2>1. t.op = "wan" /\ Launch(s, t)
    BY <1>5 DEF Idle
  <2> HIDE DEF t
  <2>2. task'[s] = t
    BY <2>1, Filled
  <2>3. StartProgress(task[s])' /\ ReloadProgress(task[s])'
    BY <2>1, <2>2 DEF StartProgress, ReloadProgress
  <2>4. KeepsServing
    BY <1>1, <1>5 DEF KeepsServing
  <2>5. SessionProgress'
    BY <1>1, <1>5, <2>4, ServingAfter DEF StartChain
  <2> QED
    BY <1>1, <2>1, <2>3, <2>5, FilledServes
<1> QED
    BY <1>2, <1>3, <1>4, <1>5 DEF ToggleBypass

(* Every key. *)
LEMMA UserStepServes ==
    ASSUME TypeOK, PendingInv, SoloInv, ServedInv, Exhausted(Upheavals)',
           SoloInv', PendingInv', UserStep
    PROVE  ServedInv'
<1>1. session \in SessionState /\ Free \subseteq Slots
    BY DEF TypeOK, Free
<1>2. ~Cancel /\ ~Interrupt
    BY NotSpent DEF SoloInv, Cancel, Interrupt, Disturbances
<1>3. CASE OpenPicker \/ Navigate
    BY <1>3, IdleStepServes DEF OpenPicker, Navigate
<1>4. CASE KeyAfterQuit
    BY <1>4, ExitServes DEF KeyAfterQuit
<1>5. ASSUME NEW s \in Slots, StopSharing(s) PROVE ServedInv'
    BY <1>1, <1>5, BeginStopServes DEF StopSharing, KeyReady
<1>6. ASSUME NEW s \in Slots, Quit(s) PROVE ServedInv'
  <2>1. CASE pending # "none"
    BY <1>6, <2>1, IdleStepServes DEF Quit
  <2>2. CASE pending = "none" /\ session.alive
    BY <1>1, <1>6, <2>2, BeginStopServes DEF Quit
  <2>3. CASE pending = "none" /\ ~session.alive
    BY <1>6, <2>3, ExitServes DEF Quit
  <2> QED
    BY <2>1, <2>2, <2>3
<1> QED
    BY <1>1, <1>2, <1>3, <1>4, <1>5, <1>6, StartServes, ToggleServes
       DEF UserStep

(* The end of a start: what it loaded is what the session stands on. *)
LEMMA SharingStartedServes ==
    ASSUME TypeOK, PendingInv, SoloInv, ServedInv, Exhausted(Upheavals)',
           SoloInv', PendingInv', NEW s \in Slots, OnSharingStarted(s)
    PROVE  ServedInv'
<1> DEFINE t == task[s]
           kept == GiveBack(t)
<1>1. /\ t \in TaskState /\ t.op = "start" /\ pending = "StartingSharing"
      /\ session.alive /\ Alone(s)
    BY AnswersPending DEF OnSharingStarted, TypeOK, Working
<1>2. HostAfterGiveBack(t) = host
  <2>1. session.fw = "taken"
    BY <1>1 DEF SoloInv, Custody
  <2> QED
    BY <1>1, <2>1, GiveBackFields
<1>3. kept \in SessionState /\ kept.alive /\ kept.dhcp = session.dhcp
    BY <1>1, GiveBackFields
<1>4. CASE /\ session' = [kept EXCEPT !.upstream = t.vpn, !.wan = t.bypass]
           /\ pending' = "StartingResolver" /\ host' = host /\ t.ok
           /\ Launch(s, [Idle EXCEPT !.op = "resolver", !.pc = "work"])
           /\ allowOn' = allowOn
  <2> DEFINE n == [Idle EXCEPT !.op = "resolver", !.pc = "work"]
  <2>1. n.op = "resolver" /\ Launch(s, n)
    BY <1>4 DEF Idle
  <2> HIDE DEF n, kept
  <2>2. /\ session'.alive /\ session'.wan = t.bypass
        /\ session'.dhcp = session.dhcp
    BY <1>1, <1>3, <1>4 DEF SessionState, TaskState
  <2>3. task'[s] = n
    BY <2>1, Filled
  <2>4. StartProgress(task[s])' /\ ReloadProgress(task[s])'
    BY <2>1, <2>3 DEF StartProgress, ReloadProgress
  <2>5. /\ t.bypass = allowOn /\ RulesStand(t.bypass) /\ ~session.dhcp
    BY <1>1, <1>4 DEF ServedInv, StartProgress, SessionProgress
  <2>6. pending' = "StartingResolver" /\ host' = host /\ allowOn' = allowOn
    BY <1>4
  <2>7. SessionProgress'
    BY <2>2, <2>5, <2>6 DEF SessionProgress, RulesStand
  <2> QED
    BY <1>1, <2>1, <2>4, <2>7, FilledServes
<1>5. CASE session' = NoSession /\ screen' = "Menu" /\ Release(s)
  <2>1. \A r \in Slots : task'[r] \in {task[r], Idle}
    BY <1>5, Filled DEF Release
  <2> QED
    BY <1>5, <2>1, EndServes DEF NoSession
<1> HIDE DEF kept
<1> QED
    BY <1>1, <1>2, <1>4, <1>5 DEF OnSharingStarted, kept

(* The next link of the start chain, which ends on the Active screen. *)
LEMMA ChainServes ==
    ASSUME TypeOK, SoloInv, ServedInv, Exhausted(Upheavals)',
           NEW s \in Slots, NEW wantDhcp, NEW wantNatPmp,
           Chain(s, wantDhcp, wantNatPmp), Alone(s),
           pending \in StartChain \ {"StartingSharing"}, session.alive,
           session'.alive, session'.dns, session'.wan = session.wan,
           wantDhcp => ~session'.dhcp, session'.dhcp => host.dnsmasq,
           host' = host, allowOn' = allowOn
    PROVE  ServedInv'
<1>1. PICK t : Launch(s, t) /\ t.op \in {"none", "dhcp", "natpmp"}
                 /\ (t.op = "dhcp" => ~t.ok)
  <2>1. Idle.op = "none"
    BY DEF Idle
  <2>2. \A op \in {"dhcp", "natpmp"} :
          LET t == [Idle EXCEPT !.op = op, !.pc = "work"]
          IN  t.op = op /\ ~t.ok
    BY DEF Idle
  <2> QED
    BY <2>1, <2>2 DEF Chain, Release
<1>2. task'[s] = t
    BY <1>1, Filled
<1>3. StartProgress(task[s])' /\ ReloadProgress(task[s])'
    BY <1>1, <1>2 DEF StartProgress, ReloadProgress
<1>4. /\ pending' \in {"StartingDhcp", "StartingNatPmp", "none"}
      /\ pending' = "StartingDhcp" => wantDhcp
    BY DEF Chain
<1>5. RulesStand(allowOn) /\ (allowOn => session.wan)
    BY DEF ServedInv, SessionProgress, StartChain
<1>6. SessionProgress'
    BY <1>4, <1>5 DEF SessionProgress, RulesStand
<1> QED
    BY <1>1, <1>3, <1>6, FilledServes

(* The results of the start chain after the start. *)
LEMMA ChainStartedServes ==
    ASSUME TypeOK, PendingInv, SoloInv, ServedInv, Exhausted(Upheavals)',
           SoloInv', PendingInv', NEW s \in Slots,
           OnResolverStarted(s) \/ OnDhcpStarted(s) \/ OnNatPmpStarted(s)
    PROVE  ServedInv'
<1> DEFINE t == task[s]
<1>1. /\ t \in TaskState /\ session \in SessionState /\ session.alive
      /\ Alone(s) /\ pending \in StartChain \ {"StartingSharing"}
    BY AnswersPending DEF OnResolverStarted, OnDhcpStarted, OnNatPmpStarted,
       TypeOK, Working, StartChain
<1>2. CASE OnResolverStarted(s) /\ t.ok
  <2>1. /\ host' = host /\ allowOn' = allowOn /\ pending = "StartingResolver"
        /\ session' = [session EXCEPT !.dns = session.alive]
        /\ \E a, b : Chain(s, a, b)
    BY <1>2 DEF OnResolverStarted
  <2>2. /\ session'.alive /\ session'.dhcp = session.dhcp
        /\ session'.dns /\ session'.wan = session.wan
    BY <1>1, <2>1 DEF SessionState
  <2>3. ~session.dhcp
    BY <2>1 DEF ServedInv, SessionProgress
  <2> QED
    BY <1>1, <2>1, <2>2, <2>3, ChainServes
<1>3. CASE OnResolverStarted(s) /\ ~t.ok
  <2>1. session' = NoSession /\ screen' = "Menu" /\ Release(s)
    BY <1>3 DEF OnResolverStarted
  <2>2. \A r \in Slots : task'[r] \in {task[r], Idle}
    BY <2>1, Filled DEF Release
  <2> QED
    BY <2>1, <2>2, EndServes DEF NoSession
<1>4. CASE OnDhcpStarted(s)
  <2>1. /\ t.op = "dhcp" /\ host' = host /\ allowOn' = allowOn
        /\ pending = "StartingDhcp"
        /\ session' = [session EXCEPT !.dhcp = @ \/ (t.ok /\ session.alive)]
        /\ \E b : Chain(s, FALSE, b)
    BY <1>4 DEF OnDhcpStarted
  <2>2. /\ session'.alive /\ (session'.dhcp => session.dhcp \/ t.ok)
        /\ session'.dns = session.dns /\ session'.wan = session.wan
    BY <1>1, <2>1 DEF SessionState
  <2>3. ~session.dhcp /\ session.dns
    BY <1>1, <2>1 DEF ServedInv, SessionProgress
  <2>4. t.ok => host.dnsmasq
    BY <2>1 DEF ServedInv, ReloadProgress
  <2> QED
    BY <1>1, <2>1, <2>2, <2>3, <2>4, ChainServes
<1>5. CASE OnNatPmpStarted(s)
  <2>1. /\ host' = host /\ allowOn' = allowOn /\ pending = "StartingNatPmp"
        /\ \/ session' = [session EXCEPT !.nat = TRUE, !.server = t.server]
           \/ session' = session
        /\ Chain(s, FALSE, FALSE)
    BY <1>5 DEF OnNatPmpStarted
  <2>2. /\ session'.alive /\ session'.dhcp = session.dhcp
        /\ session'.dns = session.dns /\ session'.wan = session.wan
    BY <1>1, <2>1 DEF SessionState
  <2>3. (session.dhcp => host.dnsmasq) /\ session.dns
    BY <1>1, <2>1 DEF ServedInv, SessionProgress
  <2> QED
    BY <1>1, <2>1, <2>2, <2>3, ChainServes
<1> QED
    BY <1>2, <1>3, <1>4, <1>5

(* The end of a stop. *)
LEMMA SharingStoppedServes ==
    ASSUME TypeOK, ServedInv, Exhausted(Upheavals)',
           SoloInv', PendingInv', NEW s \in Slots, OnSharingStopped(s)
    PROVE  ServedInv'
<1>1. session' = NoSession /\ screen' = "Menu" /\ Release(s)
    BY DEF OnSharingStopped
<1>2. \A r \in Slots : task'[r] \in {task[r], Idle}
    BY <1>1, Filled DEF Release
<1> QED
    BY <1>1, <1>2, EndServes DEF NoSession

(* The end of a reload: the switch shows what was loaded. *)
LEMMA ReloadedServes ==
    ASSUME TypeOK, PendingInv, SoloInv, ServedInv, Exhausted(Upheavals)',
           NEW s \in Slots, OnFirewallReloaded(s) \/ OnUpstreamReloaded(s)
    PROVE  ServedInv'
<1> DEFINE t == task[s]
           back == GiveFirewallBack(t)
           kept == [back EXCEPT
                      !.server = IF session.alive THEN t.server ELSE @]
<1>1. /\ t \in TaskState /\ t.op \in {"firewall", "upstream"}
      /\ pending \in {"ReloadingFirewall", "ReloadingUpstream"}
      /\ session.alive /\ session \in SessionState /\ Alone(s)
    BY AnswersPending DEF OnFirewallReloaded, OnUpstreamReloaded, TypeOK,
       Working
<1>2. session.fw = "unloaded" /\ session.fwd # "taken"
    BY <1>1 DEF SoloInv, Custody, Original
<1>3. /\ host' = host /\ pending' = "none" /\ Launch(s, Idle)
      /\ screen' = screen
    BY <1>1, <1>2, GiveBackFields DEF OnFirewallReloaded, OnUpstreamReloaded,
       Release
<1>4. /\ back \in SessionState /\ back.alive /\ back.dhcp = session.dhcp
      /\ back.dns = session.dns /\ back.wan = session.wan
    BY <1>1, <1>2, GiveFirewallBackFields
<1>5. /\ kept \in SessionState /\ kept.alive /\ kept.dhcp = session.dhcp
      /\ kept.dns = session.dns /\ kept.wan = session.wan
  <2> HIDE DEF back
  <2> QED
    BY <1>1, <1>4 DEF SessionState, TaskState
<1>6. Idle.op = "none" /\ task'[s] = Idle
    BY <1>3, Filled DEF Idle
<1>7. StartProgress(task[s])' /\ ReloadProgress(task[s])'
    BY <1>6 DEF StartProgress, ReloadProgress
<1>8. /\ session'.alive /\ session'.dhcp = session.dhcp
      /\ session'.dns = session.dns /\ session'.wan = session.wan
  <2>1. \/ session' = back \/ session' = kept
        \/ session' = [kept EXCEPT !.upstream = t.vpn, !.down = FALSE]
    BY DEF OnFirewallReloaded, OnUpstreamReloaded
  <2> HIDE DEF back, kept
  <2> QED
    BY <1>4, <1>5, <2>1 DEF SessionState
<1>9. allowOn' => host.bypass /\ session.wan
  <2>1. CASE OnUpstreamReloaded(s)
    BY <1>1, <2>1 DEF OnUpstreamReloaded, ServedInv, SessionProgress,
       RulesStand
  <2>2. CASE OnFirewallReloaded(s)
    <3>1. pending = "ReloadingFirewall" /\ t.op = "firewall"
      BY <2>2, AnswersPending DEF OnFirewallReloaded
    <3>2. /\ ~allowOn /\ (t.on => session.wan)
          /\ t.ok /\ t.on => host.bypass
      BY <1>1, <3>1 DEF ServedInv, SessionProgress, ReloadProgress
    <3> QED
      BY <2>2, <3>2 DEF OnFirewallReloaded
  <2> QED
    BY <2>1, <2>2
<1>10. SessionProgress'
    BY <1>1, <1>3, <1>8, <1>9 DEF ServedInv, SessionProgress, RulesStand
<1> QED
    BY <1>1, <1>3, <1>6, <1>7, <1>10, FilledServes

(* A WAN uplink was found, or not. *)
LEMMA WanDetectedServes ==
    ASSUME TypeOK, PendingInv, SoloInv, ServedInv, Exhausted(Upheavals)',
           NEW s \in Slots, OnWanDetected(s)
    PROVE  ServedInv'
<1>1. /\ pending = "DetectingWan" /\ session.alive /\ Alone(s)
      /\ session \in SessionState /\ host' = host /\ allowOn' = allowOn
    BY AnswersPending DEF OnWanDetected, TypeOK, Working
<1>2. ~allowOn
    BY <1>1 DEF ServedInv, SessionProgress
<1> DEFINE sess == [session EXCEPT !.wan = TRUE]
<1>3. /\ sess \in SessionState /\ sess.alive /\ sess.dns = session.dns
      /\ sess.dhcp = session.dhcp /\ sess.wan
    BY <1>1 DEF SessionState
<1>4. \/ BeginReloadFirewall(s, sess, TRUE)
      \/ pending' = "none" /\ Release(s) /\ session' = session
    BY DEF OnWanDetected
<1> HIDE DEF sess
<1>5. CASE BeginReloadFirewall(s, sess, TRUE)
  <2>2. \E on \in BOOLEAN : /\ on => sess.wan
                            /\ BeginReloadFirewall(s, sess, on)
    BY <1>3, <1>5
  <2> QED
    BY <1>1, <1>2, <1>3, <2>2, BeginReloadServes
<1>6. CASE pending' = "none" /\ Release(s) /\ session' = session
  <2>1. Launch(s, Idle) /\ Idle.op = "none" /\ task'[s] = Idle
    BY <1>6, Filled DEF Release, Idle
  <2>2. StartProgress(task[s])' /\ ReloadProgress(task[s])'
    BY <2>1 DEF StartProgress, ReloadProgress
  <2>3. KeepsServing
    BY <1>1, <1>6 DEF KeepsServing
  <2>4. SessionProgress'
    BY <1>1, <1>6, <2>3, ServingAfter DEF StartChain
  <2> QED
    BY <1>1, <2>1, <2>2, <2>4, FilledServes
<1> QED
    BY <1>4, <1>5, <1>6

(* A probe's answer: nothing, a reload, or a stop. *)
LEMMA HealthCheckServes ==
    ASSUME TypeOK, PendingInv, SoloInv, ServedInv, Exhausted(Upheavals)',
           SoloInv', PendingInv', NEW s \in Slots, OnHealthCheck(s)
    PROVE  ServedInv'
<1> DEFINE t == task[s]
           seen == [session EXCEPT !.down = ~t.ok]
           Stays == /\ Release(s) /\ UNCHANGED <<pending, host>>
                    /\ session' \in {session, seen}
           Reloads == \E new \in Utuns : BeginReloadUpstream(s, new)
<1>1. /\ t.op = "health" /\ session \in SessionState /\ t.ok \in BOOLEAN
      /\ allowOn' = allowOn /\ screen' = screen /\ phase' = phase
    BY DEF OnHealthCheck, Receive, TypeOK, TaskState
<1>2. /\ seen \in SessionState /\ seen.alive = session.alive
      /\ seen.dhcp = session.dhcp /\ seen.dns = session.dns
      /\ seen.wan = session.wan
    BY <1>1 DEF SessionState
<1>3. \/ ~session.alive /\ Stays /\ session' = session
      \/ session.alive /\ Stays
      \/ session.alive /\ pending = "none" /\ Reloads
      \/ session.alive /\ pending = "none" /\ BeginStop(s, seen)
    BY DEF OnHealthCheck
<1> HIDE DEF seen
<1>4. CASE ~session.alive /\ Stays /\ session' = session
  <2>1. \A r \in Slots : task'[r] \in {task[r], Idle}
    BY <1>4, Filled DEF Release
  <2> QED
    BY <1>1, <1>4, <2>1, EndServes DEF ServedInv, SessionProgress
<1>5. CASE session.alive /\ Stays
  <2>1. /\ session'.alive /\ session'.dhcp = session.dhcp
        /\ session'.dns = session.dns /\ session'.wan = session.wan
        /\ host' = host /\ pending' = pending
    BY <1>2, <1>5
  <2>2. /\ task'[s] = Idle
        /\ \A r \in Slots : r # s => task'[r] = task[r]
    BY <1>5, Filled DEF Release
  <2>3. ProbesOnly'
    BY <2>2 DEF ServedInv, ProbesOnly, Idle
  <2>4. \A r \in Slots : StartProgress(task[r])' /\ ReloadProgress(task[r])'
    <3> SUFFICES ASSUME NEW r \in Slots
                 PROVE  StartProgress(task[r])' /\ ReloadProgress(task[r])'
      OBVIOUS
    <3>1. CASE r = s
      BY <2>2, <3>1 DEF StartProgress, ReloadProgress, Idle
    <3>2. CASE r # s
      BY <1>1, <2>1, <2>2, <3>2 DEF ServedInv, StartProgress, ReloadProgress,
         RulesStand
    <3> QED
      BY <3>1, <3>2
  <2>5. SessionProgress'
    BY <1>1, <1>5, <2>1 DEF ServedInv, SessionProgress, RulesStand
  <2> QED
    BY <2>3, <2>4, <2>5 DEF ServedInv
<1>6. CASE session.alive /\ pending = "none" /\ Reloads
  <2>1. Alone(s)
    BY <1>6 DEF Alone
  <2> QED
    BY <1>1, <1>6, <2>1, BeginReloadServes
<1>7. CASE session.alive /\ pending = "none" /\ BeginStop(s, seen)
  BY <1>2, <1>7, BeginStopServes
<1> HIDE DEF Stays, Reloads
<1> QED
    BY <1>3, <1>4, <1>5, <1>6, <1>7

-----------------------------------------------------------------------------
(* The whole program.                                                      *)

(* Every handler. *)
LEMMA HandleServes ==
    ASSUME TypeOK, PendingInv, SoloInv, ServedInv, Exhausted(Upheavals)',
           Exhausted(Disturbances)', SoloInv', PendingInv', NEW s \in Slots,
           Handle(s)
    PROVE  ServedInv'
<1>1. ~DiscardStale(s)
    BY HandleKeepsSolo
<1> QED
    BY <1>1, SharingStartedServes, SharingStoppedServes, ChainStartedServes,
       ReloadedServes, WanDetectedServes, HealthCheckServes DEF Handle

(* A probe is launched; the runtime goes; the machine moves. *)
LEMMA OtherStepServes ==
    ASSUME TypeOK, PendingInv, SoloInv, ServedInv, Exhausted(Upheavals)',
           SoloInv', PendingInv',
           \/ \E s \in Slots : SpawnHealthCheck(s)
           \/ EnvironmentStep \/ RuntimeDrop
    PROVE  ServedInv'
<1>1. ASSUME NEW s \in Slots, SpawnHealthCheck(s) PROVE ServedInv'
  <2> DEFINE t == [Idle EXCEPT !.op = "health", !.pc = "probe",
                               !.vpn = session.upstream,
                               !.bypass = session.wan,
                               !.on = allowOn /\ session.wan]
  <2>1. t.op = "health" /\ t.pc = "probe"
    BY DEF Idle
  <2>2. /\ Launch(s, t) /\ pending = "none" /\ session.alive /\ Alone(s)
        /\ UNCHANGED <<pending, session, host, allowOn>>
    BY <1>1 DEF SpawnHealthCheck, KeyReady, appVars, Alone
  <2> HIDE DEF t
  <2>3. task'[s] = t
    BY <2>2, Filled
  <2>4. StartProgress(task[s])' /\ ReloadProgress(task[s])'
    BY <2>1, <2>3 DEF StartProgress, ReloadProgress
  <2>5. KeepsServing
    BY <2>2 DEF KeepsServing
  <2>6. SessionProgress'
    BY <2>2, <2>5, ServingAfter DEF StartChain
  <2> QED
    BY <2>1, <2>2, <2>4, <2>6, FilledServes
<1>2. CASE EnvironmentStep
  <2>1. ~FlushMain
    BY NotSpent DEF ServedInv, Upheavals, FlushMain
  <2> QED
    BY <1>2, <2>1, IdleStepServes DEF EnvironmentStep, NatPmpExit, DropVpn,
       SwapVpn, Deny, Relent, appVars
<1>3. CASE RuntimeDrop
  <2>1. /\ ~session'.alive /\ phase' # "running"
        /\ \A s \in Slots : task'[s] \in {task[s], Idle}
    BY <1>3 DEF RuntimeDrop, SoloInv, Custody
  <2> QED
    BY <2>1, EndServes
<1> QED
    BY <1>1, <1>2, <1>3

(* ServedInv is inductive. *)
LEMMA NextKeepsServed ==
    ASSUME TypeOK, PendingInv, SoloInv, ServedInv, [Next]_vars
    PROVE  ServedInv'
<1>1. Exhausted(Disturbances)' /\ Exhausted(Upheavals)'
    BY ExhaustedStays DEF SoloInv, ServedInv, Disturbances, Upheavals, Events
<1>2. PendingInv' /\ SoloInv'
    BY NextKeeps, NextKeepsSolo
<1>3. CASE UserStep
    BY <1>1, <1>2, <1>3, UserStepServes
<1>4. ASSUME NEW s \in Slots, TaskStep(s) PROVE ServedInv'
    BY <1>1, <1>4, TaskStepKeepsServed
<1>5. CASE PollStep
    BY <1>1, <1>2, <1>5, HandleServes, OtherStepServes DEF PollStep
<1>6. CASE RuntimeDrop \/ EnvironmentStep
    BY <1>1, <1>2, <1>6, OtherStepServes
<1>7. CASE UNCHANGED vars
    BY <1>1, <1>7, IdleStepServes DEF vars, appVars
<1> QED
    BY <1>3, <1>4, <1>5, <1>6, <1>7, NoLateStep DEF Next

(* The program starts on the menu, with nothing to serve. *)
LEMMA InitServes ==
    ASSUME Never(Upheavals), Init
    PROVE  ServedInv
<1>1. Exhausted(Upheavals)
    BY DEF Init, Never, Exhausted
<1>2. Idle.op = "none" /\ ~session.alive /\ pending = "none"
    BY DEF Idle, Init, NoSession
<1>3. ProbesOnly
    BY <1>2 DEF Init, ProbesOnly
<1>4. \A s \in Slots : StartProgress(task[s]) /\ ReloadProgress(task[s])
    BY <1>2 DEF Init, StartProgress, ReloadProgress
<1>5. SessionProgress
    BY <1>2 DEF Init, SessionProgress
<1> QED
    BY <1>1, <1>3, <1>4, <1>5 DEF ServedInv

(* The Active screen means what it says (App::start_sharing and the start  *)
(* chain behind it): whatever failed, timed out or came late, and whatever *)
(* the tunnels did, the resolver is held, the rules and forwarding are in  *)
(* place, and dnsmasq and the bypass are there if the screen shows them.   *)
(* Commands that were refused before do not stand in the way.              *)
(* Only a self-heal and a flush of MAIN by another program are left out:   *)
(* between the flush and the heal MAIN has no hooks, and a heal that was   *)
(* decided on earlier overwrites what was loaded since.                    *)
THEOREM ActiveMeansServed ==
    ASSUME Never(Disturbances), Never(Upheavals)
    PROVE  Spec => []ActiveIsServed
<1> DEFINE IInv == TypeOK /\ PendingInv /\ SoloInv /\ ServedInv
<1>1. Init => IInv
    BY InitEstablishes, InitSolo, InitServes
<1>2. IInv /\ [Next]_vars => IInv'
    BY NextKeeps, NextKeepsSolo, NextKeepsServed
<1>3. IInv => ActiveIsServed
    BY DEF ServedInv, SessionProgress, RulesStand, ActiveIsServed
<1> QED
    BY <1>1, <1>2, <1>3, PTL DEF Spec

-----------------------------------------------------------------------------
(***************************************************************************)
(* Part 3.  Whoever has loaded rules takes them down again, whatever       *)
(*         is cancelled.                                                   *)
(***************************************************************************)

(* An exhausted event does not happen. *)
LEMMA NoLosses ==
    ASSUME Exhausted(Losses)
    PROVE  ~Spend("fail") /\ ~Spend("timeout") /\ ~Spend("linger")
             /\ ~Spend("heal")
BY NotSpent DEF Losses

\* What a step of the task in slot s leaves behind.
TaskOwns(s) ==
    /\ \A r \in Slots : r # s => task'[r] = task[r]
    /\ OwnerShape(task'[s]) /\ task[s].pc # "sent"
    /\ \/ chan' = chan
       \/ phase = "running" /\ chan' = Append(chan, s) /\ task'[s].pc = "sent"
    /\ phase = "running" /\ HasRules(host')
         => Owns(task'[s]) \/ (HasRules(host) /\ ~Owns(task[s]))

(* A step inside the task ... *)
LEMMA AdvanceOwns ==
    ASSUME TypeOK, NEW s \in Slots, NEW t, NEW h, Advance(s, t, h),
           OwnerShape(t), task[s].pc # "sent",
           HasRules(h) => Owns(t) \/ (HasRules(host) /\ ~Owns(task[s]))
    PROVE  TaskOwns(s)
<1>1. Launch(s, t) /\ host' = h /\ chan' = chan
    BY DEF Advance
<1> QED
    BY <1>1, Filled DEF TaskOwns

(* ... and its answer. *)
LEMMA AnswerOwns ==
    ASSUME TypeOK, NEW s \in Slots, NEW t \in TaskState, NEW h, Answer(s, t, h),
           t.op \in Operations \ {"none"}, task[s].pc # "sent",
           t.nat => t.op = "upstream",
           t.fw = "loaded" => t.op \in {"start", "stop", "upstream", "firewall"},
           HasRules(h) => t.fw = "loaded" \/ (HasRules(host) /\ ~Owns(task[s]))
    PROVE  TaskOwns(s)
<1> DEFINE n == [t EXCEPT !.pc = "sent"]
<1>1. OwnerShape(n) /\ n.pc = "sent" /\ n.fw = t.fw
    BY DEF TaskState, OwnerShape, Placed, Operations
<1>2. OwnerShape(Idle)
    BY DEF OwnerShape, Placed, Idle
<1> HIDE DEF n
<1>3. CASE phase = "running"
  <2>1. Launch(s, n) /\ host' = h /\ chan' = Append(chan, s)
    BY <1>3 DEF Answer, n
  <2> QED
    BY <1>1, <1>3, <2>1, Filled DEF TaskOwns, Owns
<1>4. CASE phase # "running"
  <2>1. Launch(s, Idle) /\ chan' = chan
    BY <1>4 DEF Answer, Release
  <2> QED
    BY <1>2, <1>4, <2>1, Filled DEF TaskOwns
<1> QED
    BY <1>3, <1>4

(* Every step of every task. *)
LEMMA TaskStepOwns ==
    ASSUME TypeOK, NEW s \in Slots, OwnerShape(task[s]), Exhausted(Losses),
           TaskStep(s)
    PROVE  TaskOwns(s)
<1> DEFINE t == task[s]
<1>1. /\ t \in TaskState /\ host \in HostState /\ Placed(t)
      /\ t.fw = "loaded" => t.op \in {"start", "stop", "upstream", "firewall"}
      /\ t.op = "health" => t.pc \in {"probe", "sent"}
      /\ t.nat => t.op = "upstream"
      /\ host.forwarding \in BOOLEAN
    BY DEF TypeOK, OwnerShape, HostState
<1>2. ~Spend("fail") /\ ~Spend("timeout") /\ ~Spend("linger") /\ ~Spend("heal")
    BY NoLosses
<1>3. CASE EnableForwardingStep(s)
  <2> DEFINE n == [t EXCEPT !.pc = "detect", !.fwd = Remember(host, @)]
  <2>1. Advance(s, n, EnableForwarding(host)) /\ t.pc = "enable"
    BY <1>2, <1>3 DEF EnableForwardingStep
  <2>2. t.op = "start"
    BY <1>1, <2>1 DEF Placed
  <2>3. /\ n.op = "start" /\ n.pc = "detect" /\ n.fw = t.fw
        /\ n.nat = t.nat
    BY <1>1, <2>2 DEF TaskState
  <2>4. HasRules(EnableForwarding(host)) <=> HasRules(host)
    BY <1>1 DEF HasRules, RulesAreOut, EnableForwarding, HostState
  <2> HIDE DEF n
  <2>5. OwnerShape(n)
    BY <1>1, <2>2, <2>3 DEF OwnerShape, Placed
  <2> QED
    BY <2>1, <2>3, <2>4, <2>5, AdvanceOwns DEF Owns
<1>4. CASE DetectStep(s)
  <2> DEFINE n == [t EXCEPT !.pc = "body"]
  <2>1. Advance(s, n, host) /\ t.pc = "detect"
    BY <1>2, <1>4 DEF DetectStep
  <2>2. t.op \in {"start", "upstream"}
    BY <1>1, <2>1 DEF Placed
  <2>3. /\ n.op = t.op /\ n.pc = "body" /\ n.fw = t.fw
        /\ n.nat = t.nat
    BY <1>1 DEF TaskState
  <2> HIDE DEF n
  <2>4. OwnerShape(n)
    BY <1>1, <2>2, <2>3 DEF OwnerShape, Placed
  <2> QED
    BY <2>1, <2>3, <2>4, AdvanceOwns DEF Owns
<1>5. CASE LoadBodyStep(s)
  <2> DEFINE n == [t EXCEPT !.pc = "hooks"]
             h == LoadBody(host, t.vpn, t.bypass)
  <2>1. Advance(s, n, h) /\ t.pc = "body"
    BY <1>2, <1>5 DEF LoadBodyStep
  <2>2. t.op \in {"start", "upstream", "firewall"}
    BY <1>1, <2>1 DEF Placed
  <2>3. /\ n.op = t.op /\ n.pc = "hooks" /\ n.fw = t.fw
        /\ n.nat = t.nat
    BY <1>1 DEF TaskState
  <2> HIDE DEF n, h
  <2>4. OwnerShape(n)
    BY <1>1, <2>2, <2>3 DEF OwnerShape, Placed
  <2> QED
    BY <2>1, <2>3, <2>4, AdvanceOwns DEF Owns
<1>6. CASE MergeMainStep(s)
  <2> DEFINE done == [t EXCEPT !.fw = IF t.op = "health" THEN @ ELSE "loaded",
                               !.ok = TRUE]
             served == [done EXCEPT !.pc = "serve"]
             h == MergeMain(host)
  <2>1. /\ t.pc = "hooks"
        /\ \/ t.nat /\ Advance(s, served, h)
           \/ ~t.nat /\ Answer(s, done, h)
    BY <1>2, <1>6 DEF MergeMainStep
  <2>2. t.op \in {"start", "upstream", "firewall"}
    BY <1>1, <2>1 DEF Placed
  <2>3. /\ done \in TaskState /\ done.op = t.op /\ done.fw = "loaded"
        /\ done.nat = t.nat /\ served.nat = t.nat
        /\ served.op = t.op /\ served.fw = "loaded" /\ served.pc = "serve"
    BY <1>1, <2>2 DEF TaskState, FirewallManager
  <2> HIDE DEF done, served, h
  <2>4. CASE ~t.nat /\ Answer(s, done, h)
    BY <2>1, <2>2, <2>3, <2>4, AnswerOwns DEF Operations
  <2>5. CASE t.nat /\ Advance(s, served, h)
    <3>1. OwnerShape(served)
      BY <1>1, <2>3, <2>5 DEF OwnerShape, Placed
    <3> QED
      BY <2>1, <2>3, <2>5, <3>1, AdvanceOwns DEF Owns
  <2> QED
    BY <2>1, <2>4, <2>5
<1>7. CASE ServeStep(s)
  <2> DEFINE bound == CanBindNatPmp(host)
             n == [t EXCEPT !.server = bound,
                            !.ok = IF t.op = "natpmp" THEN bound ELSE @]
             h == IF bound THEN BindNatPmp(host) ELSE host
  <2>1. Answer(s, n, h) /\ t.pc \in {"serve", "work"}
    BY <1>7 DEF ServeStep
  <2>2. t.op \in {"upstream", "resolver", "dhcp", "natpmp", "wan"}
    BY <1>1, <2>1 DEF Placed
  <2>3. bound \in BOOLEAN
    BY DEF CanBindNatPmp
  <2>4. HasRules(h) <=> HasRules(host)
    BY <1>1, EffectsLeave
  <2> HIDE DEF bound, h
  <2>5. n \in TaskState /\ n.op = t.op /\ n.fw = t.fw /\ n.nat = t.nat
    BY <1>1, <2>3 DEF TaskState
  <2> HIDE DEF n
  <2> QED
    BY <1>1, <2>1, <2>2, <2>4, <2>5, AnswerOwns DEF Owns, Operations
<1>8. CASE WorkStep(s)
  <2> DEFINE n == [t EXCEPT !.ok = TRUE]
  <2>1. /\ Answer(s, n, host) /\ t.pc = "work"
        /\ t.op \in {"resolver", "wan"}
    BY <1>2, <1>8 DEF WorkStep
  <2>2. n \in TaskState /\ n.op = t.op /\ n.fw = t.fw /\ n.nat = t.nat
    BY <1>1 DEF TaskState
  <2> HIDE DEF n
  <2> QED
    BY <1>1, <2>1, <2>2, AnswerOwns DEF Owns, Operations
<1>9. CASE DhcpStep(s)
  <2> DEFINE n == [t EXCEPT !.ok = TRUE]
  <2>1. n \in TaskState /\ n.op = t.op /\ n.fw = t.fw /\ n.nat = t.nat
    BY <1>1 DEF TaskState
  <2>2. PICK u \in {t, n}, h \in {StartDnsmasq(host), StopDnsmasq(host)} :
          Answer(s, u, h) /\ t.pc = "work" /\ t.op = "dhcp"
    BY <1>2, <1>9 DEF DhcpStep
  <2> HIDE DEF n
  <2>3. HasRules(h) <=> HasRules(host)
    <3>1. /\ HasRules(StartDnsmasq(host)) <=> HasRules(host)
          /\ HasRules(StopDnsmasq(host)) <=> HasRules(host)
      BY <1>1, EffectsLeave
    <3> QED
      BY <3>1
  <2>4. /\ u \in TaskState /\ u.op = "dhcp" /\ u.fw = t.fw /\ u.nat = t.nat
        /\ Answer(s, u, h) /\ t.pc = "work" /\ t.op = "dhcp"
    BY <1>1, <2>1, <2>2
  <2>5. HasRules(h) => HasRules(host) /\ ~Owns(t)
    BY <1>1, <2>3, <2>4 DEF Owns
  <2> HIDE DEF t
  <2> QED
    BY <1>1, <2>4, <2>5, AnswerOwns DEF Operations, t
<1>10. CASE StopDnsmasqStep(s)
  <2> DEFINE n == [t EXCEPT !.pc = "cleanup"]
             h == IF t.dhcp THEN StopDnsmasq(host) ELSE host
  <2>1. Advance(s, n, h) /\ t.pc = "dnsmasq"
    BY <1>10 DEF StopDnsmasqStep
  <2>2. t.op = "stop"
    BY <1>1, <2>1 DEF Placed
  <2>3. /\ n.op = t.op /\ n.pc = "cleanup" /\ n.fw = t.fw
        /\ n.nat = t.nat
    BY <1>1 DEF TaskState
  <2>4. HasRules(h) <=> HasRules(host)
    BY <1>1, EffectsLeave
  <2> HIDE DEF n, h
  <2>5. OwnerShape(n)
    BY <1>1, <2>2, <2>3 DEF OwnerShape, Placed
  <2> QED
    BY <2>1, <2>3, <2>4, <2>5, AdvanceOwns DEF Owns
<1>11. CASE CleanupStep(s)
  <2> DEFINE next == [t EXCEPT !.pc = "restore"]
             gone == [next EXCEPT !.fw = "unloaded"]
  <2>1. /\ \/ Advance(s, gone, Cleanup(host))
           \/ Advance(s, next, Cleanup(host))
        /\ t.pc = "cleanup"
    BY <1>2, <1>11 DEF CleanupStep
  <2>2. t.op = "stop"
    BY <1>1, <2>1 DEF Placed
  <2>3. \A n \in {next, gone} :
          n.op = t.op /\ n.pc = "restore" /\ n.nat = t.nat
    BY <1>1 DEF TaskState
  <2>4. ~HasRules(Cleanup(host))
    BY <1>1, CleanupEffect
  <2> HIDE DEF next, gone
  <2>5. OwnerShape(next) /\ OwnerShape(gone)
    BY <1>1, <2>2, <2>3 DEF OwnerShape, Placed
  <2> QED
    BY <2>1, <2>4, <2>5, AdvanceOwns
<1>12. CASE RestoreStep(s)
  <2> DEFINE n == [t EXCEPT !.fwd = "unset"]
             h == RestoreForwarding(host, t.fwd)
  <2>1. Answer(s, n, h) /\ t.pc = "restore"
    BY <1>12 DEF RestoreStep
  <2>2. t.op = "stop"
    BY <1>1, <2>1 DEF Placed
  <2>3. n \in TaskState /\ n.op = t.op /\ n.fw = t.fw /\ n.nat = t.nat
    BY <1>1 DEF TaskState, SavedForwarding
  <2>4. HasRules(h) <=> HasRules(host)
    BY <1>1, RestoreEffect
  <2> HIDE DEF n, h
  <2> QED
    BY <1>1, <2>1, <2>2, <2>3, <2>4, AnswerOwns DEF Owns, Operations
<1>13. CASE ProbeStep(s)
  <2>1. PICK ok \in BOOLEAN :
          Answer(s, [[t EXCEPT !.route = route] EXCEPT !.ok = ok], host)
            /\ t.pc = "probe"
    BY <1>2, <1>13 DEF ProbeStep
  <2> DEFINE n == [[t EXCEPT !.route = route] EXCEPT !.ok = ok]
  <2>2. t.op = "health"
    BY <1>1, <2>1 DEF Placed
  <2>3. n \in TaskState /\ n.op = t.op /\ n.fw = t.fw /\ n.nat = t.nat
    BY <1>1 DEF TaskState, TypeOK
  <2> HIDE DEF n
  <2>4. Answer(s, n, host)
    BY <2>1 DEF n
  <2> QED
    BY <1>1, <2>1, <2>2, <2>3, <2>4, AnswerOwns DEF Owns, Operations
<1> QED
  BY <1>2, <1>3, <1>4, <1>5, <1>6, <1>7, <1>8, <1>9, <1>10, <1>11, <1>12, <1>13
     DEF TaskStep, TimeoutStep, LingerStep

-----------------------------------------------------------------------------
(* The channel.                                                            *)

(* The result at the head is a task's that waits for nothing else, and it  *)
(* is queued once.                                                         *)
LEMMA ReceivedIsSent ==
    ASSUME TypeOK, Queued, NEW s \in Slots, Receive(s)
    PROVE  /\ task[s].pc = "sent" /\ phase = "running" /\ phase' = phase
           /\ Len(chan') \in Nat
           /\ \A i \in 1..Len(chan') : /\ chan'[i] # s
                                      /\ i + 1 \in 1..Len(chan)
                                      /\ chan'[i] = chan[i + 1]
<1>1. /\ chan \in Seq(Slots) /\ chan # <<>> /\ s = Head(chan)
      /\ chan' = Tail(chan) /\ phase = "running" /\ phase' = phase
    BY DEF TypeOK, Receive
<1>2. Len(chan) \in Nat /\ Len(chan) >= 1 /\ s = chan[1]
    BY <1>1
<1>3. Len(chan') = Len(chan) - 1
    BY <1>1
<1>4. \A i \in 1..Len(chan') : i + 1 \in 1..Len(chan) /\ chan'[i] = chan[i + 1]
    BY <1>1, <1>2, <1>3
<1>5. task[s].pc = "sent"
    BY <1>2 DEF Queued
<1>6. \A i \in 1..Len(chan') : chan'[i] # s
  <2> SUFFICES ASSUME NEW i \in 1..Len(chan'), chan'[i] = s PROVE FALSE
    OBVIOUS
  <2>1. i + 1 \in 1..Len(chan) /\ 1 \in 1..Len(chan) /\ chan[i + 1] = chan[1]
    BY <1>2, <1>4
  <2>2. i + 1 = 1
    BY <2>1 DEF Queued
  <2> QED
    BY <1>2, <1>3, <2>2
<1> QED
    BY <1>1, <1>2, <1>3, <1>4, <1>5, <1>6

\* The slot of a step of the App: a free one, or the result's own.
Ready(s) == \/ chan' = chan /\ task[s].pc = "idle" /\ phase' = phase
            \/ Receive(s)

(* What takes a slot leaves the queue in order. *)
LEMMA LaunchKeepsQueue ==
    ASSUME TypeOK, Queued, NEW s \in Slots, NEW t, Launch(s, t), Ready(s)
    PROVE  Queued' /\ task[s].pc \in {"idle", "sent"} /\ phase' = phase
<1>1. /\ task'[s] = t
      /\ \A r \in Slots : r # s => task'[r] = task[r]
    BY Filled
<1>2. CASE chan' = chan /\ task[s].pc = "idle" /\ phase' = phase
  <2>1. \A i \in 1..Len(chan) : chan[i] \in Slots
    BY DEF TypeOK
  <2> QED
    BY <1>1, <1>2, <2>1 DEF Queued
<1>3. CASE Receive(s)
  <2>1. \A i \in 1..Len(chan) : chan[i] \in Slots
    BY DEF TypeOK
  <2>2. /\ task[s].pc = "sent" /\ phase = "running" /\ phase' = phase
        /\ Len(chan') \in Nat
        /\ \A i \in 1..Len(chan') : /\ chan'[i] # s
                                   /\ i + 1 \in 1..Len(chan)
                                   /\ chan'[i] = chan[i + 1]
    BY <1>3, ReceivedIsSent
  <2>3. \A i \in 1..Len(chan') : task'[chan'[i]].pc = "sent"
    BY <1>1, <2>1, <2>2 DEF Queued
  <2>4. \A i, j \in 1..Len(chan') : chan'[i] = chan'[j] => i = j
    <3> SUFFICES ASSUME NEW i \in 1..Len(chan'), NEW j \in 1..Len(chan'),
                        chan'[i] = chan'[j]
                 PROVE  i = j
      OBVIOUS
    <3>1. i + 1 = j + 1
      BY <2>2 DEF Queued
    <3> QED
      BY <2>2, <3>1
  <2> QED
    BY <2>2, <2>3, <2>4 DEF Queued
<1> QED
    BY <1>2, <1>3 DEF Ready

(* An answer that is queued is its slot's first. *)
LEMMA AnswerKeepsQueue ==
    ASSUME TypeOK, Queued, NEW s \in Slots, TaskOwns(s), phase' = phase
    PROVE  Queued'
<1>1. chan \in Seq(Slots) /\ \A i \in 1..Len(chan) : chan[i] \in Slots
    BY DEF TypeOK
<1>2. \A i \in 1..Len(chan) : chan[i] # s /\ task'[chan[i]].pc = "sent"
    BY <1>1 DEF Queued, TaskOwns
<1>3. CASE chan' = chan
    BY <1>2, <1>3 DEF Queued
<1>4. CASE phase = "running" /\ chan' = Append(chan, s) /\ task'[s].pc = "sent"
  <2>1. /\ Len(chan) \in Nat /\ Len(chan') = Len(chan) + 1
        /\ chan'[Len(chan) + 1] = s
        /\ \A i \in 1..Len(chan) : chan'[i] = chan[i]
    BY <1>1, <1>4
  <2>2. \A i \in 1..Len(chan') : i \in 1..Len(chan) \/ i = Len(chan) + 1
    BY <2>1
  <2>3. \A i \in 1..Len(chan') : task'[chan'[i]].pc = "sent"
    BY <1>2, <1>4, <2>1, <2>2
  <2>4. \A i, j \in 1..Len(chan') : chan'[i] = chan'[j] => i = j
    BY <1>2, <2>1, <2>2 DEF Queued
  <2> QED
    BY <1>4, <2>3, <2>4 DEF Queued
<1> QED
    BY <1>3, <1>4 DEF TaskOwns

-----------------------------------------------------------------------------
(* Steps of the App.                                                       *)

\* The session has a firewall with rules, or the task that is launched.
FirewallPassed(t) == \/ session'.alive /\ session'.fw = "loaded"
                     \/ t.fw = "loaded"

(* A task in the place of another: if rules are left, whoever owned them   *)
(* has handed the firewall on.                                             *)
LEMMA LaunchKeepsOwner ==
    ASSUME TypeOK, OwnerInv, Exhausted(Losses)', NEW s \in Slots, NEW t,
           Launch(s, t), OwnerShape(t), Ready(s),
           HasRules(host') => HasRules(host),
           HasRules(host') /\ session.alive /\ session.fw = "loaded"
             => FirewallPassed(t),
           HasRules(host') /\ task[s].fw = "loaded" => FirewallPassed(t)
    PROVE  OwnerInv'
<1>1. /\ task'[s] = t
      /\ \A r \in Slots : r # s => task'[r] = task[r]
    BY Filled
<1>2. Queued' /\ task[s].pc \in {"idle", "sent"} /\ phase' = phase
    BY LaunchKeepsQueue DEF OwnerInv
<1>3. \A r \in Slots : OwnerShape(task'[r])
    BY <1>1 DEF OwnerInv
<1>4. phase' = "running" /\ HasRules(host') => OwnedBy(session', task')
    BY <1>1, <1>2 DEF OwnerInv, OwnedBy, Owns, FirewallPassed
<1> QED
    BY <1>2, <1>3, <1>4 DEF OwnerInv

(* An operation that begins takes the firewall from the session. *)
LEMMA BegunKeepsOwner ==
    ASSUME TypeOK, OwnerInv, Exhausted(Losses)', NEW s \in Slots, Ready(s),
           NEW sess \in SessionState,
           sess.alive = session.alive, sess.fw = session.fw,
           task[s].fw # "loaded",
           \/ BeginStop(s, sess)
           \/ /\ host' = host
              /\ \E on \in BOOLEAN : BeginReloadFirewall(s, sess, on)
           \/ \E new \in Utuns : sess = session /\ BeginReloadUpstream(s, new)
    PROVE  OwnerInv'
<1>1. PICK t : /\ Launch(s, t) /\ t.fw = TakenFw(sess) /\ OwnerShape(t)
               /\ HasRules(host') => HasRules(host)
  <2>1. CASE BeginStop(s, sess)
    <3> DEFINE t == [Idle EXCEPT !.op = "stop", !.pc = "dnsmasq",
                                 !.dhcp = sess.dhcp, !.fw = TakenFw(sess),
                                 !.fwd = TakenFwd(sess)]
    <3>1. /\ t.op = "stop" /\ t.pc = "dnsmasq" /\ t.fw = TakenFw(sess)
          /\ t.nat = FALSE
      BY DEF Idle
    <3>2. Launch(s, t) /\ (HasRules(host') => HasRules(host))
      BY <2>1, EffectsLeave DEF BeginStop, TypeOK
    <3> HIDE DEF t
    <3>3. OwnerShape(t)
      BY <3>1 DEF OwnerShape, Placed
    <3> QED
      BY <3>1, <3>2, <3>3
  <2>2. ASSUME NEW on \in BOOLEAN, BeginReloadFirewall(s, sess, on), host' = host
        PROVE  \E t : /\ Launch(s, t) /\ t.fw = TakenFw(sess) /\ OwnerShape(t)
                      /\ HasRules(host') => HasRules(host)
    <3> DEFINE t == [Idle EXCEPT !.op = "firewall", !.pc = "body",
                                 !.fw = TakenFw(sess), !.vpn = sess.upstream,
                                 !.bypass = on, !.on = on]
    <3>1. /\ t.op = "firewall" /\ t.pc = "body" /\ t.fw = TakenFw(sess)
          /\ t.nat = FALSE
      BY DEF Idle
    <3>2. Launch(s, t)
      BY <2>2 DEF BeginReloadFirewall
    <3> HIDE DEF t
    <3>3. OwnerShape(t)
      BY <3>1 DEF OwnerShape, Placed
    <3> QED
      BY <2>2, <3>1, <3>2, <3>3
  <2>3. ASSUME NEW new \in Utuns, sess = session, BeginReloadUpstream(s, new)
        PROVE  \E t : /\ Launch(s, t) /\ t.fw = TakenFw(sess) /\ OwnerShape(t)
                      /\ HasRules(host') => HasRules(host)
    <3> DEFINE t == [Idle EXCEPT !.op = "upstream", !.pc = "detect",
                                 !.fw = TakenFw(session), !.vpn = new,
                                 !.bypass = session.wan, !.nat = session.nat]
    <3>1. /\ t.op = "upstream" /\ t.pc = "detect" /\ t.fw = TakenFw(session)
      BY DEF Idle
    <3>2. Launch(s, t) /\ (HasRules(host') => HasRules(host))
      BY <2>3, EffectsLeave DEF BeginReloadUpstream, TypeOK
    <3> HIDE DEF t
    <3>3. OwnerShape(t)
      BY <3>1 DEF OwnerShape, Placed
    <3> QED
      BY <2>3, <3>1, <3>2, <3>3
  <2> QED
    BY <2>1, <2>2, <2>3
<1>2. session.fw = "loaded" => t.fw = "loaded"
  BY <1>1 DEF TakenFw
<1> QED
  BY <1>1, <1>2, LaunchKeepsOwner DEF FirewallPassed

(* The Drop of a session removes the rules unless its firewall is out. *)
LEMMA DropSessionRules ==
    ASSUME NEW h \in HostState, NEW sess \in SessionState,
           HasRules(DropSession(h, sess))
    PROVE  HasRules(h) /\ (sess.alive => sess.fw = "taken")
<1> DEFINE nat == IF sess.nat THEN SignalNatPmp(h, sess.server) ELSE h
           dhcp == IF sess.dhcp THEN StopDnsmasq(nat) ELSE nat
           pf == IF sess.fw = "taken" THEN dhcp ELSE Cleanup(dhcp)
<1>1. sess.server \in BOOLEAN
    BY DEF SessionState
<1>2. nat \in HostState /\ (HasRules(nat) <=> HasRules(h))
    BY <1>1, EffectsLeave DEF HostState, SignalNatPmp
<1>3. dhcp \in HostState /\ (HasRules(dhcp) <=> HasRules(nat))
  <2> HIDE DEF nat
  <2>1. StopDnsmasq(nat) \in HostState
    BY <1>2 DEF HostState, StopDnsmasq, Undoable
  <2> QED
    BY <1>2, <2>1, EffectsLeave
<1>4. pf \in HostState /\ (HasRules(pf) => HasRules(dhcp) /\ sess.fw = "taken")
  <2> HIDE DEF dhcp
  <2>1. Cleanup(dhcp) \in HostState
    BY <1>3, HostTypes DEF SavedForwarding, FirewallManager
  <2> QED
    BY <1>3, <2>1, CleanupEffect
<1>5. DropSession(h, sess) = IF ~sess.alive THEN h
                             ELSE IF sess.fwd = "taken" THEN pf
                             ELSE RestoreForwarding(pf, sess.fwd)
    BY DEF DropSession
<1> HIDE DEF nat, dhcp, pf
<1> QED
    BY <1>2, <1>3, <1>4, <1>5, RestoreEffect

(* So does the firewall that is overwritten, or comes back too late. *)
LEMMA GiveBackRules ==
    ASSUME TypeOK, NEW t \in TaskState, HasRules(HostAfterGiveBack(t))
    PROVE  /\ HasRules(host)
           /\ session.alive => session.fw # "loaded"
           /\ ~session.alive => t.fw # "loaded"
BY CleanupEffect DEF TypeOK, HostAfterGiveBack, DropFirewall

(* The managers that come back with an answer are the session's again. *)
LEMMA ReturnKeepsOwner ==
    ASSUME TypeOK, OwnerInv, Exhausted(Losses)', NEW s \in Slots, Receive(s),
           NEW n, Launch(s, n), OwnerShape(n),
           host' = HostAfterGiveBack(task[s]),
           session.alive => session'.alive /\ session'.fw = task[s].fw
    PROVE  OwnerInv'
<1>1. task[s] \in TaskState
    BY DEF TypeOK
<1>2. HasRules(host') => /\ HasRules(host)
                         /\ session.alive => session.fw # "loaded"
                         /\ ~session.alive => task[s].fw # "loaded"
    BY <1>1, GiveBackRules
<1>3. session.alive \in BOOLEAN
    BY DEF TypeOK, SessionState
<1> QED
    BY <1>2, <1>3, LaunchKeepsOwner DEF Ready, FirewallPassed

(* ... or they go down with it. *)
LEMMA LastKeepsOwner ==
    ASSUME TypeOK, OwnerInv, Exhausted(Losses)', NEW s \in Slots, Receive(s),
           Launch(s, Idle),
           host' = DropSession(HostAfterGiveBack(task[s]), GiveBack(task[s]))
    PROVE  OwnerInv'
<1> DEFINE t == task[s]
           h == HostAfterGiveBack(t)
<1>1. t \in TaskState /\ session \in SessionState
    BY DEF TypeOK
<1>2. h \in HostState /\ GiveBack(t) \in SessionState
    BY <1>1, GiveBackTypes
<1>3. HasRules(host') => HasRules(h) /\ (GiveBack(t).alive => GiveBack(t).fw = "taken")
    BY <1>2, DropSessionRules
<1>4. HasRules(host') => ~session.alive
  <2>1. session.alive => GiveBack(t).alive /\ GiveBack(t).fw = t.fw
    BY <1>1, GiveBackFields
  <2>2. t.fw # "taken"
    BY <1>1 DEF TaskState, FirewallManager
  <2> QED
    BY <1>3, <2>1, <2>2
<1>5. HasRules(h) => HasRules(host) /\ (~session.alive => t.fw # "loaded")
    BY <1>1, GiveBackRules
<1>6. OwnerShape(Idle)
    BY DEF OwnerShape, Placed, Idle
<1> QED
    BY <1>3, <1>4, <1>5, <1>6, LaunchKeepsOwner DEF Ready, FirewallPassed

(* Answers that bring no firewall, from a session that keeps its own. *)
LEMMA OtherAnswerKeepsOwner ==
    ASSUME TypeOK, OwnerInv, Exhausted(Losses)', NEW s \in Slots, Receive(s),
           task[s].op \notin {"start", "stop", "upstream", "firewall"},
           NEW n, Launch(s, n), OwnerShape(n),
           \/ /\ host' = host /\ session'.fw = session.fw
              /\ session'.alive = session.alive
           \/ host' = DropSession(host, session)
    PROVE  OwnerInv'
<1>1. task[s].fw # "loaded"
    BY DEF OwnerInv, OwnerShape
<1>2. CASE host' = host /\ session'.fw = session.fw /\ session'.alive = session.alive
    BY <1>1, <1>2, LaunchKeepsOwner DEF Ready, FirewallPassed
<1>3. CASE host' = DropSession(host, session)
  <2>1. HasRules(host') => HasRules(host) /\ (session.alive => session.fw = "taken")
    BY <1>3, DropSessionRules DEF TypeOK
  <2> QED
    BY <1>1, <2>1, LaunchKeepsOwner DEF Ready, FirewallPassed
<1> QED
    BY <1>2, <1>3

(* Every handler. *)
LEMMA HandleKeepsOwner ==
    ASSUME TypeOK, OwnerInv, Exhausted(Losses)', NEW s \in Slots, Handle(s)
    PROVE  OwnerInv'
<1> DEFINE t == task[s]
<1>1. /\ t \in TaskState /\ session \in SessionState /\ OwnerShape(t)
      /\ OwnerShape(Idle)
    BY DEF TypeOK, OwnerInv, OwnerShape, Placed, Idle
<1>2. \A op \in {"resolver", "dhcp", "natpmp"} :
        OwnerShape([Idle EXCEPT !.op = op, !.pc = "work"])
    BY DEF OwnerShape, Placed, Idle
<1>3. CASE OnSharingStarted(s)
  <2>1. Receive(s)
    BY <1>3 DEF OnSharingStarted
  <2>2. session.alive => GiveBack(t).alive /\ GiveBack(t).fw = t.fw
    BY <1>1, GiveBackFields
  <2>3. CASE host' = DropSession(HostAfterGiveBack(t), GiveBack(t)) /\ Release(s)
    BY <2>1, <2>3, LastKeepsOwner DEF Release
  <2>4. CASE /\ host' = HostAfterGiveBack(t)
             /\ session' = GiveBack(t)
             /\ Release(s)
    BY <1>1, <2>1, <2>2, <2>4, ReturnKeepsOwner DEF Release
  <2>5. CASE /\ host' = HostAfterGiveBack(t) /\ session.alive
             /\ session' = [GiveBack(t) EXCEPT !.upstream = t.vpn,
                                               !.wan = t.bypass]
             /\ Launch(s, [Idle EXCEPT !.op = "resolver", !.pc = "work"])
    <3>1. GiveBack(t) \in SessionState
      BY <1>1, GiveBackTypes
    <3>2. session'.alive /\ session'.fw = t.fw
      BY <2>2, <2>5, <3>1 DEF SessionState
    <3> QED
      BY <1>2, <2>1, <2>5, <3>2, ReturnKeepsOwner
  <2> QED
    BY <1>3, <2>3, <2>4, <2>5 DEF OnSharingStarted
<1>4. CASE OnSharingStopped(s)
    BY <1>4, LastKeepsOwner DEF OnSharingStopped, Release
<1>5. CASE OnFirewallReloaded(s) \/ OnUpstreamReloaded(s)
  <2> DEFINE back == GiveFirewallBack(t)
             kept == [back EXCEPT
                        !.server = IF session.alive THEN t.server ELSE @]
  <2>1. /\ Receive(s) /\ Release(s) /\ host' = HostAfterGiveBack(t)
        /\ \/ session' = back \/ session' = kept
           \/ session' = [kept EXCEPT !.upstream = t.vpn, !.down = FALSE]
    BY <1>5 DEF OnFirewallReloaded, OnUpstreamReloaded
  <2>2. back \in SessionState
    BY <1>1, GiveBackTypes
  <2>3. session.alive => back.alive /\ back.fw = t.fw
    BY <1>1 DEF GiveFirewallBack, SessionState
  <2> HIDE DEF back
  <2>4. session.alive => session'.alive /\ session'.fw = t.fw
    BY <2>1, <2>2, <2>3 DEF SessionState
  <2> QED
    BY <1>1, <2>1, <2>4, ReturnKeepsOwner DEF Release
<1>6. CASE OnResolverStarted(s) \/ OnDhcpStarted(s) \/ OnNatPmpStarted(s)
  <2>1. /\ Receive(s) /\ t.op \in {"resolver", "dhcp", "natpmp"}
        /\ \/ /\ host' = host /\ session'.fw = session.fw
              /\ session'.alive = session.alive
           \/ host' = DropSession(host, session)
    BY <1>1, <1>6 DEF OnResolverStarted, OnDhcpStarted, OnNatPmpStarted,
       SessionState
  <2>2. \/ Release(s) \/ \E a, b : Chain(s, a, b)
    BY <1>6 DEF OnResolverStarted, OnDhcpStarted, OnNatPmpStarted
  <2>3. PICK n : Launch(s, n) /\ OwnerShape(n)
    BY <1>1, <1>2, <2>2 DEF Chain, Release
  <2> QED
    BY <2>1, <2>3, OtherAnswerKeepsOwner
<1>7. CASE OnWanDetected(s)
  <2>1. Receive(s) /\ t.op = "wan" /\ host' = host
    BY <1>7 DEF OnWanDetected
  <2> DEFINE sess == [session EXCEPT !.wan = TRUE]
  <2>2. CASE BeginReloadFirewall(s, sess, TRUE)
    <3>1. /\ sess \in SessionState /\ sess.alive = session.alive
          /\ sess.fw = session.fw
      BY <1>1 DEF SessionState
    <3>2. t.fw # "loaded"
      BY <1>1, <2>1 DEF OwnerShape
    <3> HIDE DEF sess
    <3>3. \E on \in BOOLEAN : BeginReloadFirewall(s, sess, on)
      BY <2>2
    <3> QED
      BY <2>1, <3>1, <3>2, <3>3, BegunKeepsOwner DEF Ready
  <2>3. CASE Release(s) /\ session' = session
    BY <1>1, <2>1, <2>3, OtherAnswerKeepsOwner DEF Release
  <2> QED
    BY <1>7, <2>2, <2>3 DEF OnWanDetected
<1>8. CASE DiscardStale(s)
    BY <1>1, <1>8, OtherAnswerKeepsOwner DEF DiscardStale, Release
<1>9. CASE OnHealthCheck(s)
  <2> DEFINE seen == [session EXCEPT !.down = ~t.ok]
  <2>1. Receive(s) /\ t.op = "health" /\ t.fw # "loaded"
    BY <1>1, <1>9 DEF OnHealthCheck, OwnerShape
  <2>2. /\ seen \in SessionState /\ seen.alive = session.alive
        /\ seen.fw = session.fw
    BY <1>1 DEF SessionState, TaskState
  <2>3. \/ Release(s) /\ host' = host /\ session' \in {session, seen}
        \/ \E new \in Utuns : BeginReloadUpstream(s, new)
        \/ BeginStop(s, seen)
    BY <1>9 DEF OnHealthCheck
  <2> HIDE DEF seen
  <2>4. CASE Release(s) /\ host' = host /\ session' \in {session, seen}
    BY <1>1, <2>1, <2>2, <2>4, OtherAnswerKeepsOwner DEF Release
  <2>5. CASE \E new \in Utuns : BeginReloadUpstream(s, new)
    BY <1>1, <2>1, <2>5, BegunKeepsOwner DEF Ready
  <2>6. CASE BeginStop(s, seen)
    BY <2>1, <2>2, <2>6, BegunKeepsOwner DEF Ready
  <2> QED
    BY <2>3, <2>4, <2>5, <2>6
<1> QED
    BY <1>3, <1>4, <1>5, <1>6, <1>7, <1>8, <1>9 DEF Handle

(* The program leaves: what is left in the slots has nothing to wait for. *)
LEMMA ExitKeepsOwner ==
    ASSUME OwnerInv, Exhausted(Losses)', phase' # "running", chan' = <<>>,
           \A s \in Slots : task'[s] \in {task[s], Idle}
    PROVE  OwnerInv'
<1>1. OwnerShape(Idle)
    BY DEF OwnerShape, Placed, Idle
<1>2. \A s \in Slots : OwnerShape(task'[s])
    BY <1>1 DEF OwnerInv
<1>3. Queued'
    BY DEF Queued
<1> QED
    BY <1>2, <1>3 DEF OwnerInv

(* What starts nothing and loads nothing. *)
LEMMA IdleKeepsOwner ==
    ASSUME OwnerInv, Exhausted(Losses)', UNCHANGED <<phase, session, task, chan>>,
           HasRules(host') => HasRules(host)
    PROVE  OwnerInv'
<1>1. Queued'
    BY DEF OwnerInv, Queued
<1> QED
    BY <1>1 DEF OwnerInv, OwnedBy

(* Every key. *)
LEMMA UserStepKeepsOwner ==
    ASSUME TypeOK, OwnerInv, Exhausted(Losses)', UserStep
    PROVE  OwnerInv'
<1>1. /\ session \in SessionState /\ host \in HostState
      /\ \A s \in Free : s \in Slots /\ task[s].pc = "idle"
    BY DEF TypeOK, Free
<1>2. ASSUME BeginExit PROVE OwnerInv'
  <2>1. /\ phase' # "running" /\ chan' = <<>>
        /\ \A s \in Slots : task'[s] \in {task[s], Idle}
    BY <1>2 DEF BeginExit, TypeOK
  <2> QED
    BY <2>1, ExitKeepsOwner
<1>3. \A s \in Free : task[s].fw # "loaded"
    BY <1>1 DEF OwnerInv, OwnerShape, Placed
<1>4. CASE OpenPicker \/ Navigate
    BY <1>4, IdleKeepsOwner DEF OpenPicker, Navigate
<1>5. CASE Cancel
  <2>1. \/ BeginExit
        \/ UNCHANGED <<phase, session, task, chan, host>>
    BY <1>5 DEF Cancel
  <2> QED
    BY <1>2, <2>1, IdleKeepsOwner
<1>6. CASE KeyAfterQuit \/ Interrupt
    BY <1>2, <1>6 DEF KeyAfterQuit, Interrupt
<1>7. ASSUME NEW s \in Slots, StopSharing(s) PROVE OwnerInv'
    BY <1>1, <1>3, <1>7, BegunKeepsOwner DEF StopSharing, Ready
<1>8. ASSUME NEW s \in Slots, Quit(s) PROVE OwnerInv'
  <2>1. CASE s \in Free /\ BeginStop(s, session) /\ UNCHANGED <<phase, chan>>
    BY <1>1, <1>3, <2>1, BegunKeepsOwner DEF Ready
  <2>2. CASE UNCHANGED <<phase, session, task, chan, host>>
    BY <2>2, IdleKeepsOwner
  <2> QED
    BY <1>2, <1>8, <2>1, <2>2 DEF Quit
<1>9. ASSUME NEW s \in Slots, ToggleBypass(s) PROVE OwnerInv'
  <2>1. /\ s \in Free /\ phase' = phase /\ chan' = chan /\ host' = host
        /\ \/ UNCHANGED <<session, task>>
           \/ \E on \in BOOLEAN : BeginReloadFirewall(s, session, on)
           \/ /\ Launch(s, [Idle EXCEPT !.op = "wan", !.pc = "work"])
              /\ session' = session
    BY <1>9 DEF ToggleBypass
  <2>2. CASE UNCHANGED <<session, task>>
    BY <2>1, <2>2, IdleKeepsOwner
  <2>3. CASE \E on \in BOOLEAN : BeginReloadFirewall(s, session, on)
    BY <1>1, <1>3, <2>1, <2>3, BegunKeepsOwner DEF Ready
  <2>4. CASE /\ Launch(s, [Idle EXCEPT !.op = "wan", !.pc = "work"])
             /\ session' = session
    <3>1. OwnerShape([Idle EXCEPT !.op = "wan", !.pc = "work"])
      BY DEF OwnerShape, Placed, Idle
    <3> QED
      BY <1>1, <1>3, <2>1, <2>4, <3>1, LaunchKeepsOwner DEF Ready, FirewallPassed
  <2> QED
    BY <2>1, <2>2, <2>3, <2>4
<1>10. ASSUME NEW s \in Slots, NEW vpn \in up, StartSharing(s, vpn)
       PROVE  OwnerInv'
  <2> DEFINE t == [Idle EXCEPT !.op = "start", !.pc = "enable", !.vpn = vpn,
                               !.bypass = allowOn]
  <2>1. t.op = "start" /\ t.pc = "enable" /\ t.fw = "unloaded" /\ t.nat = FALSE
    BY DEF Idle
  <2>2. /\ Launch(s, t) /\ host' = DropSession(host, session) /\ s \in Free
        /\ phase' = phase /\ chan' = chan
    BY <1>10 DEF StartSharing
  <2> HIDE DEF t
  <2>3. OwnerShape(t)
    BY <2>1 DEF OwnerShape, Placed
  <2>4. HasRules(host') => HasRules(host) /\ (session.alive => session.fw = "taken")
    BY <1>1, <2>2, DropSessionRules
  <2> QED
    BY <1>1, <1>3, <2>2, <2>3, <2>4, LaunchKeepsOwner DEF Ready, FirewallPassed
<1> QED
    BY <1>2, <1>4, <1>5, <1>6, <1>7, <1>8, <1>9, <1>10 DEF UserStep

(* A probe is launched; the runtime goes; the machine moves. *)
LEMMA OtherStepKeepsOwner ==
    ASSUME TypeOK, OwnerInv, Exhausted(Losses)',
           \/ \E s \in Slots : SpawnHealthCheck(s)
           \/ EnvironmentStep \/ RuntimeDrop
    PROVE  OwnerInv'
<1>1. ASSUME NEW s \in Slots, SpawnHealthCheck(s) PROVE OwnerInv'
  <2> DEFINE t == [Idle EXCEPT !.op = "health", !.pc = "probe",
                               !.vpn = session.upstream,
                               !.bypass = session.wan,
                               !.on = allowOn /\ session.wan]
  <2>1. t.op = "health" /\ t.pc = "probe" /\ t.fw = "unloaded" /\ t.nat = FALSE
    BY DEF Idle
  <2>2. /\ Launch(s, t) /\ task[s].pc = "idle"
        /\ UNCHANGED <<phase, session, chan, host>>
    BY <1>1 DEF SpawnHealthCheck, Free, appVars
  <2> HIDE DEF t
  <2>3. OwnerShape(t) /\ task[s].fw # "loaded"
    BY <2>1, <2>2 DEF OwnerInv, OwnerShape, Placed
  <2> QED
    BY <2>2, <2>3, LaunchKeepsOwner DEF Ready, FirewallPassed
<1>2. CASE EnvironmentStep
  <2>1. HasRules(host') => HasRules(host)
    BY <1>2 DEF EnvironmentStep, NatPmpExit, DropVpn, FlushMain, SwapVpn,
       Deny, Relent, HasRules, RulesAreOut, TypeOK, HostState
  <2> QED
    BY <1>2, <2>1, IdleKeepsOwner DEF EnvironmentStep, NatPmpExit, DropVpn,
       FlushMain, SwapVpn, Deny, Relent, appVars
<1>3. CASE RuntimeDrop
  <2>1. /\ phase' # "running" /\ chan' = <<>>
        /\ \A s \in Slots : task'[s] \in {task[s], Idle}
    BY <1>3 DEF RuntimeDrop, OwnerInv, Queued
  <2> QED
    BY <2>1, ExitKeepsOwner
<1> QED
    BY <1>1, <1>2, <1>3

(* OwnerInv is inductive. *)
LEMMA NextKeepsOwner ==
    ASSUME TypeOK, OwnerInv, [Next]_vars
    PROVE  OwnerInv'
<1>1. Exhausted(Losses)'
    BY ExhaustedStays DEF OwnerInv, Losses, Events
<1>2. ASSUME NEW s \in Slots, TaskStep(s) PROVE OwnerInv'
  <2>1. TaskOwns(s) /\ UNCHANGED <<phase, session>>
    BY <1>2, TaskStepOwns DEF OwnerInv, TaskStep, appVars
  <2>2. Queued'
    BY <2>1, AnswerKeepsQueue DEF OwnerInv
  <2>3. \A r \in Slots : OwnerShape(task'[r])
    BY <2>1 DEF OwnerInv, TaskOwns
  <2>4. phase' = "running" /\ HasRules(host') => OwnedBy(session', task')
    BY <2>1 DEF OwnerInv, OwnedBy, TaskOwns
  <2> QED
    BY <1>1, <2>2, <2>3, <2>4 DEF OwnerInv
<1>3. \A s \in Slots : ~LateStep(s)
    BY DEF OwnerInv, OwnerShape, Placed, LateStep
<1>4. CASE UNCHANGED vars
    BY <1>1, <1>4, IdleKeepsOwner DEF vars, appVars
<1> QED
    BY <1>1, <1>2, <1>3, <1>4, UserStepKeepsOwner, HandleKeepsOwner,
       OtherStepKeepsOwner DEF Next, PollStep

(* The program starts with no rules. *)
LEMMA InitOwner ==
    ASSUME Never(Losses), Init
    PROVE  OwnerInv
<1>1. Exhausted(Losses)
    BY DEF Init, Never, Exhausted
<1>2. OwnerShape(Idle) /\ ~HasRules(host)
    BY DEF Init, OwnerShape, Placed, Idle, HasRules, RulesAreOut, PristineHost
<1>3. Queued
    BY DEF Init, Queued
<1> QED
    BY <1>1, <1>2, <1>3 DEF Init, OwnerInv

(* While the program runs, no operation that was cancelled half way leaves *)
(* rules behind when the session is over (Drop for Firewall, the stale     *)
(* branches of the result handlers), but those that pf was told to give up *)
(* and refused: any number of cancels, restarts, Ctrl+Cs, switches, swaps  *)
(* and flushes, as long as pf takes what it is given to load before the    *)
(* operation's time is over.  A load that fails or is cut short between    *)
(* the anchor body and MAIN leaves rules with a Firewall that does not     *)
(* count them as loaded, and a self-heal has no Firewall.                  *)
THEOREM RulesAreOwned ==
    ASSUME Never(Losses)
    PROVE  Spec => []RulesHaveOwner
<1>1. Init => TypeOK /\ PendingInv /\ OwnerInv
    BY InitEstablishes, InitOwner
<1>2. TypeOK /\ PendingInv /\ OwnerInv /\ [Next]_vars
        => (TypeOK /\ PendingInv /\ OwnerInv)'
    BY NextKeeps, NextKeepsOwner
<1>3. TypeOK /\ OwnerInv => RulesHaveOwner
  <2> SUFFICES ASSUME TypeOK, OwnerInv, phase = "running", Ended, HasRules(host)
               PROVE  FALSE
    BY DEF RulesHaveOwner, HasRules
  <2>1. PICK s \in Slots : Owns(task[s])
    BY DEF OwnerInv, OwnedBy, Ended
  <2>2. task[s].pc = "idle"
    BY DEF Ended, Quiet
  <2> QED
    BY <2>1, <2>2 DEF OwnerInv, OwnerShape, Placed, Owns
<1> QED
    BY <1>1, <1>2, <1>3, PTL DEF Spec

-----------------------------------------------------------------------------
(***************************************************************************)
(* Part 4.  The rules follow the upstream of the session.                  *)
(***************************************************************************)

(* Where an answer puts its task, while the App is there to hear it. *)
LEMMA AnswerFollows ==
    ASSUME TypeOK, NEW s \in Slots, NEW t \in TaskState, NEW h, Answer(s, t, h),
           phase = "running"
    PROVE  /\ host' = h /\ task'[s].op = t.op /\ task'[s].vpn = t.vpn
           /\ task'[s].ok = t.ok /\ task'[s].pc = "sent"
<1> DEFINE n == [t EXCEPT !.pc = "sent"]
<1>1. n.op = t.op /\ n.vpn = t.vpn /\ n.ok = t.ok /\ n.pc = "sent"
    BY DEF TaskState
<1>2. Launch(s, n) /\ host' = h
    BY DEF Answer
<1> HIDE DEF n
<1> QED
    BY <1>1, <1>2, Filled

\* What a step of an operation does to the rules.
TaskFollows(s) ==
    /\ FollowsRoute(task[s])'
    /\ task[s].op \notin {"start", "stop", "upstream"} =>
           host'.body \in {host.body, session.upstream}

(* Every step of an operation. *)
LEMMA WorkFollows ==
    ASSUME TypeOK, PendingInv, SoloInv, FollowInv, Exhausted(Losses),
           NEW s \in Slots, TaskStep(s), Working(task[s]), phase = "running"
    PROVE  TaskFollows(s)
<1> DEFINE t == task[s]
<1>1. /\ t \in TaskState /\ TaskShape(t) /\ host \in HostState
      /\ t.op \notin {"none", "health"} /\ FollowsRoute(t) /\ t.pc # "sent"
    BY StepUnanswered DEF TypeOK, SoloInv, Working, FollowInv
<1>2. /\ ~Spend("fail") /\ ~Spend("timeout") /\ ~Spend("linger")
      /\ session' = session /\ task'[s].op = t.op
    BY NoLosses, TaskStepKeepsSolo DEF TaskStep, appVars, TaskMove
<1>3. CASE t.op \in {"resolver", "dhcp", "natpmp", "wan", "stop"}
  <2>1. t.op # "stop" => host'.body = host.body
    <3> SUFFICES ASSUME t.op # "stop" PROVE host'.body = host.body
      OBVIOUS
    <3>1. t.pc = "work"
      BY <1>1, <1>3 DEF TaskShape, Placed
    <3>2. ServeStep(s) \/ WorkStep(s) \/ DhcpStep(s)
      BY <1>2, <3>1 DEF TaskStep, EnableForwardingStep, DetectStep,
         LoadBodyStep, MergeMainStep, StopDnsmasqStep, CleanupStep,
         RestoreStep, ProbeStep, TimeoutStep, LingerStep
    <3>3. \E u, h : /\ Answer(s, u, h)
                    /\ h \in {host, BindNatPmp(host), StartDnsmasq(host),
                              StopDnsmasq(host)}
      BY <1>2, <3>2 DEF ServeStep, WorkStep, DhcpStep
    <3>4. host' \in {host, BindNatPmp(host), StartDnsmasq(host),
                     StopDnsmasq(host)}
      BY <3>3 DEF Answer
    <3> QED
      BY <1>1, <3>4, EffectsLeave
  <2> QED
    BY <1>2, <1>3, <2>1 DEF TaskFollows, FollowsRoute
<1>4. CASE t.op \in {"start", "upstream", "firewall"}
  <2>1. t.vpn \in Utuns /\ t.pc # "work"
    BY <1>1, <1>4 DEF TaskShape, Placed
  <2>2. CASE EnableForwardingStep(s)
    <3> DEFINE n == [t EXCEPT !.pc = "detect", !.fwd = Remember(host, @)]
    <3>1. Advance(s, n, EnableForwarding(host)) /\ t.pc = "enable"
      BY <1>2, <2>2 DEF EnableForwardingStep
    <3>2. t.op = "start"
      BY <1>1, <3>1, PcTells
    <3>3. n.pc = "detect" /\ n.op = t.op
      BY <1>1 DEF TaskState
    <3> HIDE DEF n
    <3> QED
      BY <3>1, <3>2, <3>3, Filled DEF Advance, TaskFollows, FollowsRoute
  <2>3. CASE DetectStep(s)
    <3> DEFINE n == [t EXCEPT !.pc = "body"]
    <3>1. Advance(s, n, host) /\ t.pc = "detect"
      BY <1>2, <2>3 DEF DetectStep
    <3>2. t.op \in {"start", "upstream"}
      BY <1>1, <3>1, PcTells
    <3>3. n.pc = "body" /\ n.op = t.op
      BY <1>1 DEF TaskState
    <3> HIDE DEF n
    <3> QED
      BY <3>1, <3>2, <3>3, Filled DEF Advance, TaskFollows, FollowsRoute
  <2>4. CASE LoadBodyStep(s)
    <3> DEFINE n == [t EXCEPT !.pc = "hooks"]
               h == LoadBody(host, t.vpn, t.bypass)
    <3>1. Advance(s, n, h) /\ t.pc = "body"
      BY <1>2, <2>4 DEF LoadBodyStep
    <3>2. n.pc = "hooks" /\ n.op = t.op /\ n.vpn = t.vpn
      BY <1>1 DEF TaskState
    <3>3. h.body = t.vpn
      BY <1>1 DEF LoadBody, HostState
    <3> HIDE DEF n, h
    <3>4. task'[s] = n /\ host' = h
      BY <3>1, Filled DEF Advance
    <3> QED
      BY <1>1, <1>2, <1>4, <3>2, <3>3, <3>4 DEF TaskFollows, FollowsRoute
  <2>5. CASE MergeMainStep(s)
    <3> DEFINE done == [t EXCEPT !.fw = IF t.op = "health" THEN @ ELSE "loaded",
                                 !.ok = TRUE]
               n == [done EXCEPT !.pc = "serve"]
               h == MergeMain(host)
    <3>1. done \in TaskState /\ done.op = t.op /\ done.vpn = t.vpn /\ done.ok
      BY <1>1 DEF TaskState, FirewallManager
    <3>2. n.op = t.op /\ n.vpn = t.vpn /\ n.pc = "serve" /\ n.ok
      <4> HIDE DEF done
      <4> QED
        BY <3>1 DEF TaskState
    <3>3. h.body = host.body
      BY <1>1 DEF MergeMain, HostState
    <3>4. t.pc = "hooks" /\ (Advance(s, n, h) \/ Answer(s, done, h))
      BY <1>2, <2>5 DEF MergeMainStep
    <3> HIDE DEF done, n, h
    <3>5. /\ host' = h /\ task'[s].op = t.op /\ task'[s].vpn = t.vpn
          /\ task'[s].ok
      BY <3>1, <3>2, <3>4, Filled, AnswerFollows DEF Advance
    <3> QED
      BY <1>1, <1>2, <1>4, <3>3, <3>4, <3>5 DEF TaskFollows, FollowsRoute
  <2>6. CASE ServeStep(s)
    <3> DEFINE bound == CanBindNatPmp(host)
               n == [t EXCEPT !.server = bound,
                              !.ok = IF t.op = "natpmp" THEN bound ELSE @]
               h == IF bound THEN BindNatPmp(host) ELSE host
    <3>1. Answer(s, n, h) /\ t.pc = "serve"
      BY <1>4, <2>1, <2>6 DEF ServeStep
    <3>2. t.op = "upstream"
      BY <1>1, <3>1, PcTells
    <3>3. bound \in BOOLEAN
      BY DEF CanBindNatPmp
    <3>4. h.body = host.body
      BY <1>1 DEF BindNatPmp, HostState
    <3> HIDE DEF bound, h
    <3>5. n \in TaskState /\ n.op = t.op /\ n.vpn = t.vpn /\ n.ok = t.ok
      BY <1>1, <3>2, <3>3 DEF TaskState
    <3> HIDE DEF n
    <3>6. /\ host' = h /\ task'[s].op = t.op /\ task'[s].vpn = t.vpn
          /\ task'[s].ok = t.ok
      BY <3>1, <3>5, AnswerFollows
    <3> QED
      BY <1>1, <3>1, <3>2, <3>4, <3>6 DEF TaskFollows, FollowsRoute
  <2> QED
    BY <1>1, <1>2, <1>4, <2>1, <2>2, <2>3, <2>4, <2>5, <2>6, PcTells
       DEF TaskStep, WorkStep, DhcpStep, StopDnsmasqStep, CleanupStep,
       RestoreStep, ProbeStep, TimeoutStep, LingerStep, TaskShape, Placed
<1> QED
    BY <1>1, <1>3, <1>4 DEF TaskState, TaskShape, Placed

(* FollowInv is kept by every task. *)
LEMMA TaskStepKeepsFollow ==
    ASSUME TypeOK, PendingInv, SoloInv, OwnerInv, FollowInv, NEW s \in Slots,
           TaskStep(s)
    PROVE  FollowInv'
<1>1. /\ TaskMove(s)
      /\ UNCHANGED <<pending, session>>
    BY TaskStepKeepsSolo DEF TaskStep, appVars
<1>2. \A r \in Slots : r # s => task'[r] = task[r]
    BY <1>1 DEF TaskMove
<1>3. CASE task[s].op = "health"
  <2>1. ~Spend("heal") /\ ProbesOnly
    BY NoLosses DEF OwnerInv, OwnerShape, ProbesOnly
  <2>2. host' = host /\ task'[s].op \in {"health", "none"}
    BY <1>3, <2>1, ProbeLooks
  <2> QED
    BY <1>1, <1>2, <2>2 DEF FollowInv, FollowsRoute
<1>4. CASE task[s].op # "health"
  <2>1. Working(task[s])
    BY <1>4, StepUnanswered DEF Working
  <2>2. phase = "running" /\ Alone(s)
    BY <2>1, AnswersPending DEF SoloInv, Custody
  <2>3. TaskFollows(s)
    BY <2>1, <2>2, WorkFollows DEF OwnerInv
  <2>4. \A r \in Slots : r # s => ~Working(task[r])
    BY <2>1 DEF SoloInv, OneWorker
  <2>5. \A r \in Slots : FollowsRoute(task[r])'
    BY <1>2, <2>3, <2>4 DEF TaskFollows, FollowsRoute, Working
  <2>6. /\ task[s].op = "start" => pending = "StartingSharing"
        /\ task[s].op = "stop" => pending = "StoppingSharing"
        /\ task[s].op = "upstream" => pending = "ReloadingUpstream"
    BY AnswersPending
  <2> QED
    BY <1>1, <2>3, <2>5, <2>6 DEF FollowInv, TaskFollows
<1> QED
    BY <1>3, <1>4

-----------------------------------------------------------------------------
(* Steps of the App.                                                       *)

\* Pending operations under which the rules may name another tunnel.
Moving == {"StartingSharing", "StoppingSharing", "ReloadingUpstream"}

(* Whatever takes the slot of the last worker, the others are probes. *)
LEMMA FilledFollows ==
    ASSUME TypeOK, SoloInv, FollowInv, NEW s \in Slots, NEW t, Launch(s, t),
           Alone(s), FollowsRoute(task[s])',
           session'.alive /\ pending' \notin Moving
             => host'.body = session'.upstream
    PROVE  FollowInv'
<1>1. /\ task'[s] = t
      /\ \A r \in Slots : r # s => task'[r] = task[r] /\ ~Working(task[r])
    BY Filled DEF SoloInv, OneWorker, Alone
<1>2. \A r \in Slots : FollowsRoute(task[r])'
    BY <1>1 DEF FollowsRoute, Working
<1> QED
    BY <1>2 DEF FollowInv, Moving

(* When a session is over nothing works for it. *)
LEMMA EndFollows ==
    ASSUME SoloInv', PendingInv', ~session'.alive
    PROVE  FollowInv'
<1>1. pending' = "none"
    BY DEF PendingInv, PendingHasTask
<1>2. \A r \in Slots : ~Working(task'[r])
    BY <1>1 DEF SoloInv, OneWorker
<1>3. \A r \in Slots : FollowsRoute(task[r])'
    BY <1>2 DEF Working, FollowsRoute
<1> QED
    BY <1>3 DEF FollowInv

(* What moves neither rules nor upstream, and starts no work. *)
LEMMA IdleFollows ==
    ASSUME FollowInv, \A r \in Slots : task'[r] = task[r] \/ ~Working(task'[r]),
           host'.body = host.body, pending' = pending,
           session'.alive = session.alive,
           session'.upstream = session.upstream
    PROVE  FollowInv'
<1>1. \A r \in Slots : FollowsRoute(task[r])'
    BY DEF FollowInv, FollowsRoute, Working
<1> QED
    BY <1>1 DEF FollowInv

(* A stop begins. *)
LEMMA BeginStopFollows ==
    ASSUME TypeOK, SoloInv, FollowInv, NEW s \in Slots, NEW sess,
           BeginStop(s, sess), pending = "none"
    PROVE  FollowInv'
<1> DEFINE t == [Idle EXCEPT !.op = "stop", !.pc = "dnsmasq",
                             !.dhcp = sess.dhcp, !.fw = TakenFw(sess),
                             !.fwd = TakenFwd(sess)]
<1>1. t.op = "stop"
    BY DEF Idle
<1>2. Launch(s, t) /\ pending' = "StoppingSharing"
    BY DEF BeginStop
<1> HIDE DEF t
<1>3. FollowsRoute(task[s])'
    BY <1>1, <1>2, Filled DEF FollowsRoute
<1> QED
    BY <1>2, <1>3, FilledFollows DEF Alone, Moving

(* A reload begins: for a swap, or for the switch. *)
LEMMA BeginReloadFollows ==
    ASSUME TypeOK, SoloInv, FollowInv, NEW s \in Slots, NEW sess \in SessionState,
           sess.upstream = session.upstream,
           \/ /\ host' = host
              /\ \E on \in BOOLEAN : BeginReloadFirewall(s, sess, on)
           \/ \E new \in Utuns : BeginReloadUpstream(s, new),
           session.alive, pending \in {"none", "DetectingWan"}, Alone(s)
    PROVE  FollowInv'
<1>1. CASE \E new \in Utuns : BeginReloadUpstream(s, new)
  <2>1. PICK new \in Utuns : BeginReloadUpstream(s, new)
    BY <1>1
  <2> DEFINE t == [Idle EXCEPT !.op = "upstream", !.pc = "detect",
                               !.fw = TakenFw(session), !.vpn = new,
                               !.bypass = session.wan, !.nat = session.nat]
  <2>2. t.op = "upstream" /\ t.pc = "detect"
    BY DEF Idle
  <2>3. Launch(s, t) /\ pending' = "ReloadingUpstream"
    BY <2>1 DEF BeginReloadUpstream
  <2> HIDE DEF t
  <2>4. FollowsRoute(task[s])'
    BY <2>2, <2>3, Filled DEF FollowsRoute
  <2> QED
    BY <2>3, <2>4, FilledFollows DEF Moving
<1>2. CASE host' = host /\ \E on \in BOOLEAN : BeginReloadFirewall(s, sess, on)
  <2>1. PICK on \in BOOLEAN : BeginReloadFirewall(s, sess, on)
    BY <1>2
  <2> DEFINE t == [Idle EXCEPT !.op = "firewall", !.pc = "body",
                               !.fw = TakenFw(sess), !.vpn = sess.upstream,
                               !.bypass = on, !.on = on]
  <2>2. t.op = "firewall" /\ t.vpn = session.upstream
    BY DEF Idle
  <2>3. Launch(s, t) /\ session' = WithPlaceholder(sess)
    BY <2>1 DEF BeginReloadFirewall
  <2>4. session'.upstream = session.upstream
    BY <2>3 DEF WithPlaceholder, SessionState
  <2> HIDE DEF t
  <2>5. FollowsRoute(task[s])'
    BY <2>2, <2>3, <2>4, Filled DEF FollowsRoute
  <2>6. host.body = session.upstream
    BY DEF FollowInv
  <2> QED
    BY <1>2, <2>3, <2>4, <2>5, <2>6, FilledFollows
<1> QED
    BY <1>1, <1>2

(* Every key. *)
LEMMA UserStepFollows ==
    ASSUME TypeOK, PendingInv, SoloInv, FollowInv, SoloInv', PendingInv',
           UserStep
    PROVE  FollowInv'
<1>1. session \in SessionState /\ Free \subseteq Slots
    BY DEF TypeOK, Free
<1>2. ~Cancel /\ ~Interrupt
    BY NotSpent DEF SoloInv, Cancel, Interrupt, Disturbances
<1>3. ASSUME BeginExit PROVE FollowInv'
    BY <1>3, EndFollows DEF BeginExit, NoSession
<1>4. CASE OpenPicker \/ Navigate
    BY <1>4, IdleFollows DEF OpenPicker, Navigate
<1>5. ASSUME NEW s \in Slots, StopSharing(s) PROVE FollowInv'
    BY <1>5, BeginStopFollows DEF StopSharing, KeyReady
<1>6. ASSUME NEW s \in Slots, Quit(s) PROVE FollowInv'
  <2>1. CASE UNCHANGED <<pending, session, task, host>>
    BY <2>1, IdleFollows
  <2> QED
    BY <1>3, <1>6, <2>1, BeginStopFollows DEF Quit
<1>7. ASSUME NEW s \in Slots, ToggleBypass(s) PROVE FollowInv'
  <2>1. /\ pending = "none" /\ Alone(s) /\ host' = host
        /\ \/ UNCHANGED <<pending, session, task>>
           \/ /\ session.alive
              /\ \E on \in BOOLEAN : BeginReloadFirewall(s, session, on)
           \/ /\ pending' = "DetectingWan" /\ session.alive
              /\ Launch(s, [Idle EXCEPT !.op = "wan", !.pc = "work"])
              /\ session' = session
    BY <1>7 DEF ToggleBypass, KeyReady, Alone
  <2>2. CASE UNCHANGED <<pending, session, task>>
    BY <2>1, <2>2, IdleFollows
  <2>3. CASE /\ session.alive
             /\ \E on \in BOOLEAN : BeginReloadFirewall(s, session, on)
    BY <1>1, <2>1, <2>3, BeginReloadFollows
  <2>4. CASE /\ pending' = "DetectingWan" /\ session.alive
             /\ Launch(s, [Idle EXCEPT !.op = "wan", !.pc = "work"])
             /\ session' = session
    <3> DEFINE t == [Idle EXCEPT !.op = "wan", !.pc = "work"]
    <3>1. t.op = "wan"
      BY DEF Idle
    <3>2. Launch(s, t)
      BY <2>4
    <3> HIDE DEF t
    <3>3. FollowsRoute(task[s])'
      BY <3>1, <3>2, Filled DEF FollowsRoute
    <3> QED
      BY <2>1, <2>4, <3>2, <3>3, FilledFollows DEF FollowInv
  <2> QED
    BY <2>1, <2>2, <2>3, <2>4
<1>8. ASSUME NEW s \in Slots, NEW vpn, StartSharing(s, vpn) PROVE FollowInv'
  <2> DEFINE t == [Idle EXCEPT !.op = "start", !.pc = "enable", !.vpn = vpn,
                               !.bypass = allowOn]
  <2>1. t.op = "start" /\ t.pc = "enable"
    BY DEF Idle
  <2>2. Launch(s, t) /\ pending' = "StartingSharing" /\ pending = "none"
    BY <1>8 DEF StartSharing, KeyReady
  <2> HIDE DEF t
  <2>3. FollowsRoute(task[s])'
    BY <2>1, <2>2, Filled DEF FollowsRoute
  <2> QED
    BY <2>2, <2>3, FilledFollows DEF Alone, Moving
<1> QED
    BY <1>2, <1>3, <1>4, <1>5, <1>6, <1>7, <1>8 DEF UserStep, KeyAfterQuit

(* The result of a start or of a swap that is handled says that it worked. *)
LEMMA ReceivedFollows ==
    ASSUME TypeOK, OwnerInv, FollowInv, NEW s \in Slots, Receive(s),
           task[s].op \in {"start", "upstream"}
    PROVE  task[s].ok /\ host.body = task[s].vpn
<1>1. task[s].pc = "sent"
    BY ReceivedIsSent DEF OwnerInv
<1> QED
    BY <1>1 DEF FollowInv, FollowsRoute

(* Every handler. *)
LEMMA HandleFollows ==
    ASSUME TypeOK, PendingInv, SoloInv, OwnerInv, FollowInv,
           Exhausted(Disturbances)', SoloInv', PendingInv', NEW s \in Slots,
           Handle(s)
    PROVE  FollowInv'
<1> DEFINE t == task[s]
<1>1. t \in TaskState /\ session \in SessionState
    BY DEF TypeOK
<1>2. ASSUME Release(s) PROVE task'[s] = Idle /\ FollowsRoute(task[s])'
    BY <1>2, Filled DEF Release, FollowsRoute, Idle
<1>3. CASE OnSharingStarted(s)
  <2> DEFINE kept == GiveBack(t)
             n == [Idle EXCEPT !.op = "resolver", !.pc = "work"]
  <2>1. /\ t.op = "start" /\ pending = "StartingSharing" /\ session.alive
        /\ Alone(s) /\ t.ok /\ host.body = t.vpn
    BY <1>1, <1>3, AnswersPending, ReceivedFollows DEF OnSharingStarted, Working
  <2>2. session.fw = "taken"
    BY <2>1 DEF SoloInv, Custody
  <2>3. HostAfterGiveBack(t) = host /\ kept \in SessionState
    BY <1>1, <2>1, <2>2, GiveBackFields
  <2>4. n.op = "resolver"
    BY DEF Idle
  <2> HIDE DEF kept, n
  <2>5. /\ host' = host /\ Launch(s, n)
        /\ session' = [kept EXCEPT !.upstream = t.vpn, !.wan = t.bypass]
    BY <1>3, <2>1, <2>3 DEF OnSharingStarted, kept, n
  <2>6. session'.upstream = t.vpn
    BY <1>1, <2>3, <2>5 DEF SessionState
  <2>7. FollowsRoute(task[s])'
    BY <2>4, <2>5, Filled DEF FollowsRoute
  <2> QED
    BY <2>1, <2>5, <2>6, <2>7, FilledFollows
<1>4. CASE OnResolverStarted(s) \/ OnDhcpStarted(s) \/ OnNatPmpStarted(s)
  <2>1. /\ pending \in StartChain \ {"StartingSharing"} /\ session.alive
        /\ Alone(s)
    BY <1>4, AnswersPending DEF OnResolverStarted, OnDhcpStarted,
       OnNatPmpStarted, Working, StartChain
  <2>2. CASE session' = NoSession
    BY <2>2, EndFollows DEF NoSession
  <2>3. CASE /\ host' = host /\ session'.upstream = session.upstream
             /\ \E a, b : Chain(s, a, b)
    <3>1. PICK n : Launch(s, n) /\ n.op \in {"none", "dhcp", "natpmp"}
      <4>1. Idle.op = "none" /\ \A op \in {"dhcp", "natpmp"} :
                 [Idle EXCEPT !.op = op, !.pc = "work"].op = op
        BY DEF Idle
      <4> QED
        BY <2>3, <4>1 DEF Chain, Release
    <3>2. FollowsRoute(task[s])'
      BY <3>1, Filled DEF FollowsRoute
    <3>3. host.body = session.upstream
      BY <2>1 DEF FollowInv, StartChain
    <3> QED
      BY <2>1, <2>3, <3>1, <3>2, <3>3, FilledFollows
  <2> QED
    BY <1>1, <1>4, <2>2, <2>3 DEF OnResolverStarted, OnDhcpStarted,
       OnNatPmpStarted, SessionState
<1>5. CASE OnSharingStopped(s)
    BY <1>5, EndFollows DEF OnSharingStopped, NoSession
<1>6. CASE OnFirewallReloaded(s) \/ OnUpstreamReloaded(s)
  <2> DEFINE back == GiveFirewallBack(t)
             kept == [back EXCEPT
                        !.server = IF session.alive THEN t.server ELSE @]
  <2>1. /\ t.op \in {"firewall", "upstream"} /\ Working(t)
        /\ t.op = "firewall" <=> OnFirewallReloaded(s)
    BY <1>6 DEF OnFirewallReloaded, OnUpstreamReloaded, Working
  <2>2. /\ session.alive /\ Alone(s)
        /\ t.op = "firewall" => pending = "ReloadingFirewall"
        /\ pending \in {"ReloadingFirewall", "ReloadingUpstream"}
    BY <2>1, AnswersPending
  <2>3. session.fw = "unloaded" /\ session.fwd # "taken"
    BY <2>2 DEF SoloInv, Custody
  <2>4. host' = host /\ Release(s)
    BY <1>1, <1>6, <2>2, <2>3, GiveBackFields
       DEF OnFirewallReloaded, OnUpstreamReloaded
  <2>5. back \in SessionState /\ back.upstream = session.upstream
    BY <1>1, <2>2, <2>3, GiveFirewallBackFields
  <2>6. kept \in SessionState
    <3> HIDE DEF back
    <3> QED
      BY <1>1, <2>5 DEF SessionState, TaskState
  <2>7. CASE OnFirewallReloaded(s)
    <3>1. session'.upstream = session.upstream /\ host.body = session.upstream
      BY <2>1, <2>2, <2>5, <2>7 DEF OnFirewallReloaded, FollowInv
    <3> QED
      BY <1>2, <2>2, <2>4, <3>1, FilledFollows DEF Release
  <2>8. CASE OnUpstreamReloaded(s)
    <3>1. t.ok /\ host.body = t.vpn
      BY <2>8, ReceivedFollows DEF OnUpstreamReloaded
    <3>2. session' = [kept EXCEPT !.upstream = t.vpn, !.down = FALSE]
      BY <2>2, <2>8, <3>1 DEF OnUpstreamReloaded
    <3> HIDE DEF kept
    <3>3. session'.upstream = t.vpn
      BY <2>6, <3>2 DEF SessionState
    <3> QED
      BY <1>2, <2>2, <2>4, <3>1, <3>3, FilledFollows DEF Release
  <2> QED
    BY <1>6, <2>7, <2>8
<1>7. CASE OnWanDetected(s)
  <2> DEFINE sess == [session EXCEPT !.wan = TRUE]
  <2>1. /\ pending = "DetectingWan" /\ session.alive /\ Alone(s)
        /\ host' = host /\ sess \in SessionState
        /\ sess.upstream = session.upstream
    BY <1>1, <1>7, AnswersPending DEF OnWanDetected, Working, SessionState
  <2>2. \/ BeginReloadFirewall(s, sess, TRUE)
        \/ Release(s) /\ session' = session
    BY <1>7 DEF OnWanDetected
  <2> HIDE DEF sess
  <2>3. CASE BeginReloadFirewall(s, sess, TRUE)
    <3>1. \E on \in BOOLEAN : BeginReloadFirewall(s, sess, on)
      BY <2>3
    <3> QED
      BY <2>1, <3>1, BeginReloadFollows
  <2>4. CASE Release(s) /\ session' = session
    <3>1. host.body = session.upstream
      BY <2>1 DEF FollowInv
    <3> QED
      BY <1>2, <2>1, <2>4, <3>1, FilledFollows DEF Release
  <2> QED
    BY <2>2, <2>3, <2>4
<1>8. CASE OnHealthCheck(s)
  <2> DEFINE seen == [session EXCEPT !.down = ~t.ok]
  <2>1. seen.alive = session.alive /\ seen.upstream = session.upstream
    BY <1>1 DEF SessionState
  <2>2. \/ /\ Release(s) /\ UNCHANGED <<pending, host>>
           /\ session' \in {session, seen}
        \/ /\ session.alive /\ pending = "none"
           /\ \E new \in Utuns : BeginReloadUpstream(s, new)
        \/ pending = "none" /\ BeginStop(s, seen)
    BY <1>8 DEF OnHealthCheck
  <2> HIDE DEF seen
  <2>3. CASE /\ Release(s) /\ UNCHANGED <<pending, host>>
             /\ session' \in {session, seen}
    <3>1. \A r \in Slots : task'[r] = task[r] \/ ~Working(task'[r])
      BY <1>2, <2>3, Filled DEF Release, Working, Idle
    <3> QED
      BY <2>1, <2>3, <3>1, IdleFollows
  <2>4. CASE /\ session.alive /\ pending = "none"
             /\ \E new \in Utuns : BeginReloadUpstream(s, new)
    BY <1>1, <2>4, BeginReloadFollows DEF Alone
  <2>5. CASE pending = "none" /\ BeginStop(s, seen)
    BY <2>5, BeginStopFollows
  <2> QED
    BY <2>2, <2>3, <2>4, <2>5
<1>9. ~DiscardStale(s)
    BY HandleKeepsSolo
<1> QED
    BY <1>3, <1>4, <1>5, <1>6, <1>7, <1>8, <1>9 DEF Handle

(* FollowInv is inductive. *)
LEMMA NextKeepsFollow ==
    ASSUME TypeOK, PendingInv, SoloInv, OwnerInv, FollowInv, [Next]_vars
    PROVE  FollowInv'
<1>1. Exhausted(Disturbances)'
    BY ExhaustedStays DEF SoloInv, Disturbances, Events
<1>2. PendingInv' /\ SoloInv'
    BY NextKeeps, NextKeepsSolo
<1>3. ASSUME NEW s \in Slots, SpawnHealthCheck(s) PROVE FollowInv'
  <2> DEFINE t == [Idle EXCEPT !.op = "health", !.pc = "probe",
                               !.vpn = session.upstream,
                               !.bypass = session.wan,
                               !.on = allowOn /\ session.wan]
  <2>1. t.op = "health"
    BY DEF Idle
  <2>2. Launch(s, t) /\ UNCHANGED <<pending, session, host>>
    BY <1>3 DEF SpawnHealthCheck, appVars
  <2> HIDE DEF t
  <2>3. \A r \in Slots : task'[r] = task[r] \/ ~Working(task'[r])
    BY <2>1, <2>2, Filled DEF Working
  <2> QED
    BY <2>2, <2>3, IdleFollows
<1>4. CASE EnvironmentStep
  <2>1. host'.body = host.body /\ UNCHANGED <<pending, session, task>>
    BY <1>4 DEF EnvironmentStep, NatPmpExit, DropVpn, FlushMain, SwapVpn,
       Deny, Relent, appVars, TypeOK, HostState
  <2> QED
    BY <2>1, IdleFollows
<1>5. CASE RuntimeDrop
  <2>1. ~session'.alive
    BY <1>5 DEF RuntimeDrop, SoloInv, Custody
  <2> QED
    BY <1>2, <2>1, EndFollows
<1>6. CASE UNCHANGED vars
    BY <1>6, IdleFollows DEF vars, appVars
<1>7. CASE UserStep
    BY <1>2, <1>7, UserStepFollows
<1>8. ASSUME NEW s \in Slots, TaskStep(s) PROVE FollowInv'
    BY <1>8, TaskStepKeepsFollow
<1>9. ASSUME NEW s \in Slots, Handle(s) PROVE FollowInv'
    BY <1>1, <1>2, <1>9, HandleFollows
<1> QED
    BY <1>3, <1>4, <1>5, <1>6, <1>7, <1>8, <1>9, NoLateStep DEF Next, PollStep

(* The program starts with neither session nor task. *)
LEMMA InitFollows ==
    ASSUME Init
    PROVE  FollowInv
BY DEF Init, FollowInv, FollowsRoute, Idle, NoSession

(* On the Active screen the rules name the tunnel that the session, and so *)
(* the swap detection, takes for its upstream (start_sharing_async,        *)
(* reload_upstream_async, on_upstream_reloaded): after any number of       *)
(* starts, switches, swaps and drops.  A swap that fails or is cut short   *)
(* between the anchor body and the answer leaves the new tunnel in the     *)
(* rules of a session that still names the old one, until the next probe   *)
(* repeats it; a heal may load an upstream that was left since.            *)
THEOREM RulesNameUpstream ==
    ASSUME Never(Disturbances), Never(Losses)
    PROVE  Spec => []RulesFollowUpstream
<1> DEFINE IInv == TypeOK /\ PendingInv /\ SoloInv /\ OwnerInv /\ FollowInv
<1>1. Init => IInv
    BY InitEstablishes, InitSolo, InitOwner, InitFollows
<1>2. IInv /\ [Next]_vars => IInv'
    BY NextKeeps, NextKeepsSolo, NextKeepsOwner, NextKeepsFollow
<1>3. IInv => RulesFollowUpstream
    BY DEF FollowInv, RulesFollowUpstream
<1> QED
    BY <1>1, <1>2, <1>3, PTL DEF Spec
=============================================================================
