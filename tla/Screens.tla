------------------------------ MODULE Screens ------------------------------
(***************************************************************************)
(* What a user sees and sets: the screens of the App and the keys that     *)
(* lead from one to the next (app/input.rs, app/state.rs), the choice of a *)
(* tunnel and a LAN, the DNS and MTU pickers (app/dns.rs, app/mtu.rs), the *)
(* preferences and config.json (config.rs), and the answers that move the  *)
(* App (app/result.rs).  A session is only whether there is one, and which *)
(* interfaces it was started with: module Sharing has the rest.            *)
(*                                                                         *)
(* Cursors count from 0, as they do in the code.                           *)
(***************************************************************************)
EXTENDS Network

CONSTANTS Worlds,       \* what the machine's interfaces may be like
          DnsPresets,   \* DNS_PRESETS, in order
          DnsTyped,     \* addresses a user may type
          HistoryMax,   \* DNS_HISTORY_MAX
          MtuPresets,   \* the Fixed rows of the MTU picker
          MtuTyped,     \* numbers a user may type
          MtuMin, MtuMax,
          ResultCounts, \* how many results a doctor run may have
          Starts        \* scenarios: the configuration, the disk and the world
                        \* at the first start, and how often each rare event
                        \* may happen

Events == {"detect", "start", "bypass", "dns", "mtu", "switch", "install",
           "doctor", "cancel", "world", "fail", "restart"}

\* App.session, as far as it matters here.
Session == [vpn : Range(Links), lan : Wired, wan : Uplink \cup {None}]

\* What the program writes to config.json, or has without one.
Written(f) ==
    /\ {f.dhcp, f.natpmp} \subseteq BOOLEAN
    /\ f.history \in Seq(Range(f.history))
    /\ IsInjective(f.history) /\ Len(f.history) <= HistoryMax
    /\ f.mtu = 0 \/ f.mtu \in MtuMin..MtuMax

ASSUME ScreensAssumption ==
    /\ Worlds \subseteq World
    /\ HistoryMax \in Nat \ {0}
    /\ {MtuMin, MtuMax} \cup MtuTyped \cup ResultCounts \subseteq Nat
    /\ MtuPresets \in Seq(MtuMin..MtuMax)
    /\ DnsPresets \in Seq(Range(DnsPresets))
    /\ None \notin Range(DnsPresets) \cup DnsTyped \cup Session
    /\ \A s \in Starts : /\ s.world \in Worlds /\ s.binary \in BOOLEAN
                         /\ s.left \in [Events -> Nat]
                         /\ Written(s.file)

VARIABLES
    screen,      \* App.state
    pending,     \* App.pending_op
    menu,        \* App.selected_menu_item
    vpns, lans,  \* App.vpn_interfaces, App.lan_interfaces
    vpn, lan,    \* App.selected_vpn, App.selected_lan
    session,     \* the interfaces of App.session, or None
    allowOn,     \* App.lists.allow.enabled
    dns,         \* App.dns: custom and history
    mtu,         \* App.mtu.active, 0 for Auto
    picker,      \* cursor and sub-mode of the picker that is open
    dhcp,        \* App.dhcp_enabled
    natpmp,      \* App.natpmp_enabled
    installed,   \* App.dnsmasq_installed
    doctor,      \* App.doctor and doctor_return_state
    file,        \* what config.json holds
    binary,      \* dnsmasq is on the disk
    world,       \* the interfaces, as they are now
    tasks,       \* outstanding tasks, in the order they were spawned
    left         \* what is left of the budget of this behaviour

selectVars == <<vpns, lans, vpn, lan>>
prefVars == <<dns, mtu, dhcp, natpmp, installed, file>>
worldVars == <<binary, world>>
vars == <<screen, pending, menu, selectVars, session, allowOn, picker, doctor,
          prefVars, worldVars, tasks, left>>

ScreenNames == {"Menu", "SelectingVpn", "SelectingLan", "Active", "EditingDns",
                "EditingMtu", "Doctor", "InstallDnsmasq", "PreflightBlocked"}
PendingOps == {"none", "DetectingInterfaces", "DiscoveringDns",
               "StartingSharing", "StoppingSharing", "RunningDoctor",
               "FlushingStaleAnchor", "InstallingDnsmasq"}

Spend(event) == /\ left[event] > 0
                /\ left' = [left EXCEPT ![event] = @ - 1]
At(list, cursor) == list[cursor + 1]
InList(list, cursor) == cursor < Len(list)

-----------------------------------------------------------------------------
(* The menu and the pickers. *)

MenuItems ==
    IF session # None THEN <<"StopSharing", "ViewLists", "Quit">>
    ELSE <<"StartSharing", "ToggleDhcp", "ToggleNatPmp", "SetDns", "SetMtu",
           "ViewLists", "RunDoctor", "Quit">>

\* The rows of the pickers, by what each stands for; one more row, "Custom",
\* is below them.  An MTU of Auto is 0.
DnsRows == <<None>> \o DnsPresets \o dns.history
MtuRows == <<0>> \o MtuPresets

\* Where a picker opens: the first row for the value in use, else "Custom".
OpensAt(rows, value) ==
    LET at == {i \in DOMAIN rows : rows[i] = value}
    IN  IF at = {} THEN Len(rows)
        ELSE (CHOOSE i \in at : \A k \in at : i <= k) - 1

FirstHistory(history) ==
    SubSeq(history, 1, IF Len(history) < HistoryMax THEN Len(history)
                       ELSE HistoryMax)

\* promote_to_history
Promote(history, value) ==
    IF value \in Range(DnsPresets) THEN history
    ELSE FirstHistory(<<value>> \o Only(history, Range(history) \ {value}))

-----------------------------------------------------------------------------
(* config.json *)

\* save_preferences, with what is new.
Saved(newDns, newMtu, newDhcp, newNatpmp) ==
    [dhcp |-> newDhcp, natpmp |-> newNatpmp, custom |-> newDns.custom,
     history |-> newDns.history, mtu |-> newMtu]

\* Config::load puts the address in use into the history if it is not there,
\* a preset as well.
LoadHistory(f) ==
    IF f.custom = None \/ f.custom \in Range(f.history) THEN f.history
    ELSE FirstHistory(<<f.custom>> \o f.history)

\* Mutant: a change of the DNS server is not saved.
SetDnsUnsaved(newDns) == dns' = newDns /\ UNCHANGED <<mtu, dhcp, natpmp, file>>

\* A preference changes, and save_preferences.
SetDns(newDns) == /\ dns' = newDns
                  /\ file' = Saved(newDns, mtu, dhcp, natpmp)
                  /\ UNCHANGED <<mtu, dhcp, natpmp>>
SetMtu(newMtu) == /\ mtu' = newMtu
                  /\ file' = Saved(dns, newMtu, dhcp, natpmp)
                  /\ UNCHANGED <<dns, dhcp, natpmp>>
SetServers(newDhcp, newNatpmp) ==
    /\ dhcp' = newDhcp /\ natpmp' = newNatpmp
    /\ file' = Saved(dns, mtu, newDhcp, newNatpmp)
    /\ UNCHANGED <<dns, mtu>>

-----------------------------------------------------------------------------
(* Tasks. *)

Idle == [op |-> "none", pc |-> "done", ok |-> TRUE, vpns |-> <<>>,
         lans |-> <<>>, vpn |-> None, lan |-> None, seen |-> None,
         uplink |-> None]

Spawn(op, task) == pending' = op /\ tasks' = Append(tasks, task)

DetectInterfaces == Spawn("DetectingInterfaces",
                          [Idle EXCEPT !.op = "detect", !.pc = "vpn"])
RunDoctor == Spawn("RunningDoctor", [Idle EXCEPT !.op = "doctor"])

-----------------------------------------------------------------------------
(* Keys.  While an operation is pending only Esc does anything. *)

KeyReady(where) == pending = "none" /\ screen = where

Move(cursor, last) ==
    {c \in {cursor - 1, cursor + 1} : c \in 0..last}

MenuMove ==
    /\ KeyReady("Menu")
    /\ \/ menu > 0 /\ menu' = menu - 1
       \/ menu + 1 < Len(MenuItems) /\ menu' = menu + 1
    /\ UNCHANGED <<screen, pending, selectVars, session, allowOn, picker, doctor,
                   prefVars, worldVars, tasks, left>>

\* A key that chooses an item: Enter on the cursor, or '1' for the first.
Chosen(item) ==
    /\ KeyReady("Menu")
    /\ \/ InList(MenuItems, menu) /\ At(MenuItems, menu) = item
       \/ item = MenuItems[1]

\* From the menu, or 'r' where something was missing.
StartSelection ==
    /\ Chosen("StartSharing") \/ KeyReady("PreflightBlocked")
    /\ Spend("detect")
    /\ DetectInterfaces
    /\ UNCHANGED <<screen, menu, selectVars, session, allowOn, picker, doctor,
                   prefVars, worldVars>>

StopSharing ==
    /\ Chosen("StopSharing") \/ (KeyReady("Active") /\ session # None)
    /\ Spawn("StoppingSharing", [Idle EXCEPT !.op = "stop"])
    /\ UNCHANGED <<screen, menu, selectVars, session, allowOn, picker, doctor,
                   prefVars, worldVars, left>>

\* Without dnsmasq the item leads to the modal that offers to install it.
ToggleDhcp ==
    /\ Chosen("ToggleDhcp")
    /\ \/ /\ installed /\ Spend("switch")
          /\ SetServers(~dhcp, natpmp)
          /\ UNCHANGED screen
       \/ /\ ~installed
          /\ screen' = "InstallDnsmasq"
          /\ UNCHANGED <<dns, mtu, dhcp, natpmp, file, left>>
    /\ UNCHANGED <<pending, menu, selectVars, session, allowOn, picker, doctor,
                   installed, worldVars, tasks>>

ToggleNatPmp ==
    /\ Chosen("ToggleNatPmp") /\ Spend("switch")
    /\ SetServers(dhcp, ~natpmp)
    /\ UNCHANGED <<screen, pending, menu, selectVars, session, allowOn, picker,
                   doctor, installed, worldVars, tasks>>

\* start_dns_edit and start_mtu_edit
OpenPicker ==
    /\ \/ /\ Chosen("SetDns") /\ Spend("dns")
          /\ screen' = "EditingDns"
          /\ picker' = [at |-> OpensAt(DnsRows, dns.custom), typing |-> FALSE]
       \/ /\ Chosen("SetMtu") /\ Spend("mtu")
          /\ screen' = "EditingMtu"
          /\ picker' = [at |-> OpensAt(MtuRows, mtu), typing |-> FALSE]
    /\ UNCHANGED <<pending, menu, selectVars, session, allowOn, doctor, prefVars,
                   worldVars, tasks>>

PickerRows == IF screen = "EditingDns" THEN DnsRows ELSE MtuRows
InPicker == pending = "none" /\ screen \in {"EditingDns", "EditingMtu"}

PickerMove ==
    /\ InPicker /\ ~picker.typing
    /\ \E c \in Move(picker.at, Len(PickerRows)) :
           picker' = [picker EXCEPT !.at = c]
    /\ UNCHANGED <<screen, pending, menu, selectVars, session, allowOn, doctor,
                   prefVars, worldVars, tasks, left>>

\* Enter on the last row, and Esc back from there.
PickerTyping ==
    /\ InPicker
    /\ ~picker.typing => picker.at = Len(PickerRows)
    /\ picker' = [picker EXCEPT !.typing = ~@]
    /\ UNCHANGED <<screen, pending, menu, selectVars, session, allowOn, doctor,
                   prefVars, worldVars, tasks, left>>

\* 'x' forgets an entry of the history, not the address in use.
ForgetDns ==
    /\ KeyReady("EditingDns") /\ ~picker.typing
    /\ LET h == picker.at - Len(DnsPresets)     \* its place in the history
           kept == RemoveAt(dns.history, h)
           rows == Len(DnsRows) - 1
       IN  /\ h \in DOMAIN dns.history
           /\ SetDns([dns EXCEPT !.history = kept])
           /\ picker' = [picker EXCEPT !.at = IF @ > rows THEN rows ELSE @]
    /\ UNCHANGED <<screen, pending, menu, selectVars, session, allowOn, doctor,
                   installed, worldVars, tasks, left>>

\* Enter on a row, or on an address that was typed; one that is no address is
\* dropped, and what is in use is saved again.
ChooseDns ==
    /\ KeyReady("EditingDns")
    /\ \/ /\ ~picker.typing /\ InList(DnsRows, picker.at)
          /\ LET value == At(DnsRows, picker.at)
                 recent == picker.at > Len(DnsPresets)
             IN  SetDns([custom  |-> value,
                         history |-> IF recent THEN Promote(dns.history, value)
                                               ELSE dns.history])
       \/ picker.typing /\ SetDns([dns EXCEPT !.custom = None])
       \/ picker.typing /\ SetDns(dns)
       \/ /\ picker.typing
          /\ \E value \in DnsTyped :
                 SetDns([custom  |-> value,
                         history |-> Promote(dns.history, value)])
    /\ screen' = "Menu"
    /\ UNCHANGED <<pending, menu, selectVars, session, allowOn, picker, doctor,
                   installed, worldVars, tasks, left>>

\* A number out of range leaves the field open.
ChooseMtu ==
    /\ KeyReady("EditingMtu")
    /\ \/ ~picker.typing /\ InList(MtuRows, picker.at)
          /\ SetMtu(At(MtuRows, picker.at))
       \/ /\ picker.typing
          /\ \E n \in MtuTyped : n \in MtuMin..MtuMax /\ SetMtu(n)
    /\ screen' = "Menu"
    /\ UNCHANGED <<pending, menu, selectVars, session, allowOn, picker, doctor,
                   installed, worldVars, tasks, left>>

\* start_doctor
OpenDoctor ==
    /\ Chosen("RunDoctor") \/ KeyReady("PreflightBlocked")
    /\ Spend("doctor")
    /\ RunDoctor
    /\ screen' = "Doctor"
    /\ doctor' = [doctor EXCEPT !.back = IF screen = "PreflightBlocked"
                                         THEN screen ELSE "Menu"]
    /\ UNCHANGED <<menu, selectVars, session, allowOn, picker, prefVars,
                   worldVars>>

DoctorMove ==
    /\ KeyReady("Doctor")
    /\ \/ doctor.at > 0 /\ doctor' = [doctor EXCEPT !.at = @ - 1]
       \/ doctor.at + 1 < doctor.count /\ doctor' = [doctor EXCEPT !.at = @ + 1]
    /\ UNCHANGED <<screen, pending, menu, selectVars, session, allowOn, picker,
                   prefVars, worldVars, tasks, left>>

\* Run again, or flush the stale anchor that was found.
DoctorAct ==
    /\ KeyReady("Doctor") /\ Spend("doctor")
    /\ \/ RunDoctor
       \/ doctor.stale /\ Spawn("FlushingStaleAnchor", [Idle EXCEPT !.op = "flush"])
    /\ UNCHANGED <<screen, menu, selectVars, session, allowOn, picker, doctor,
                   prefVars, worldVars>>

Install ==
    /\ KeyReady("InstallDnsmasq") /\ Spend("install")
    /\ Spawn("InstallingDnsmasq", [Idle EXCEPT !.op = "install", !.pc = "brew"])
    /\ UNCHANGED <<screen, menu, selectVars, session, allowOn, picker, doctor,
                   prefVars, worldVars>>

SelectMove ==
    /\ \/ /\ KeyReady("SelectingVpn") /\ vpn # None
          /\ vpn' \in Move(vpn, Len(vpns) - 1)
          /\ UNCHANGED lan
       \/ /\ KeyReady("SelectingLan") /\ lan # None
          /\ lan' \in Move(lan, Len(lans) - 1)
          /\ UNCHANGED vpn
    /\ UNCHANGED <<screen, pending, menu, vpns, lans, session, allowOn, picker,
                   doctor, prefVars, worldVars, tasks, left>>

ConfirmVpn ==
    /\ KeyReady("SelectingVpn") /\ vpn # None /\ InList(vpns, vpn)
    /\ Spawn("DiscoveringDns", [Idle EXCEPT !.op = "dns"])
    /\ UNCHANGED <<screen, menu, selectVars, session, allowOn, picker, doctor,
                   prefVars, worldVars, left>>

\* Mutant: only the LAN above in the list is compared.
CollidesAbove(i) == \E k \in DOMAIN lans : k < i /\ SameNetwork(lans[i], lans[k])

Collides(i) == \E k \in DOMAIN lans : k # i /\ SameNetwork(lans[i], lans[k])

\* confirm_lan_selection and start_sharing_async
ConfirmLan ==
    /\ KeyReady("SelectingLan") /\ Spend("start")
    /\ vpn # None /\ lan # None /\ InList(vpns, vpn) /\ InList(lans, lan)
    /\ ~Collides(lan + 1)
    /\ session' = [vpn |-> At(vpns, vpn).name, lan |-> At(lans, lan).name,
                   wan |-> None]
    /\ Spawn("StartingSharing",
             [Idle EXCEPT !.op = "start", !.vpn = session'.vpn,
                          !.lan = session'.lan,
                          !.pc = IF allowOn THEN "read" ELSE "done"])
    /\ UNCHANGED <<screen, menu, selectVars, allowOn, picker, doctor, prefVars,
                   worldVars>>

\* The WAN bypass, on its screen without a session.
ToggleBypass ==
    /\ KeyReady("Menu") /\ session = None /\ Spend("bypass")
    /\ allowOn' = ~allowOn
    /\ UNCHANGED <<screen, pending, menu, selectVars, session, picker, doctor,
                   prefVars, worldVars, tasks>>

\* Esc with nothing pending.
Back ==
    /\ pending = "none" /\ screen # "Menu"
    /\ screen \in {"EditingDns", "EditingMtu"} => ~picker.typing
    /\ screen' = CASE screen = "SelectingLan" -> "SelectingVpn"
                   [] screen = "Doctor"       -> doctor.back
                   [] OTHER                   -> "Menu"
    /\ UNCHANGED <<pending, menu, selectVars, session, allowOn, picker, doctor,
                   prefVars, worldVars, tasks, left>>

\* cancel_pending_op
Cancel ==
    /\ pending # "none" /\ Spend("cancel")
    /\ pending' = "none"
    /\ screen' = CASE pending = "DiscoveringDns" -> "SelectingVpn"
                   [] pending \in {"StoppingSharing", "FlushingStaleAnchor"}
                                                 -> screen
                   [] OTHER                      -> "Menu"
    /\ UNCHANGED <<menu, selectVars, session, allowOn, picker, doctor, prefVars,
                   worldVars, tasks>>

KeyStep ==
    \/ MenuMove \/ StartSelection \/ StopSharing \/ ToggleDhcp \/ ToggleNatPmp
    \/ OpenPicker \/ PickerMove \/ PickerTyping \/ ForgetDns \/ ChooseDns
    \/ ChooseMtu \/ OpenDoctor \/ DoctorMove \/ DoctorAct \/ Install
    \/ SelectMove \/ ConfirmVpn \/ ConfirmLan \/ ToggleBypass \/ Back \/ Cancel

-----------------------------------------------------------------------------
(* Tasks. *)

Set(k, task) == tasks' = [tasks EXCEPT ![k] = task]

\* Detection reads the tunnels, then the LAN; what fails is an empty list.
DetectStep(k) ==
    LET t == tasks[k]
    IN  \/ /\ t.pc = "vpn"
           /\ \/ /\ Set(k, [t EXCEPT !.pc = "lan", !.vpns = DetectVpn(world)])
                 /\ UNCHANGED left
              \/ /\ Spend("fail")
                 /\ Set(k, [t EXCEPT !.pc = "lan"])
        \/ /\ t.pc = "lan"
           /\ \/ /\ Set(k, [t EXCEPT !.pc = "done", !.lans = DetectLan(world)])
                 /\ UNCHANGED left
              \/ /\ Spend("fail")
                 /\ Set(k, [t EXCEPT !.pc = "done"])

\* A start with the bypass on: no uplink, no session.
UplinkStep(k) ==
    LET t == tasks[k]
        uplink == SelectUplink(t.seen, world, t.lan, {t.vpn})
    IN  /\ \/ /\ t.pc = "read"
              /\ Set(k, [t EXCEPT !.pc = "probe", !.seen = world])
           \/ /\ t.pc = "probe"
              /\ Set(k, [t EXCEPT !.pc = "done", !.uplink = uplink,
                                  !.ok = uplink # None])
        /\ UNCHANGED left

\* brew has come to an end, with or without dnsmasq where it is looked for.
BrewStep(k) ==
    /\ tasks[k].pc = "brew"
    /\ \/ /\ binary' = TRUE /\ UNCHANGED left
          /\ Set(k, [tasks[k] EXCEPT !.pc = "done"])
       \/ /\ Spend("fail") /\ UNCHANGED binary
          /\ \E ok \in BOOLEAN :
                 Set(k, [tasks[k] EXCEPT !.pc = "done", !.ok = ok])

TaskStep ==
    /\ \E k \in DOMAIN tasks :
           \/ BrewStep(k)
           \/ (DetectStep(k) \/ UplinkStep(k)) /\ UNCHANGED binary
    /\ UNCHANGED <<screen, pending, menu, selectVars, session, allowOn, picker,
                   doctor, prefVars, world>>

-----------------------------------------------------------------------------
(* Answers. *)

OpOf(pendingOp) == CASE pendingOp = "DetectingInterfaces" -> "detect"
                     [] pendingOp = "DiscoveringDns"      -> "dns"
                     [] pendingOp = "StartingSharing"     -> "start"
                     [] pendingOp = "StoppingSharing"     -> "stop"
                     [] pendingOp = "RunningDoctor"       -> "doctor"
                     [] pendingOp = "FlushingStaleAnchor" -> "flush"
                     [] pendingOp = "InstallingDnsmasq"   -> "install"
                     [] OTHER                             -> "none"

Done(k) == tasks[k].pc = "done"
Expected(k, op) == Done(k) /\ tasks[k].op = op /\ OpOf(pending) = op
Finish(k) == tasks' = RemoveAt(tasks, k)

\* The stale guard, and a start that was cancelled.
Discard(k) ==
    /\ Done(k) /\ tasks[k].op # "stop" /\ OpOf(pending) # tasks[k].op
    /\ Finish(k)
    /\ UNCHANGED <<screen, pending, menu, selectVars, session, allowOn, picker,
                   doctor, prefVars, worldVars, left>>

\* Mutant: the choice that was made before is kept.
OnInterfacesDetectedKeepsChoice(k) ==
    LET t == tasks[k]
    IN  /\ Expected(k, "detect")
        /\ Finish(k) /\ pending' = "none"
        /\ vpns' = t.vpns /\ lans' = t.lans
        /\ vpn' = IF vpn = None THEN 0 ELSE vpn
        /\ screen' = IF t.vpns # <<>> /\ t.lans # <<>>
                     THEN "SelectingVpn" ELSE "PreflightBlocked"
        /\ UNCHANGED <<menu, lan, session, allowOn, picker, doctor, prefVars,
                       worldVars, left>>

OnInterfacesDetected(k) ==
    LET t == tasks[k]
        complete == t.vpns # <<>> /\ t.lans # <<>>
    IN  /\ Expected(k, "detect")
        /\ Finish(k) /\ pending' = "none"
        /\ vpns' = t.vpns /\ lans' = t.lans
        /\ vpn' = IF complete THEN 0 ELSE vpn
        /\ screen' = IF complete THEN "SelectingVpn" ELSE "PreflightBlocked"
        /\ UNCHANGED <<menu, lan, session, allowOn, picker, doctor, prefVars,
                       worldVars, left>>

OnDnsDiscovered(k) ==
    /\ Expected(k, "dns")
    /\ Finish(k) /\ pending' = "none"
    /\ screen' = "SelectingLan"
    /\ lan' = IF lans = <<>> THEN None ELSE 0
    /\ UNCHANGED <<menu, vpns, lans, vpn, session, allowOn, picker, doctor,
                   prefVars, worldVars, left>>

\* on_sharing_started and the rest of the start chain.
OnSharingStarted(k) ==
    LET t == tasks[k]
    IN  /\ Expected(k, "start")
        /\ Finish(k) /\ pending' = "none"
        /\ \/ /\ t.ok
              /\ session' = [session EXCEPT !.wan = t.uplink]
              /\ screen' = "Active"
              /\ UNCHANGED left
           \/ /\ IF t.ok THEN Spend("fail") ELSE UNCHANGED left
              /\ session' = None
              /\ screen' = "Menu"
        /\ UNCHANGED <<menu, selectVars, allowOn, picker, doctor, prefVars,
                       worldVars>>

\* Taken whatever is pending, and ends that too.
OnSharingStopped(k) ==
    /\ Done(k) /\ tasks[k].op = "stop"
    /\ Finish(k) /\ pending' = "none"
    /\ session' = None /\ screen' = "Menu" /\ menu' = 0
    /\ UNCHANGED <<selectVars, allowOn, picker, doctor, prefVars, worldVars,
                   left>>

OnDoctorFinished(k) ==
    /\ Expected(k, "doctor")
    /\ Finish(k) /\ pending' = "none"
    /\ \E count \in ResultCounts, stale \in BOOLEAN :
           doctor' = [doctor EXCEPT !.count = count, !.stale = stale,
                                    !.at = IF @ >= count THEN 0 ELSE @]
    /\ UNCHANGED <<screen, menu, selectVars, session, allowOn, picker, prefVars,
                   worldVars, left>>

\* A flush that worked is followed by a run.
OnDoctorAnchorFlushed(k) ==
    /\ Expected(k, "flush")
    /\ \/ /\ pending' = "RunningDoctor"
          /\ tasks' = Append(RemoveAt(tasks, k), [Idle EXCEPT !.op = "doctor"])
          /\ UNCHANGED left
       \/ Spend("fail") /\ Finish(k) /\ pending' = "none"
    /\ UNCHANGED <<screen, menu, selectVars, session, allowOn, picker, doctor,
                   prefVars, worldVars>>

\* on_dnsmasq_installed looks for the binary again; the server it was wanted
\* for is switched on.
OnDnsmasqInstalled(k) ==
    /\ Expected(k, "install")
    /\ Finish(k) /\ pending' = "none"
    /\ screen' = "Menu"
    /\ installed' = IF tasks[k].ok THEN binary ELSE installed
    /\ IF tasks[k].ok /\ binary THEN SetServers(TRUE, natpmp)
       ELSE UNCHANGED <<dns, mtu, dhcp, natpmp, file>>
    /\ UNCHANGED <<menu, selectVars, session, allowOn, picker, doctor,
                   worldVars, left>>

AnswerStep ==
    \E k \in DOMAIN tasks :
        \/ Discard(k) \/ OnInterfacesDetected(k) \/ OnDnsDiscovered(k)
        \/ OnSharingStarted(k) \/ OnSharingStopped(k) \/ OnDoctorFinished(k)
        \/ OnDoctorAnchorFlushed(k) \/ OnDnsmasqInstalled(k)

-----------------------------------------------------------------------------
(* Starting, and the world. *)

\* App::new
Launch(f, found) ==
    [dns |-> [custom |-> f.custom, history |-> LoadHistory(f)],
     mtu |-> f.mtu, dhcp |-> f.dhcp /\ found, natpmp |-> f.natpmp]

Init ==
    /\ \E s \in Starts : /\ file = s.file /\ binary = s.binary
                         /\ world = s.world /\ left = s.left
    /\ LET app == Launch(file, binary)
       IN  /\ dns = app.dns /\ mtu = app.mtu
           /\ dhcp = app.dhcp /\ natpmp = app.natpmp
    /\ installed = binary
    /\ screen = "Menu" /\ pending = "none" /\ menu = 0
    /\ vpns = <<>> /\ lans = <<>> /\ vpn = None /\ lan = None
    /\ session = None /\ allowOn = FALSE
    /\ picker = [at |-> 0, typing |-> FALSE]
    /\ doctor = [count |-> 0, at |-> 0, stale |-> FALSE, back |-> "Menu"]
    /\ tasks = <<>>

\* The program ends, by a key or otherwise, and is started again.
Restart ==
    /\ Spend("restart")
    /\ LET app == Launch(file, binary)
       IN  /\ dns' = app.dns /\ mtu' = app.mtu
           /\ dhcp' = app.dhcp /\ natpmp' = app.natpmp
    /\ installed' = binary
    /\ screen' = "Menu" /\ pending' = "none" /\ menu' = 0
    /\ vpns' = <<>> /\ lans' = <<>> /\ vpn' = None /\ lan' = None
    /\ session' = None
    /\ picker' = [at |-> 0, typing |-> FALSE]
    /\ doctor' = [count |-> 0, at |-> 0, stale |-> FALSE, back |-> "Menu"]
    /\ tasks' = <<>>
    /\ UNCHANGED <<allowOn, file, worldVars>>

\* Cables, access points, routes and dnsmasq itself come and go.
WorldStep ==
    /\ Spend("world")
    /\ \/ world' \in Worlds /\ UNCHANGED binary
       \/ binary' = ~binary /\ UNCHANGED world
    /\ UNCHANGED <<screen, pending, menu, selectVars, session, allowOn, picker,
                   doctor, prefVars, tasks>>

Next == KeyStep \/ TaskStep \/ AnswerStep \/ Restart \/ WorldStep

Spec == Init /\ [][Next]_vars

-----------------------------------------------------------------------------
(* Every variable holds a value of its type; a cursor, that is an index,   *)
(* is one of the list it points into, whatever was detected, forgotten or  *)
(* answered late in between, and the history holds each address once.      *)
TypeOK ==
    /\ screen \in ScreenNames /\ pending \in PendingOps
    /\ menu \in 0..7
    /\ vpns \in Seq(InfoType) /\ lans \in Seq(InfoType)
    /\ screen \in {"SelectingVpn", "SelectingLan"} =>
           /\ vpn \in Nat /\ InList(vpns, vpn)
           /\ screen = "SelectingLan" => lan \in Nat /\ InList(lans, lan)
    /\ session \in Session \cup {None}
    /\ screen = "EditingDns" => picker.at \in 0..Len(DnsRows)
    /\ screen = "EditingMtu" => picker.at \in 0..Len(MtuRows)
    /\ doctor.at = 0 \/ InList([i \in 1..doctor.count |-> i], doctor.at)
    /\ IsInjective(dns.history) /\ Len(dns.history) <= HistoryMax
    /\ mtu = 0 \/ mtu \in MtuMin..MtuMax
    /\ {allowOn, dhcp, natpmp, installed, binary} \subseteq BOOLEAN
    /\ dhcp => installed
    /\ \A t \in Range(tasks) : t.op \in {OpOf(p) : p \in PendingOps}
    /\ world \in Worlds
    /\ left \in [Events -> Nat]

(* A session is started from the menu's flow only, over no other session,  *)
(* on a tunnel and a wired LAN that the last detection offered, and not on *)
(* a LAN whose subnet another one had then (confirm_lan_selection).        *)
StartIsOffered ==
    [][session' # None /\ (session = None \/ session'.lan # session.lan) =>
          /\ session = None
          /\ \E i \in DOMAIN vpns : vpns[i].name = session'.vpn
          /\ \E i \in DOMAIN lans :
                /\ lans[i].name = session'.lan
                /\ lans[i].net # None =>
                       \A k \in DOMAIN lans \ {i} : lans[k].net # lans[i].net]_vars

(* However the program ends, the next one has the same DNS server, MTU and *)
(* NAT-PMP switch; the history too, but that an address in use which was   *)
(* forgotten is back.                                                      *)
PreferencesSurvive ==
    LET app == Launch(file, binary)
    IN  /\ app.dns.custom = dns.custom /\ app.mtu = mtu /\ app.natpmp = natpmp
        /\ app.dns.history = dns.history \/ dns.custom \notin Range(dns.history)

MacsOf(arp, ip) == {n.mac : n \in {n \in Range(arp) : n.ip = ip}}
MacsOn(arp, link) == {n.mac : n \in {n \in Range(arp) : n.iface = link}}

\* What a task has found is outside its share.
Outside(t) ==
    t.uplink # None =>
        /\ t.uplink.iface \notin Tunnels \cup Loopbacks \cup {t.vpn, t.lan}
        /\ t.seen.arp # None
        /\ LET macs == MacsOf(t.seen.arp, t.uplink.gateway)
           IN  Cardinality(macs) = 1 => macs \cap MacsOn(t.seen.arp, t.lan) = {}

(* The uplink of the WAN bypass is no tunnel and neither end of the share, *)
(* even if the links change while it is looked for, and its gateway is not *)
(* known to be a neighbor on the share LAN; if the ARP table could not be  *)
(* read there is none (select_wan_uplink, gateway_hairpins_share).         *)
UplinkIsOutside == \A t \in Range(tasks) : Outside(t)
=============================================================================
