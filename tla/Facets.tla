-------------------------------- MODULE Facets --------------------------------
(* What the backend's facets read from the machine and what their writes    *)
(* ask of it.  The machine is a function m from things to their values,     *)
(* "gone" where the service or the device is not there; a thing that one    *)
(* row of Settings stands for has the row's name.  A write is a list of     *)
(* calls, each one naming what it would change: the list is made from what  *)
(* the facet reads first, and each call may be refused later.               *)
EXTENDS Naturals, Sequences, SequencesExt

CONSTANTS Screens, Profiles, Users, AskingApps, Devices,   \* sequences: the order of the listings
          NameOf,        \* [Profiles -> names]: NetworkManager does not keep names apart
          KindsOf,       \* [Devices -> sets of kinds]: a touchpad is a pointer as well
          Me             \* the user of the session

\* What the listings are: lists, in which a thing may stand more than once.
ASSUME ListingsAssumption ==
    /\ Screens \in Seq({Screens[i] : i \in DOMAIN Screens})
    /\ Profiles \in Seq({Profiles[i] : i \in DOMAIN Profiles})
    /\ AskingApps \in Seq({AskingApps[i] : i \in DOMAIN AskingApps})
    /\ Devices \in Seq({Devices[i] : i \in DOMAIN Devices})

Lacks(m, t) == m[t] = "gone"
SetOf(s) == {s[i] : i \in DOMAIN s}
\* The elements of a listing that are in a set, in their order.
ThoseIn(s, set) == FlattenSeq([i \in DOMAIN s |-> IF s[i] \in set THEN <<s[i]>> ELSE <<>>])
FirstOr(hits, default) == IF hits = <<>> THEN default ELSE Head(hits)

\* A write: the calls, how their results make one, and whether it fails before any.
Do(calls) == [calls |-> calls, rule |-> "all", result |-> "ok"]
AnyOf(calls) == [calls |-> calls, rule |-> "some", result |-> "ok"]
Bad == [calls |-> <<>>, rule |-> "all", result |-> "bad"]
\* What Registry.set cannot unpack: a bare False.
Raises == [calls |-> <<>>, rule |-> "all", result |-> "raises"]
Call(t, v) == [sets |-> {t}, to |-> v]

-----------------------------------------------------------------------------
(* Radios *)
set_wifi_enabled(v) == <<Call(<<"network.wifi">>, v)>>
set_networking_enabled(v) == <<Call(<<"network.enabled">>, v)>>
\* request_scan: there is nothing to ask without a Wi-Fi device.
request_scan(m) == IF Lacks(m, <<"network.wifi">>) THEN Bad ELSE Do(<<[sets |-> {}, to |-> "on"]>>)

\* Without bluetoothd the kernel's radio is shown, always as switched off.
adapter(m) ==
    IF ~Lacks(m, <<"bluetooth.power">>)
    THEN [available |-> TRUE, powered |-> m[<<"bluetooth.power">>], discovering |-> m[<<"bluetooth.discovery">>]]
    ELSE [available |-> ~Lacks(m, <<"radio">>), powered |-> "off", discovering |-> "off"]
\* Without an adapter of bluetoothd's this fails, asked or not.
set_powered(v) == <<Call(<<"bluetooth.power">>, v)>>
discovery(m, v) == IF adapter(m).available THEN Do(<<Call(<<"bluetooth.discovery">>, v)>>) ELSE Bad

(* VPN: a profile counts as active when a connection of its name is. *)
ActiveNamed(m, n) ==
    ThoseIn(Profiles, {p \in SetOf(Profiles) : NameOf[p] = n /\ m[<<"network.vpn", p>>] = "on"})
saved_connections(m) == {p \in SetOf(Profiles) : ~Lacks(m, <<"network.vpn", p>>)}
activate_saved(p) == Do(<<Call(<<"network.vpn", p>>, "on")>>)
\* The later of two active connections of one name is the one remembered.
set_vpn(m, p, v) ==
    LET active == IF p \in saved_connections(m) THEN ActiveNamed(m, NameOf[p]) ELSE <<>>
    IN IF v = "on" THEN activate_saved(p)
       ELSE IF active = <<>> THEN Raises
       ELSE Do(<<Call(<<"network.vpn", Last(active)>>, "off")>>)

(* Screens *)
_output_reading(m, s) == [enabled |-> m[<<"display.output", s>>] = "on",
                          primary |-> s = m[<<"primary">>]]
outputs(m) == ThoseIn(Screens, {s \in SetOf(Screens) : m[<<"plugged", s>>] = "yes"})
PrimaryOutput(m) ==
    LET enabled == ThoseIn(outputs(m), {s \in SetOf(Screens) : _output_reading(m, s).enabled})
        primary == ThoseIn(enabled, {s \in SetOf(Screens) : _output_reading(m, s).primary})
    IN IF enabled = <<>> THEN "none" ELSE FirstOr(primary, Head(enabled))
set_output_mode(s, v) == Do(<<Call(<<"mode", s>>, v)>>)
set_output_enabled(s, v) == Do(<<Call(<<"display.output", s>>, v)>>)

\* Plasma's interface, PowerDevil's, or the kernel's file, which is only read.
brightness(m) == [available |-> ~Lacks(m, <<"light">>),
                  writable |-> m[<<"light">>] \in {"modern", "legacy"}]
set_brightness(m, v) ==
    IF brightness(m).writable THEN Do(<<Call(<<"display.brightness">>, v)>>) ELSE Bad

(* Permissions: the table of one device, and the switch over all of it. *)
permitted(m) == ThoseIn(AskingApps, {a \in SetOf(AskingApps) : ~Lacks(m, <<"may", a>>)})
device(m) == [available |-> ~Lacks(m, <<"store">>), apps |-> permitted(m),
              enabled |-> \A a \in SetOf(permitted(m)) : m[<<"may", a>>] # "no"]
set_app(a, v) == Call(<<"may", a>>, IF v = "on" THEN "yes" ELSE "no")
\* A variant in which one application that took the change is enough.
set_device_any(m, v) ==
    IF ~device(m).available \/ device(m).apps = <<>> THEN Bad
    ELSE AnyOf([i \in DOMAIN device(m).apps |-> set_app(device(m).apps[i], v)])

set_device(m, v) ==
    IF ~device(m).available \/ device(m).apps = <<>> THEN Bad
    ELSE Do([i \in DOMAIN device(m).apps |-> set_app(device(m).apps[i], v)])

(* Pointing devices: the first that has the option is shown, all are written. *)
OfKind(m, kind) ==
    ThoseIn(Devices, {d \in SetOf(Devices) : kind \in KindsOf[d] /\ ~Lacks(m, <<"scroll", d>>)})
HasOption(m, d) == m[<<"scroll", d>>] \notin {"gone", "unsupported"}
value_for_kind(m, kind) ==
    FirstOr(ThoseIn(OfKind(m, kind), {d \in SetOf(Devices) : HasOption(m, d)}), "none")
set_for_kind(m, kind, v) ==
    LET all == OfKind(m, kind)
    IN IF all = <<>> THEN Bad ELSE AnyOf([i \in DOMAIN all |-> Call(<<"scroll", all[i]>>, v)])

(* Accounts *)
KnownUsers(m) == {u \in SetOf(Users) : ~Lacks(m, <<"auto", u>>)}
automatic_login(m) == [available |-> KnownUsers(m) # {},
                       enabled |-> \E u \in KnownUsers(m) : m[<<"auto", u>>] = "on"]
\* A variant that turns it off for whoever has it.
set_automatic_login_of_all(m, u, v) ==
    IF u \in KnownUsers(m)
    THEN Do(<<[sets |-> {<<"auto", w>> : w \in KnownUsers(m)}, to |-> v]>>) ELSE Bad

set_automatic_login(m, u, v) ==
    IF u \in KnownUsers(m) THEN Do(<<Call(<<"auto", u>>, v)>>) ELSE Bad
set_locked(m, u, v) ==
    IF u \in KnownUsers(m) THEN Do(<<Call(<<"accounts.locked", u>>, v)>>) ELSE Bad

(* Firewall: firewalld while it owns its name, ufw otherwise. *)
firewall_status(m) ==
    IF m[<<"firewalld">>] = "on" THEN [backend |-> "firewalld", enabled |-> "on", writable |-> TRUE]
    ELSE IF ~Lacks(m, <<"ufw">>)
    THEN [backend |-> "ufw", enabled |-> m[<<"ufw">>], writable |-> ~Lacks(m, <<"pkexec">>)]
    ELSE [backend |-> "none", enabled |-> "off", writable |-> FALSE]
set_enabled(m, v) ==
    CASE firewall_status(m).backend = "firewalld" -> Do(<<Call(<<"firewalld">>, v)>>)
      [] firewall_status(m).backend = "ufw" /\ firewall_status(m).writable -> Do(<<Call(<<"ufw">>, v)>>)
      [] OTHER -> Bad

(* Default applications: one file, all the types of the role at once. *)
role(m) == m[<<"opens", "first">>]
set_role(v) == Do(<<[sets |-> {<<"opens", "first">>, <<"opens", "second">>}, to |-> v]>>)

(* Clock and volumes: a call and nothing else. *)
clock(m) == [available |-> ~Lacks(m, <<"time.ntp">>), can_ntp |-> ~Lacks(m, <<"timesync">>)]
set_ntp(v) == Do(<<Call(<<"time.ntp">>, v)>>)
mount == Do(<<Call(<<"storage.mounted">>, "on")>>)
unmount == Do(<<Call(<<"storage.mounted">>, "off")>>)

(* What logind offers.  A power action is asked for whether or not it may be. *)
capabilities(m) == m[<<"power.hibernate">>] = "on"
act == Do(<<[sets |-> {}, to |-> "on"]>>)
firmware_setup(m) == [available |-> ~Lacks(m, <<"recovery.firmware_setup">>), enabled |-> m[<<"recovery.firmware_setup">>]]
set_firmware_setup(v) == Do(<<Call(<<"recovery.firmware_setup">>, v)>>)

(* Power profiles and audio: the choice is one of those listed, or the first. *)
profiles(m) == IF Lacks(m, <<"power.profile">>) THEN {} ELSE {"saver", "balanced"}
set_profile(v) == Do(<<Call(<<"power.profile">>, v)>>)
volume(m) == [available |-> ~Lacks(m, <<"sound.muted">>), muted |-> m[<<"sound.muted">>]]
set_muted(v) == Do(<<Call(<<"sound.muted">>, v)>>)
set_default_output(v) == Do(<<Call(<<"sound.output">>, v)>>)
streams(m) == ~Lacks(m, <<"sound.app">>)
set_stream_volume(v) == Do(<<Call(<<"sound.app">>, v)>>)

(* Keyboard layouts, in a ring. *)
Layouts == <<"l1", "l2", "l3">>
layouts(m) == IF Lacks(m, <<"keyboard.layout">>) THEN <<>> ELSE Layouts
switch_layout(l) == Layouts[((CHOOSE i \in DOMAIN Layouts : Layouts[i] = l) % Len(Layouts)) + 1]
=============================================================================
