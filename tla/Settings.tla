------------------------------- MODULE Settings -------------------------------
(* The rows of Settings: the registry of settingscontrols.py, which reads a *)
(* row from the machine, writes it and reads it again, and the clicks that  *)
(* model.SettingsControls passes to it.  Other programs and the services    *)
(* themselves may change the machine between any two calls of a click.      *)
EXTENDS Facets, FiniteSetsExt

CONSTANTS MaxRowClicks,   \* bound on the clicks
          MaxMeanwhile    \* bound on what others change

VARIABLES machine,   \* what the services answer
          page,      \* the rows that are clicked: those of one builder of the registry
          click,     \* the click that is being served, and how far it is
          answer,    \* what the last click showed
          jobs,      \* changes a service has accepted and not made yet: <<thing, value>>
          touched,   \* things others changed since the click began
          meant,     \* what the row stood for when its writer looked
          clicks, others

settingsVars == <<machine, page, click, answer, jobs, touched, meant, clicks, others>>

-----------------------------------------------------------------------------
(* What a row shows (State), and what it does when it is written.           *)
Shown(v, w) == [available |-> TRUE, value |-> v, writable |-> w]
Missing == [available |-> FALSE, value |-> "none", writable |-> FALSE]
ShownIf(there, v, w) == IF there THEN Shown(v, w) ELSE Missing
OnIf(b) == IF b THEN "on" ELSE "off"
Opposite(v) == OnIf(v = "off")
SwitchRow(state, write) == [kind |-> "switch", state |-> state, write |-> write]
ChoiceRow(state, write) == [kind |-> "choice", state |-> state, write |-> write]
ActionRow(can, write) == [kind |-> "action", state |-> ShownIf(can, "none", can), write |-> write]

OutputState(m, s) == ShownIf(s \in SetOf(outputs(m)), m[<<"display.output", s>>], TRUE)
DisplayRow(m, r, v) ==
    CASE r[1] = "display.resolution" ->
           IF PrimaryOutput(m) = "none" THEN ChoiceRow(Missing, Bad)
           ELSE ChoiceRow(Shown(m[<<"mode", PrimaryOutput(m)>>], TRUE), set_output_mode(PrimaryOutput(m), v))
      [] r[1] = "display.brightness" ->
           ChoiceRow(ShownIf(brightness(m).available, m[r], brightness(m).writable), set_brightness(m, v))
      [] r[1] = "display.output" -> SwitchRow(OutputState(m, r[2]), set_output_enabled(r[2], v))

SoundRow(m, r, v) ==
    CASE r[1] = "sound.muted" -> SwitchRow(ShownIf(volume(m).available, volume(m).muted, TRUE), set_muted(v))
      [] r[1] = "sound.output" -> ChoiceRow(ShownIf(~Lacks(m, r), m[r], TRUE), set_default_output(v))

\* One switch, two radios: on means both off.  Both are asked, whatever the first says.
airplane(m) == ShownIf(~Lacks(m, <<"network.wifi">>) \/ adapter(m).available,
                       OnIf(m[<<"network.wifi">>] # "on" /\ adapter(m).powered # "on"), TRUE)
set_airplane(v) == Do(set_wifi_enabled(Opposite(v)) \o set_powered(Opposite(v)))
NetworkRow(m, r, v) ==
    CASE r[1] = "network.wifi" -> SwitchRow(ShownIf(~Lacks(m, r), m[r], TRUE), Do(set_wifi_enabled(v)))
      [] r[1] = "network.enabled" ->
           SwitchRow(ShownIf(~Lacks(m, r), m[r], TRUE), Do(set_networking_enabled(v)))
      [] r[1] = "network.airplane" -> SwitchRow(airplane(m), set_airplane(v))
      [] r[1] = "network.scan" -> ActionRow(TRUE, request_scan(m))

BluetoothRow(m, r, v) ==
    CASE r[1] = "bluetooth.power" ->
           SwitchRow(ShownIf(adapter(m).available, adapter(m).powered, TRUE), Do(set_powered(v)))
      [] r[1] = "bluetooth.discovery" ->
           SwitchRow(ShownIf(adapter(m).available, adapter(m).discovering, TRUE), discovery(m, v))

PowerRow(m, r, v) ==
    CASE r[1] = "power.hibernate" -> ActionRow(capabilities(m), act)
      [] r[1] = "recovery.firmware_setup" ->
           SwitchRow(ShownIf(firmware_setup(m).available, firmware_setup(m).enabled, TRUE),
                  set_firmware_setup(v))

VpnState(m, p) == ShownIf(p \in saved_connections(m), OnIf(ActiveNamed(m, NameOf[p]) # <<>>), TRUE)
ConnectivityRow(m, r, v) ==
    CASE r[1] = "network.vpn" -> SwitchRow(VpnState(m, r[2]), set_vpn(m, r[2], v))
      [] r[1] = "sound.app" -> ChoiceRow(ShownIf(streams(m), m[r], TRUE), set_stream_volume(v))
      [] r[1] = "power.profile" -> ChoiceRow(ShownIf(profiles(m) # {}, m[r], TRUE), set_profile(v))

InputState(m, kind) ==
    LET d == value_for_kind(m, kind) IN ShownIf(d # "none", m[<<"scroll", d>>], TRUE)
\* Turning to a layout: on to the next one until it is there (TurnLayout).
set_keyboard_layout == [calls |-> <<>>, rule |-> "layout", result |-> "ok"]
InputRow(m, r, v) ==
    CASE r[1] = "natural_scroll" -> SwitchRow(InputState(m, r[2]), set_for_kind(m, r[2], v))
      [] r[1] = "keyboard.layout" -> ChoiceRow(ShownIf(layouts(m) # <<>>, m[r], TRUE), set_keyboard_layout)

TimeRow(m, r, v) == SwitchRow(ShownIf(clock(m).available, m[r], clock(m).can_ntp), set_ntp(v))

PrivacyRow(m, r, v) ==
    CASE r[1] = "privacy.camera" ->
           SwitchRow(ShownIf(device(m).available, OnIf(device(m).enabled), device(m).apps # <<>>),
                  set_device(m, v))
      [] r[1] = "privacy.firewall" ->
           SwitchRow(ShownIf(firewall_status(m).backend # "none", firewall_status(m).enabled, firewall_status(m).writable),
                  set_enabled(m, v))

UserFlag(m, u) == ShownIf(u \in KnownUsers(m), m[<<"accounts.locked", u>>], TRUE)
AccountRow(m, r, v) ==
    CASE r[1] = "accounts.automatic_login" ->
           SwitchRow(ShownIf(automatic_login(m).available, OnIf(automatic_login(m).enabled),
                          Me \in KnownUsers(m)),
                  set_automatic_login(m, Me, v))
      [] r[1] = "accounts.locked" -> SwitchRow(UserFlag(m, r[2]), set_locked(m, r[2], v))

AppRow(m, r, v) == ChoiceRow(Shown(role(m), TRUE), set_role(v))
VolumeState(m, r) == ShownIf(~Lacks(m, r), m[r], TRUE)
StorageRow(m, r, v) == SwitchRow(VolumeState(m, r), IF v = "on" THEN mount ELSE unmount)

-----------------------------------------------------------------------------
(* The pages: their rows, and the things those read and write.              *)
Rows ==
    [display |-> {<<"display.resolution">>, <<"display.brightness">>} \cup ({"display.output"} \X SetOf(Screens)),
     sound |-> {<<"sound.muted">>, <<"sound.output">>},
     network |-> {<<"network.wifi">>, <<"network.enabled">>, <<"network.airplane">>, <<"network.scan">>},
     bluetooth |-> {<<"bluetooth.power">>, <<"bluetooth.discovery">>},
     power |-> {<<"power.hibernate">>, <<"recovery.firmware_setup">>},
     connectivity |-> ({"network.vpn"} \X SetOf(Profiles)) \cup {<<"sound.app">>, <<"power.profile">>},
     input |-> ({"natural_scroll"} \X {"pointer", "touchpad"}) \cup {<<"keyboard.layout">>},
     time |-> {<<"time.ntp">>},
     privacy |-> {<<"privacy.camera">>, <<"privacy.firewall">>},
     accounts |-> {<<"accounts.automatic_login">>} \cup ({"accounts.locked"} \X SetOf(Users)),
     apps |-> {<<"apps.default">>},
     storage |-> {<<"storage.mounted">>}]
ThingsOf ==
    [display |-> ({"plugged", "display.output", "mode"} \X SetOf(Screens))
                 \cup {<<"primary">>, <<"light">>, <<"display.brightness">>},
     sound |-> {<<"sound.muted">>, <<"sound.output">>},
     network |-> {<<"network.wifi">>, <<"network.enabled">>},
     bluetooth |-> {<<"bluetooth.power">>, <<"bluetooth.discovery">>, <<"radio">>},
     power |-> {<<"power.hibernate">>, <<"recovery.firmware_setup">>},
     connectivity |-> ({"network.vpn"} \X SetOf(Profiles)) \cup {<<"sound.app">>, <<"power.profile">>},
     input |-> ({"scroll"} \X SetOf(Devices)) \cup {<<"keyboard.layout">>, <<"x11">>},
     time |-> {<<"time.ntp">>, <<"timesync">>},
     privacy |-> ({"may"} \X SetOf(AskingApps)) \cup {<<"store">>, <<"firewalld">>, <<"ufw">>, <<"pkexec">>},
     accounts |-> {"auto", "accounts.locked"} \X SetOf(Users),
     apps |-> {<<"opens", "first">>, <<"opens", "second">>},
     storage |-> {<<"storage.mounted">>}]
Things == UNION {ThingsOf[p] : p \in DOMAIN ThingsOf}
\* What a thing may be, when a page is opened and when others change it.
Values(t) ==
    CASE t[1] \in {"sound.muted", "network.wifi", "bluetooth.power", "network.vpn", "time.ntp",
                   "auto", "storage.mounted"} -> {"on", "off", "gone"}
      [] t[1] \in {"display.output", "power.hibernate", "firewalld"} -> {"on", "off"}
      [] t[1] \in {"network.enabled", "radio", "timesync", "store", "ufw"} -> {"on", "gone"}
      [] t[1] \in {"bluetooth.discovery", "accounts.locked"} -> {"off"}
      [] t[1] \in {"sound.output", "sound.app"} -> {"low", "gone"}
      [] t[1] \in {"display.brightness", "power.profile"} -> {"low"}
      [] t[1] = "plugged" -> {"yes", "gone"}  [] t[1] = "mode" -> {"small"}
      [] t[1] = "primary" -> SetOf(Screens)   [] t[1] = "light" -> {"modern", "sysfs"}
      [] t[1] = "recovery.firmware_setup" -> {"off", "gone"}
      [] t[1] = "scroll" -> {"on", "off", "unsupported", "gone"}
      [] t[1] = "keyboard.layout" -> {"l1", "l2", "gone"}
      [] t[1] = "x11" -> {"old"}              [] t[1] = "may" -> {"yes", "no", "gone"}
      [] t[1] = "pkexec" -> {"on"}            [] t[1] = "opens" -> {"none", "low"}
Usual == [t \in Things |-> CHOOSE v \in Values(t) : TRUE]
With(m, ts, v) == [t \in Things |-> IF t \in ts THEN v ELSE m[t]]
\* The airplane row is on the network page, and reads the adapter as well.
Relevant(p) == ThingsOf[p] \cup IF p = "network" THEN ThingsOf.bluetooth ELSE {}
Machines(p) ==
    FoldSet(LAMBDA t, ms : {With(m, {t}, v) : m \in ms, v \in Values(t)}, {Usual}, Relevant(p))

\* What a row stands for on machine m: its own thing, or of several those that are
\* there - the screen that is on, the primary one if that is on, the firewall in charge.
ScreensOn(m) == {s \in SetOf(Screens) : m[<<"plugged", s>>] = "yes" /\ m[<<"display.output", s>>] = "on"}
Meant(m, r) ==
    CASE r[1] = "network.airplane" -> {<<"network.wifi">>, <<"bluetooth.power">>}
      [] r[1] = "display.resolution" ->
           {"mode"} \X {s \in ScreensOn(m) : m[<<"primary">>] \in ScreensOn(m) => s = m[<<"primary">>]}
      [] r[1] = "privacy.camera" ->
           {"may"} \X {a \in SetOf(AskingApps) : ~Lacks(m, <<"may", a>>)}
      [] r[1] = "privacy.firewall" ->
           {IF m[<<"firewalld">>] = "on" THEN <<"firewalld">> ELSE <<"ufw">>}
      [] r[1] = "natural_scroll" ->
           {"scroll"} \X {d \in SetOf(Devices) : r[2] \in KindsOf[d] /\ ~Lacks(m, <<"scroll", d>>)}
      [] r[1] = "accounts.automatic_login" -> {<<"auto", Me>>}
      [] r[1] = "apps.default" -> ThingsOf.apps
      [] OTHER -> {r}

\* The registry: row r of the page, read from machine m, and its write of v.
Row(m, r, v) ==
    CASE page = "display" -> DisplayRow(m, r, v) [] page = "sound" -> SoundRow(m, r, v)
      [] page = "network" -> NetworkRow(m, r, v) [] page = "bluetooth" -> BluetoothRow(m, r, v)
      [] page = "power" -> PowerRow(m, r, v)     [] page = "connectivity" -> ConnectivityRow(m, r, v)
      [] page = "input" -> InputRow(m, r, v)     [] page = "time" -> TimeRow(m, r, v)
      [] page = "privacy" -> PrivacyRow(m, r, v) [] page = "accounts" -> AccountRow(m, r, v)
      [] page = "apps" -> AppRow(m, r, v)        [] page = "storage" -> StorageRow(m, r, v)
Options(r) == IF r = <<"keyboard.layout">> THEN SetOf(Layouts) ELSE {"low", "high"}

-----------------------------------------------------------------------------
NoClick == [step |-> "idle", row |-> <<"none">>]
NoAnswer == [row |-> <<"none">>, want |-> "none", wrote |-> FALSE, told |-> FALSE]

SettingsInit ==
    /\ page \in DOMAIN Rows /\ machine \in Machines(page)
    /\ click = NoClick /\ answer = NoAnswer /\ jobs = {} /\ touched = {}
    /\ meant = {} /\ clicks = 0 /\ others = 0

BeginClick(r, v) ==
    /\ click.step = "idle" /\ clicks < MaxRowClicks /\ clicks' = clicks + 1
    /\ click' = [step |-> "write", row |-> r, want |-> v]
    /\ answer' = NoAnswer /\ touched' = {} /\ UNCHANGED <<meant, machine, page, jobs, others>>
\* A click on a switch turns over what is read, if that can be written; ...
Toggle == \E r \in Rows[page] :
    LET row == Row(machine, r, "on")
    IN row.kind = "switch" /\ row.state.writable /\ BeginClick(r, Opposite(row.state.value))
ReadOnly == \E r \in Rows[page] :
    LET row == Row(machine, r, "on")
    IN /\ click.step = "idle" /\ clicks < MaxRowClicks /\ clicks' = clicks + 1
       /\ row.kind = "switch" /\ ~row.state.writable
       /\ answer' = [NoAnswer EXCEPT !.row = r, !.told = TRUE]
       /\ UNCHANGED <<meant, machine, page, click, jobs, touched, others>>
\* ... an action runs whatever its reading says; an option is written as it was picked.
Invoke == \E r \in Rows[page] : Row(machine, r, "on").kind = "action" /\ BeginClick(r, "on")
Pick == \E r \in Rows[page] :
    Row(machine, r, "low").kind = "choice" /\ \E v \in Options(r) : BeginClick(r, v)

\* Control.write: the writer decides on its calls.  An exception outside the writer
\* leaves the slot, and nobody is answered.
Write ==
    /\ click.step = "write"
    /\ LET script == Row(machine, click.row, click.want).write
       IN /\ click' = IF script.result = "raises" THEN NoClick
                      ELSE [step |-> IF script.rule = "layout" THEN "turn" ELSE "call",
                            row |-> click.row, want |-> click.want, todo |-> script.calls,
                            rule |-> script.rule, taken |-> 0, turns |-> 0,
                            failed |-> script.result = "bad"]
          /\ meant' = IF script.result = "raises" THEN {} ELSE Meant(machine, click.row)
    /\ UNCHANGED <<machine, page, answer, jobs, touched, clicks, others>>

\* Is the service there, and does it know the thing?  A permission is made when it is missing.
Reachable(t) ==
    CASE t[1] = "may" -> ~Lacks(machine, <<"store">>)
      [] t[1] \in {"display.output", "mode"} -> ~Lacks(machine, <<"plugged", t[2]>>)
      [] OTHER -> machine[t] \notin {"gone", "unsupported"}
\* systemd answers when the job is queued; a later job for the unit replaces it.
Queued(t) == t = <<"firewalld">>

\* One call: taken, refused, or made although its answer was lost.
AskService ==
    /\ click.step = "call" /\ click.todo # <<>>
    /\ LET c == Head(click.todo)
           now == {t \in c.sets : ~Queued(t)}
           later == c.sets \ now
       IN \E outcome \in IF \A t \in c.sets : Reachable(t)
                         THEN {"taken", "refused", "lost"} ELSE {"refused"} :
             /\ click' = [click EXCEPT !.todo = Tail(@), !.failed = @ \/ outcome # "taken",
                                       !.taken = IF outcome = "taken" THEN @ + 1 ELSE @]
             /\ IF outcome = "refused" THEN UNCHANGED <<machine, jobs>>
                ELSE /\ machine' = With(machine, now, c.to)
                     /\ jobs' = {j \in jobs : j[1] \notin later} \cup (later \X {c.to})
    /\ UNCHANGED <<meant, page, answer, touched, clicks, others>>
JobDone == \E j \in jobs :
    /\ machine' = With(machine, {j[1]}, j[2]) /\ jobs' = jobs \ {j}
    /\ UNCHANGED <<meant, page, click, answer, touched, clicks, others>>

\* set_layout: at most as many turns as there are layouts, each from where the ring is.
LayoutThere == machine[<<"keyboard.layout">>] = click.want
TurnLayout ==
    /\ click.step = "turn" /\ ~LayoutThere /\ click.turns < Len(Layouts)
    /\ \/ /\ Reachable(<<"keyboard.layout">>)
          /\ machine' = With(machine, {<<"keyboard.layout">>}, switch_layout(machine[<<"keyboard.layout">>]))
          /\ click' = [click EXCEPT !.turns = @ + 1]
       \/ click' = [click EXCEPT !.step = "call", !.failed = TRUE] /\ UNCHANGED machine
    /\ UNCHANGED <<meant, page, answer, jobs, touched, clicks, others>>
set_x11_keyboard(v) == With(machine, {<<"x11">>}, v)
\* Then localed is told the list of layouts; whether it took it is not looked at.
StoreLayouts ==
    /\ click.step = "turn" /\ (LayoutThere \/ click.turns = Len(Layouts))
    /\ \E v \in {"old", "new"} : machine' = set_x11_keyboard(v)
    /\ click' = [click EXCEPT !.step = "call", !.failed = ~LayoutThere]
    /\ UNCHANGED <<meant, page, answer, jobs, touched, clicks, others>>

\* The row is read again; a failure, or a row that cannot be written, has a reason.
ReadBack ==
    /\ click.step = "call" /\ click.todo = <<>>
    /\ LET ok == IF click.rule = "some" THEN click.taken > 0 ELSE ~click.failed
           now == Row(machine, click.row, click.want).state
       IN answer' = [row |-> click.row, want |-> click.want, wrote |-> TRUE,
                     told |-> ~ok \/ ~now.writable]
    /\ click' = NoClick /\ meant' = {} /\ UNCHANGED <<machine, page, jobs, touched, clicks, others>>

\* Another program, the user with a key or a plug, or a service that stops.
Other ==
    /\ click.step # "idle" /\ others < MaxMeanwhile /\ others' = others + 1
    /\ \E t \in Relevant(page) : \E v \in Values(t) \ {machine[t]} :
          machine' = With(machine, {t}, v) /\ touched' = touched \cup {t}
    /\ UNCHANGED <<meant, page, click, answer, jobs, clicks>>

SettingsNext ==
    \/ Toggle \/ ReadOnly \/ Invoke \/ Pick \/ Write \/ AskService \/ JobDone
    \/ TurnLayout \/ StoreLayouts \/ ReadBack \/ Other
SettingsSpec == SettingsInit /\ [][SettingsNext]_settingsVars

-----------------------------------------------------------------------------
\* What the title of a row may name, on any machine.  Profiles of one name cannot be told
\* apart, and the pages say "the pointer", "the touchpad" and "the screen" without saying which.
NamedBy(r) ==
    CASE r[1] = "network.airplane" -> {<<"network.wifi">>, <<"bluetooth.power">>}
      [] r[1] = "network.vpn" ->
           {"network.vpn"} \X {p \in SetOf(Profiles) : NameOf[p] = NameOf[r[2]]}
      [] r[1] = "display.resolution" -> {"mode"} \X SetOf(Screens)
      [] r[1] = "privacy.camera" -> {"may"} \X SetOf(AskingApps)
      [] r[1] = "privacy.firewall" -> {<<"firewalld">>, <<"ufw">>}
      [] r[1] = "natural_scroll" -> {"scroll"} \X {d \in SetOf(Devices) : r[2] \in KindsOf[d]}
      [] r[1] = "accounts.automatic_login" -> {<<"auto", Me>>}
      [] r[1] = "apps.default" -> ThingsOf.apps
      [] OTHER -> {r}
\* The value that grants the request to a thing.
Granted(t, r, v) ==
    CASE r[1] = "network.airplane" -> machine[t] = Opposite(v)
      [] r[1] = "privacy.camera" -> machine[t] \in {IF v = "on" THEN "yes" ELSE "no", "gone"}
      [] OTHER -> machine[t] = v
OneIsEnough == {"natural_scroll", "display.resolution", "network.vpn", "privacy.firewall"}

(* A row that answers without a reason did what it said: everything it      *)
(* names has the value that was asked for - of the pointing devices, the    *)
(* screens, the firewalls and the profiles of one name at least one has -   *)
(* unless somebody else changed it meanwhile or systemd still works on it.  *)
(* The default of the keyboard layouts is not among what is named           *)
(* (SettingsControls: "a switch that the service refused stays where the    *)
(* service left it, and the row redraws with the reason").                  *)
AnswerIsHonest ==
    click.step = "idle" /\ answer.wrote /\ ~answer.told =>
       LET named == NamedBy(answer.row) \cap Things
       IN \/ named = {} \/ named \cap touched # {} \/ \E j \in jobs : j[1] \in named
          \/ IF answer.row[1] \in OneIsEnough
             THEN \E t \in named : Granted(t, answer.row, answer.want)
             ELSE \A t \in named : Granted(t, answer.row, answer.want)

\* _set_vpn(False) ends the connection that is kept under the profile's name
\* (NetworkManagerFacet._active_connection_ids), which may be another profile's.
Namesakes(r, v) ==
    IF r[1] = "network.vpn" /\ v = "off"
    THEN {"network.vpn"} \X {p \in SetOf(Profiles) : NameOf[p] = NameOf[r[2]]} ELSE {}

(* However the machine changes while the calls of a click are made, they     *)
(* change what the row stood for when its writer looked, to what was asked   *)
(* for, and nothing else: not another user's login ("say so instead of       *)
(* quietly changing someone else's login"), another screen than the primary  *)
(* one, an application without an entry, the firewall that is not in charge  *)
(* or another VPN profile - but that to switch one off may end another of    *)
(* its name.  The keyboard turns through the layouts up to the one asked for.*)
OnlyWhatIsNamed ==
    [][machine' # machine /\ others' = others =>
          \A t \in Things : machine'[t] # machine[t] =>
              \/ <<t, machine'[t]>> \in jobs
              \/ /\ t \in meant \cup Namesakes(click.row, click.want)
                 /\ Granted(t, click.row, click.want)'
              \/ t \in {<<"keyboard.layout">>, <<"x11">>} /\ click.row = <<"keyboard.layout">>
      ]_settingsVars
=============================================================================
