------------------------------- MODULE MCDesktop -------------------------------
(* The parts of the shell that share no state, in one instance for TLC.     *)
(* The first state's choice of `part` picks the one that runs; the others    *)
(* keep an initial state, and a part's properties speak of its own variables. *)
EXTENDS Preferences, Clipboard, Notifications, Explorer, GameBar, Processes, ServiceBus, Startup, Devices, Settings, Integers, Sequences, TLC
CONSTANTS Parts   \* the parts that run
VARIABLES part,
          sent, wire, buffer, received

wireVars == <<sent, wire, buffer, received>>

(* Messages for Wire: what the types need of padding, and two it must refuse. *)
Header(sig) == [path |-> <<"/">>, member |-> <<"m", "n">>, sender |-> <<":", "1">>,
                signature |-> sig]
Said(type, version, serial, attrs, body) ==
    [type |-> type, version |-> version, serial |-> serial, attrs |-> attrs, body |-> body]
Numeral(code, n) == <<code, n>>
Str(t) == <<"s", t>>
List(items) == <<"a", items>>
Group(open, members) == <<open, members>>
Holding(sig, value) == <<"v", sig, value>>
Wired == [
    hello |-> Said(1, 1, 1, [path |-> <<"/", "D">>, member |-> <<"H">>,
                             destination |-> <<"o", "r", "g">>], <<>>),
    properties |-> Said(4, 1, 2, Header(<<"s", "a", "{", "s", "v", "}", "a", "s">>),
        <<Str(<<"i">>),
          List(<<Group("{", <<Str(<<"p">>), Holding(<<"d">>, Numeral("d", 5))>>),
                 Group("{", <<Str(<<"q", "r">>),
                              Holding(<<"a", "s">>, List(<<Str(<<"x">>)>>))>>)>>),
          List(<<>>)>>),
    struct |-> Said(2, 1, 3, [reply_serial |-> 7, sender |-> <<":">>, unix_fds |-> 1,
                              signature |-> <<"y", "(", "i", "b", "n", ")", "a", "x">>],
        <<Numeral("y", 3),
          Group("(", <<Numeral("i", 1), Numeral("b", 1), Numeral("n", 2)>>), List(<<>>)>>),
    bytes |-> Said(3, 1, 4, [error_name |-> <<"e", "r">>, reply_serial |-> 8,
                             signature |-> <<"a", "y", "a", "t", "v">>],
        <<List(<<Numeral("y", 1), Numeral("y", 2), Numeral("y", 3)>>), List(<<Numeral("t", 9)>>),
          Holding(<<"(", "y", "x", ")">>, Group("(", <<Numeral("y", 1), Numeral("x", 2)>>))>>),
    twoTypes |-> Said(4, 1, 5, Header(<<"v">>), <<Holding(<<"y", "y">>, Numeral("y", 1))>>),
    otherVersion |-> Said(4, 2, 6, Header(<<"u">>), <<Numeral("u", 3)>>)]

W == INSTANCE Wire WITH Messages <- Wired, Chunks <- {1, 5, 64}, MaxMessages <- 2

(* The rows of Settings: two profiles of one name, and a touchpad. *)
DeskScreens == <<"s1", "s2">>
DeskProfiles == <<"p1", "p2">>
DeskUsers == <<"me", "guest">>
DeskApps == <<"a1", "a2">>
DeskPointers == <<"mouse", "pad">>
DeskNames == [p1 |-> "work", p2 |-> "work"]
DeskKinds == [mouse |-> {"pointer"}, pad |-> {"pointer", "touchpad"}]

PciUnits == {<<"pci-net", 1>>, <<"net", 1>>, <<"printer", 1>>}

Group1 == [kind |-> "group", value |-> "Desktop Entry"]
Group2 == [kind |-> "group", value |-> "Desktop Action"]
NameLine == [kind |-> "Name", value |-> "a name"]
AutostartFiles ==
    {<<Group1, NameLine>>, <<Group1, HiddenLine(TRUE), HiddenLine(FALSE), NameLine>>,
     <<Group1, NameLine, Group2, NameLine>>, <<Group1, HiddenLine(FALSE)>>,
     <<Group2, HiddenLine(FALSE), Group1, HiddenLine(FALSE), NameLine>>}

Disk == <<"udisks", "disk">>
Manager == <<"manager">>
DeskPaths == {Disk, Manager}
DeskRoot == <<"udisks">>
DeskQuestions == {<<"Set", Disk, "Block", "label", 2>>, <<"Get", Disk, "Block", "size", 0>>}
DeskBefore == <<Disk, "Block">> :> [label |-> 1]

Init ==
    /\ part \in Parts
    /\ PrefsInit /\ (part = "prefs" \/ conf = Empty)
    /\ ClipInit /\ NotifyInit /\ TaskInit
    /\ ExplorerInit /\ (part = "explorer" \/ \A o \in DOMAIN place : place[o] = NotYet)
    /\ BarInit /\ (part = "gamebar" \/ <<shotTool, recordTool>> = <<"none", "none">>)
    /\ IF part = "settings" THEN SettingsInit
       ELSE /\ page = "display" /\ machine = Usual /\ click = NoClick /\ answer = NoAnswer
            /\ jobs = {} /\ touched = {} /\ meant = {} /\ clicks = 0 /\ others = 0
    /\ StartupInit /\ (part = "startup" \/ autostart["system"]["a"] = <<Group1, NameLine>>)
    /\ DevicesInit /\ (part = "devices" \/ (buses = Sources /\ \A u \in DOMAIN hardware : hardware[u] = "bound"))
    /\ W!Init
    /\ ServiceInit /\ (part = "services" \/ owner = Nobody)

PrefsStep ==
    /\ part = "prefs" /\ PrefsNext
    /\ UNCHANGED <<part, clipVars, notifyVars, explorerVars, barVars, settingsVars, taskVars,
                   startupVars, deviceVars, wireVars, serviceVars>>
ClipboardStep ==
    /\ part = "clipboard" /\ ClipNext
    /\ UNCHANGED <<part, prefVars, notifyVars, explorerVars, barVars, settingsVars, taskVars,
                   startupVars, deviceVars, wireVars, serviceVars>>
NotifyStep ==
    /\ part = "notifications" /\ NotifyNext
    /\ UNCHANGED <<part, prefVars, clipVars, explorerVars, barVars, settingsVars, taskVars,
                   startupVars, deviceVars, wireVars, serviceVars>>
ExplorerStep ==
    /\ part = "explorer" /\ ExplorerNext
    /\ UNCHANGED <<part, prefVars, clipVars, notifyVars, barVars, settingsVars, taskVars,
                   startupVars, deviceVars, wireVars, serviceVars>>
GameBarStep ==
    /\ part = "gamebar" /\ BarNext
    /\ UNCHANGED <<part, prefVars, clipVars, notifyVars, explorerVars, settingsVars, taskVars,
                   startupVars, deviceVars, wireVars, serviceVars>>
SettingsStep ==
    /\ part = "settings" /\ SettingsNext
    /\ UNCHANGED <<part, prefVars, clipVars, notifyVars, explorerVars, barVars, taskVars,
                   startupVars, deviceVars, wireVars, serviceVars>>
TaskManagerStep ==
    /\ part = "processes" /\ TaskNext
    /\ UNCHANGED <<part, prefVars, clipVars, notifyVars, explorerVars, barVars, settingsVars,
                   startupVars, deviceVars, wireVars, serviceVars>>
StartupStep ==
    /\ part = "startup" /\ StartupNext
    /\ UNCHANGED <<part, prefVars, clipVars, notifyVars, explorerVars, barVars, settingsVars,
                   taskVars, deviceVars, wireVars, serviceVars>>
DevicesStep ==
    /\ part = "devices" /\ DevicesNext
    /\ UNCHANGED <<part, prefVars, clipVars, notifyVars, explorerVars, barVars, settingsVars,
                   taskVars, startupVars, wireVars, serviceVars>>
WireStep ==
    /\ part = "wire" /\ W!Next
    /\ UNCHANGED <<part, prefVars, clipVars, notifyVars, explorerVars, barVars, settingsVars,
                   taskVars, startupVars, deviceVars, serviceVars>>
ServiceStep ==
    /\ part = "services" /\ ServiceNext
    /\ UNCHANGED <<part, prefVars, clipVars, notifyVars, explorerVars, barVars, settingsVars,
                   taskVars, startupVars, deviceVars, wireVars>>
Next ==
    \/ PrefsStep \/ ClipboardStep \/ NotifyStep \/ ExplorerStep \/ GameBarStep
    \/ SettingsStep \/ TaskManagerStep \/ StartupStep \/ DevicesStep
    \/ WireStep \/ ServiceStep
vars == <<part, prefVars, clipVars, notifyVars, explorerVars, barVars, settingsVars,
          taskVars, startupVars, deviceVars, wireVars, serviceVars>>
Spec == Init /\ [][Next]_vars

(* The property of Wire, stated where it is defined. *)
RoundTrip == W!RoundTrip
=============================================================================
