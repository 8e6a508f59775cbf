---------------------------- MODULE SettingsProofs ----------------------------
(***************************************************************************)
(* Proofs about the rows of Settings: what a click changes, and what it    *)
(* says it has changed, for any listings of screens, profiles, users,      *)
(* applications and devices, and any number of clicks and of changes by    *)
(* others.                                                                 *)
(*                                                                         *)
(* A write is a list of calls.  For each row, Attempted says what the      *)
(* calls have to do with what the row names; the invariant follows them    *)
(* one by one, with Sure for what has been granted so far.                 *)
(***************************************************************************)
EXTENDS Settings, QueueProofs, TLAPS

-----------------------------------------------------------------------------
(* What a row asks for.                                                      *)

\* The value that grants the request, and a request that is granted by it; an
\* application that is gone has nothing to be granted.
GrantValue(r, v) ==
    CASE r[1] = "network.airplane" -> Opposite(v)
      [] r[1] = "privacy.camera" -> IF v = "on" THEN "yes" ELSE "no"
      [] OTHER -> v
GrantedBy(m, t, r, v) ==
    m[t] = GrantValue(r, v) \/ (r[1] = "privacy.camera" /\ m[t] = "gone")
Aims(r) == NamedBy(r) \cap Things
\* The calls that change nothing else and nothing otherwise.
Granters(r, v) ==
    [sets : SUBSET NamedBy(r), to : {GrantValue(r, v)}] \cup [sets : {{}}, to : {"on"}]
\* The things in S are as many as the row must have granted.
Met(r, S) ==
    \/ Aims(r) = {}
    \/ IF r[1] \in OneIsEnough THEN S \cap Aims(r) # {} ELSE Aims(r) \subseteq S

ChoiceRows == {"display.resolution", "display.brightness", "sound.output", "sound.app",
               "power.profile", "keyboard.layout", "apps.default"}
Wants == {"on", "off", "low", "high"} \cup SetOf(Layouts)
WantRight(r, v) ==
    /\ v \in Wants
    /\ r[1] \notin ChoiceRows => v \in {"on", "off"}
    /\ r[1] = "power.hibernate" => v = "on"

\* What a script reaches: what its calls set, and what is not there to be set.
Reached(q, m, r) ==
    {t \in Things : (\E i \in DOMAIN q : t \in q[i].sets) \/ (r[1] = "privacy.camera" /\ m[t] = "gone")}
Attempted(w, m, r, v) ==
    /\ w.calls \in Seq(Granters(r, v)) /\ w.rule \in {"all", "some", "layout"}
    /\ w.result \in {"ok", "bad", "raises"}
    /\ w.rule = "layout" => r = <<"keyboard.layout">> /\ w.calls = <<>> /\ w.result = "ok"
    /\ w.rule = "some" => /\ r[1] \in OneIsEnough
                          /\ \A i \in DOMAIN w.calls : w.calls[i].sets \cap Aims(r) # {}
    /\ w.rule = "all" /\ w.result = "ok" /\ r[1] # "power.hibernate" => Met(r, Reached(w.calls, m, r))

-----------------------------------------------------------------------------
(* Listings.                                                                 *)

LEMMA ListingsAre ==
    /\ Screens \in Seq(SetOf(Screens)) /\ Profiles \in Seq(SetOf(Profiles))
    /\ AskingApps \in Seq(SetOf(AskingApps)) /\ Devices \in Seq(SetOf(Devices))
BY ListingsAssumption DEF SetOf

LEMMA ThoseInIs ==
    ASSUME NEW M, NEW s \in Seq(M), NEW set
    PROVE  /\ ThoseIn(s, set) \in Seq(M)
           /\ \A j \in DOMAIN ThoseIn(s, set) : ThoseIn(s, set)[j] \in set
           /\ SetOf(ThoseIn(s, set)) = SetOf(s) \cap set
<1> DEFINE one(i) == IF s[i] \in set THEN <<s[i]>> ELSE <<>>
           f == [i \in DOMAIN s |-> one(i)]
<1>1. DOMAIN s = 1 .. Len(s) /\ Len(s) \in Nat /\ \A i \in DOMAIN s : s[i] \in M  OBVIOUS
<1>2. \A i \in DOMAIN s : one(i) \in Seq(M)  BY <1>1
<1>3. f \in Seq(Seq(M)) /\ Len(f) = Len(s) /\ DOMAIN f = DOMAIN s
  BY <1>1, <1>2
<1>4. \A i \in DOMAIN f : f[i] = one(i)  BY <1>3
<1>5. ThoseIn(s, set) = FlattenSeq(f)  BY DEF ThoseIn
<1> HIDE DEF f
<1> DEFINE q == FlattenSeq(f)
<1>6. q \in Seq(M) /\ Gathered(q, f, Len(f))  BY <1>3, FlattenGathers
<1> HIDE DEF q
<1>7. ASSUME NEW j \in DOMAIN q PROVE q[j] \in set /\ \E i \in DOMAIN s : q[j] = s[i]
  <2>1. PICK i \in 1 .. Len(f) : \E x \in DOMAIN f[i] : q[j] = f[i][x]  BY <1>6 DEF Gathered
  <2>2. i \in DOMAIN s  BY <1>1, <1>3, <2>1
  <2>3. CASE s[i] \in set
    <3>1. f[i] = <<s[i]>>  BY <1>3, <1>4, <2>2, <2>3
    <3> QED  BY <2>1, <2>2, <2>3, <3>1
  <2>4. CASE s[i] \notin set
    <3>1. f[i] = <<>>  BY <1>3, <1>4, <2>2, <2>4
    <3> QED  BY <2>1, <3>1
  <2> QED  BY <2>3, <2>4
<1>8. ASSUME NEW i \in DOMAIN s, s[i] \in set PROVE \E j \in DOMAIN q : q[j] = s[i]
  <2>1. f[i] = <<s[i]>> /\ i \in 1 .. Len(f)  BY <1>1, <1>3, <1>4, <1>8
  <2>2. 1 \in DOMAIN f[i] /\ f[i][1] = s[i]  BY <2>1
  <2> QED  BY <1>6, <2>1, <2>2 DEF Gathered
<1>9. SetOf(q) = SetOf(s) \cap set
  <2>1. ASSUME NEW x \in SetOf(q) PROVE x \in SetOf(s) \cap set  BY <1>7, <2>1 DEF SetOf
  <2>2. ASSUME NEW x \in SetOf(s) \cap set PROVE x \in SetOf(q)  BY <1>8, <2>2 DEF SetOf
  <2> QED  BY <2>1, <2>2
<1> QED  BY <1>5, <1>6, <1>7, <1>9 DEF q

LEMMA PrimaryIsAScreen ==
    ASSUME NEW m, PrimaryOutput(m) # "none"
    PROVE  PrimaryOutput(m) \in SetOf(Screens)
<1> DEFINE M == SetOf(Screens)
           enabled == ThoseIn(outputs(m), {s \in SetOf(Screens) : _output_reading(m, s).enabled})
           primary == ThoseIn(enabled, {s \in SetOf(Screens) : _output_reading(m, s).primary})
<1> HIDE DEF M
<1>1. outputs(m) \in Seq(M)  BY ListingsAre, ThoseInIs DEF outputs, M
<1>2. enabled \in Seq(M)  BY <1>1, ThoseInIs
<1>3. primary \in Seq(M)  BY <1>2, ThoseInIs
<1>4. PrimaryOutput(m) = IF enabled = <<>> THEN "none" ELSE FirstOr(primary, Head(enabled))
  BY DEF PrimaryOutput
<1> HIDE DEF enabled, primary
<1>5. enabled # <<>> => Head(enabled) \in M  BY <1>2
<1>6. primary # <<>> => Head(primary) \in M  BY <1>3
<1> QED  BY <1>4, <1>5, <1>6 DEF FirstOr, M

-----------------------------------------------------------------------------
(* What each row's write attempts.                                           *)

LEMMA ThingsOn ==
    /\ ThingsOf.display \subseteq Things /\ ThingsOf.sound \subseteq Things
    /\ ThingsOf.network \subseteq Things /\ ThingsOf.bluetooth \subseteq Things
    /\ ThingsOf.power \subseteq Things /\ ThingsOf.connectivity \subseteq Things
    /\ ThingsOf.input \subseteq Things /\ ThingsOf.time \subseteq Things
    /\ ThingsOf.privacy \subseteq Things /\ ThingsOf.accounts \subseteq Things
    /\ ThingsOf.apps \subseteq Things /\ ThingsOf.storage \subseteq Things
<1>1. DOMAIN ThingsOf = {"display", "sound", "network", "bluetooth", "power", "connectivity",
                         "input", "time", "privacy", "accounts", "apps", "storage"}
  BY DEF ThingsOf
<1> QED  BY <1>1 DEF Things

LEMMA BadIsAttempted ==
    ASSUME NEW m, NEW r, NEW v
    PROVE  Attempted(Bad, m, r, v) /\ Attempted(Raises, m, r, v)
BY DEF Bad, Raises, Attempted

LEMMA OneCallIsAttempted ==
    ASSUME NEW m, NEW r, NEW v, NEW t \in Aims(r), NEW w, w = GrantValue(r, v),
           r[1] \notin OneIsEnough => Aims(r) = {t}
    PROVE  Attempted(Do(<<Call(t, w)>>), m, r, v)
<1> DEFINE c == Call(t, w)
<1>1. c = [sets |-> {t}, to |-> w]  BY DEF Call
<1>2. c \in Granters(r, v)  BY <1>1 DEF Granters, Aims
<1> HIDE DEF c
<1>3. <<c>> \in Seq(Granters(r, v)) /\ 1 \in DOMAIN <<c>> /\ <<c>>[1] = c  BY <1>2
<1>4. t \in Reached(<<c>>, m, r)  BY <1>1, <1>3 DEF Reached, Aims
<1>5. Met(r, Reached(<<c>>, m, r))  BY <1>4 DEF Met
<1>6. Attempted(Do(<<c>>), m, r, v)  BY <1>3, <1>5 DEF Attempted, Do
<1> QED  BY <1>6 DEF c

LEMMA NoCallIsAttempted ==
    ASSUME NEW m, NEW r, NEW v, r[1] = "power.hibernate" \/ Aims(r) = {}
    PROVE  Attempted(Do(<<[sets |-> {}, to |-> "on"]>>), m, r, v)
<1> DEFINE c == [sets |-> {}, to |-> "on"]
<1>1. c \in Granters(r, v)  BY DEF Granters
<1> HIDE DEF c
<1>2. <<c>> \in Seq(Granters(r, v))  BY <1>1
<1>3. Attempted(Do(<<c>>), m, r, v)  BY <1>2 DEF Attempted, Do, Met
<1> QED  BY <1>3 DEF c

(* Rows that are what they name, and write it in one call.                   *)
Plain(r) == NamedBy(r) = {r} /\ \A v : GrantValue(r, v) = v

LEMMA PlainRows ==
    ASSUME NEW r, r[1] \in (ChoiceRows \ {"display.resolution", "apps.default"})
                           \cup {"display.output", "sound.muted", "network.wifi", "network.enabled",
                                 "network.scan", "bluetooth.power", "bluetooth.discovery",
                                 "power.hibernate", "recovery.firmware_setup", "time.ntp",
                                 "accounts.locked", "storage.mounted"}
    PROVE  Plain(r)
BY DEF Plain, NamedBy, GrantValue, ChoiceRows

LEMMA PlainIsAttempted ==
    ASSUME NEW m, NEW r \in Things, NEW v, Plain(r)
    PROVE  Attempted(Do(<<Call(r, v)>>), m, r, v)
<1>1. Aims(r) = {r} /\ GrantValue(r, v) = v  BY DEF Aims, Plain
<1> QED  BY <1>1, OneCallIsAttempted

LEMMA DisplayRows ==
    ASSUME NEW r \in Rows.display, NEW m, NEW v
    PROVE  Attempted(DisplayRow(m, r, v).write, m, r, v)
<1>1. CASE r = <<"display.resolution">>
  <2>1. CASE PrimaryOutput(m) = "none"
    <3>1. DisplayRow(m, r, v).write = Bad  BY <1>1, <2>1 DEF DisplayRow, ChoiceRow
    <3> QED  BY <3>1, BadIsAttempted
  <2>2. CASE PrimaryOutput(m) # "none"
    <3> DEFINE t == <<"mode", PrimaryOutput(m)>>
    <3>1. PrimaryOutput(m) \in SetOf(Screens)  BY <2>2, PrimaryIsAScreen
    <3>2. NamedBy(r) = {"mode"} \X SetOf(Screens) /\ GrantValue(r, v) = v
      BY <1>1 DEF NamedBy, GrantValue
    <3>3. t \in ThingsOf.display  BY <3>1 DEF ThingsOf
    <3>4. t \in Aims(r) /\ r[1] \in OneIsEnough
      BY <1>1, <3>1, <3>2, <3>3, ThingsOn DEF Aims, OneIsEnough
    <3>5. DisplayRow(m, r, v).write = Do(<<Call(t, v)>>)
      BY <1>1, <2>2 DEF DisplayRow, ChoiceRow, set_output_mode
    <3> HIDE DEF t
    <3> QED  BY <3>2, <3>4, <3>5, OneCallIsAttempted
  <2> QED  BY <2>1, <2>2
<1>2. CASE r = <<"display.brightness">>
  <2>1. Plain(r)  BY <1>2, PlainRows DEF ChoiceRows
  <2>2. r \in ThingsOf.display  BY <1>2 DEF ThingsOf
  <2>3. DisplayRow(m, r, v).write = set_brightness(m, v)  BY <1>2 DEF DisplayRow, ChoiceRow
  <2>4. set_brightness(m, v) \in {Bad, Do(<<Call(r, v)>>)}  BY <1>2 DEF set_brightness
  <2> QED  BY <2>1, <2>2, <2>3, <2>4, ThingsOn, BadIsAttempted, PlainIsAttempted
<1>3. CASE r \in {"display.output"} \X SetOf(Screens)
  <2>1. r[1] = "display.output" /\ r = <<"display.output", r[2]>>  BY <1>3
  <2>2. Plain(r)  BY <2>1, PlainRows
  <2>3. r \in ThingsOf.display  BY <1>3 DEF ThingsOf
  <2>4. DisplayRow(m, r, v).write = Do(<<Call(r, v)>>)
    BY <2>1 DEF DisplayRow, SwitchRow, set_output_enabled
  <2> QED  BY <2>2, <2>3, <2>4, ThingsOn, PlainIsAttempted
<1> QED  BY <1>1, <1>2, <1>3 DEF Rows

LEMMA SoundRows ==
    ASSUME NEW r \in Rows.sound, NEW m, NEW v
    PROVE  Attempted(SoundRow(m, r, v).write, m, r, v)
<1>1. r \in {<<"sound.muted">>, <<"sound.output">>}  BY DEF Rows
<1>2. Plain(r)  BY <1>1, PlainRows DEF ChoiceRows
<1>3. r \in Things  BY <1>1, ThingsOn DEF ThingsOf
<1>4. SoundRow(m, r, v).write = Do(<<Call(r, v)>>)
  BY <1>1 DEF SoundRow, SwitchRow, ChoiceRow, set_muted, set_default_output
<1> QED  BY <1>2, <1>3, <1>4, PlainIsAttempted

LEMMA NetworkRows ==
    ASSUME NEW r \in Rows.network, NEW m, NEW v
    PROVE  Attempted(NetworkRow(m, r, v).write, m, r, v)
<1>1. CASE r \in {<<"network.wifi">>, <<"network.enabled">>}
  <2>1. Plain(r)  BY <1>1, PlainRows
  <2>2. r \in Things  BY <1>1, ThingsOn DEF ThingsOf
  <2>3. NetworkRow(m, r, v).write = Do(<<Call(r, v)>>)
    <3>1. CASE r = <<"network.wifi">>  BY <3>1 DEF NetworkRow, SwitchRow, set_wifi_enabled
    <3>2. CASE r = <<"network.enabled">>  BY <3>2 DEF NetworkRow, SwitchRow, set_networking_enabled
    <3> QED  BY <1>1, <3>1, <3>2
  <2> QED  BY <2>1, <2>2, <2>3, PlainIsAttempted
<1>2. CASE r = <<"network.airplane">>
  <2> DEFINE w == Opposite(v)
             a == Call(<<"network.wifi">>, w)
             b == Call(<<"bluetooth.power">>, w)
  <2>1. NetworkRow(m, r, v).write = Do(<<a>> \o <<b>>)
    BY <1>2 DEF NetworkRow, SwitchRow, set_airplane, set_wifi_enabled, set_powered
  <2>2. NamedBy(r) = {<<"network.wifi">>, <<"bluetooth.power">>} /\ GrantValue(r, v) = w
    BY <1>2 DEF NamedBy, GrantValue
  <2> HIDE DEF w
  <2>3. a.sets = {<<"network.wifi">>} /\ b.sets = {<<"bluetooth.power">>}  BY DEF Call
  <2>4. a \in Granters(r, v) /\ b \in Granters(r, v)  BY <2>2 DEF Call, Granters
  <2> HIDE DEF a, b
  <2> DEFINE q == <<a>> \o <<b>>
  <2>5. q \in Seq(Granters(r, v)) /\ DOMAIN q = 1 .. 2 /\ q[1] = a /\ q[2] = b
    <3> DEFINE M == Granters(r, v)
    <3>1. <<a>> \in Seq(M) /\ <<b>> \in Seq(M) /\ Len(<<a>>) = 1 /\ Len(<<b>>) = 1
          /\ <<a>>[1] = a /\ <<b>>[1] = b
      BY <2>4
    <3> HIDE DEF M
    <3>2. /\ q \in Seq(M) /\ Len(q) = 2
          /\ \A i \in 1 .. 2 : q[i] = IF i <= 1 THEN <<a>>[i] ELSE <<b>>[i - 1]
      BY <3>1, ConcatProperties
    <3>3. q[1] = <<a>>[1] /\ q[2] = <<b>>[1]  BY <3>2
    <3> HIDE DEF q
    <3> QED  BY <3>1, <3>2, <3>3 DEF M
  <2> HIDE DEF q
  <2>6. 1 \in DOMAIN q /\ 2 \in DOMAIN q  BY <2>5
  <2>7. Aims(r) \subseteq Reached(q, m, r)
    BY <2>2, <2>3, <2>5, <2>6 DEF Aims, Reached
  <2>8. r[1] \notin OneIsEnough  BY <1>2 DEF OneIsEnough
  <2>9. Attempted(Do(q), m, r, v)  BY <2>5, <2>7, <2>8 DEF Attempted, Do, Met
  <2> QED  BY <2>1, <2>9 DEF q
<1>3. CASE r = <<"network.scan">>
  <2>1. NamedBy(r) = {r}  BY <1>3, PlainRows DEF Plain
  <2>2. r \notin Things  BY <1>3 DEF Things, ThingsOf
  <2>3. NetworkRow(m, r, v).write \in {Bad, Do(<<[sets |-> {}, to |-> "on"]>>)}
    BY <1>3 DEF NetworkRow, ActionRow, request_scan
  <2> QED  BY <2>1, <2>2, <2>3, NoCallIsAttempted, BadIsAttempted DEF Aims
<1> QED  BY <1>1, <1>2, <1>3 DEF Rows

LEMMA BluetoothRows ==
    ASSUME NEW r \in Rows.bluetooth, NEW m, NEW v
    PROVE  Attempted(BluetoothRow(m, r, v).write, m, r, v)
<1>1. r \in {<<"bluetooth.power">>, <<"bluetooth.discovery">>}  BY DEF Rows
<1>2. Plain(r)  BY <1>1, PlainRows
<1>3. r \in Things  BY <1>1, ThingsOn DEF ThingsOf
<1>4. BluetoothRow(m, r, v).write \in {Bad, Do(<<Call(r, v)>>)}
  BY <1>1 DEF BluetoothRow, SwitchRow, set_powered, discovery
<1> QED  BY <1>2, <1>3, <1>4, PlainIsAttempted, BadIsAttempted

LEMMA PowerRows ==
    ASSUME NEW r \in Rows.power, NEW m, NEW v
    PROVE  Attempted(PowerRow(m, r, v).write, m, r, v)
<1>1. CASE r = <<"power.hibernate">>
  <2>1. PowerRow(m, r, v).write = Do(<<[sets |-> {}, to |-> "on"]>>)
    BY <1>1 DEF PowerRow, ActionRow, act
  <2> QED  BY <1>1, <2>1, NoCallIsAttempted
<1>2. CASE r = <<"recovery.firmware_setup">>
  <2>1. Plain(r)  BY <1>2, PlainRows
  <2>2. r \in Things  BY <1>2, ThingsOn DEF ThingsOf
  <2>3. PowerRow(m, r, v).write = Do(<<Call(r, v)>>)
    BY <1>2 DEF PowerRow, SwitchRow, set_firmware_setup
  <2> QED  BY <2>1, <2>2, <2>3, PlainIsAttempted
<1> QED  BY <1>1, <1>2 DEF Rows

LEMMA ConnectivityRows ==
    ASSUME NEW r \in Rows.connectivity, NEW m, NEW v, WantRight(r, v)
    PROVE  Attempted(ConnectivityRow(m, r, v).write, m, r, v)
<1>1. CASE r \in {<<"sound.app">>, <<"power.profile">>}
  <2>1. Plain(r)  BY <1>1, PlainRows DEF ChoiceRows
  <2>2. r \in Things  BY <1>1, ThingsOn DEF ThingsOf
  <2>3. ConnectivityRow(m, r, v).write = Do(<<Call(r, v)>>)
    BY <1>1 DEF ConnectivityRow, ChoiceRow, set_stream_volume, set_profile
  <2> QED  BY <2>1, <2>2, <2>3, PlainIsAttempted
<1>2. CASE r \in {"network.vpn"} \X SetOf(Profiles)
  <2>1. r[1] = "network.vpn" /\ r[2] \in SetOf(Profiles)  BY <1>2
  <2>2. v \in {"on", "off"}  BY <2>1 DEF WantRight, ChoiceRows
  <2>3. /\ NamedBy(r) = {"network.vpn"} \X {p \in SetOf(Profiles) : NameOf[p] = NameOf[r[2]]}
        /\ GrantValue(r, v) = v /\ r[1] \in OneIsEnough
    BY <2>1 DEF NamedBy, GrantValue, OneIsEnough
  <2>4. ASSUME NEW p \in SetOf(Profiles), NameOf[p] = NameOf[r[2]]
        PROVE  Attempted(Do(<<Call(<<"network.vpn", p>>, v)>>), m, r, v)
    <3> DEFINE t == <<"network.vpn", p>>
    <3>1. t \in NamedBy(r)  BY <2>3, <2>4
    <3>2. t \in Things  BY ThingsOn DEF ThingsOf
    <3> HIDE DEF t
    <3>3. Attempted(Do(<<Call(t, v)>>), m, r, v)  BY <2>3, <3>1, <3>2, OneCallIsAttempted DEF Aims
    <3> QED  BY <3>3 DEF t
  <2>5. ConnectivityRow(m, r, v).write = set_vpn(m, r[2], v)  BY <2>1 DEF ConnectivityRow, SwitchRow
  <2>6. CASE v = "on"
    <3>1. set_vpn(m, r[2], v) = Do(<<Call(<<"network.vpn", r[2]>>, v)>>)
      BY <2>6 DEF set_vpn, activate_saved
    <3> QED  BY <2>1, <2>4, <2>5, <3>1
  <2>7. CASE v = "off"
    <3> DEFINE active == IF r[2] \in saved_connections(m) THEN ActiveNamed(m, NameOf[r[2]]) ELSE <<>>
    <3>1. /\ active \in Seq(SetOf(Profiles))
          /\ \A j \in DOMAIN active : NameOf[active[j]] = NameOf[r[2]]
      <4> DEFINE set == {p \in SetOf(Profiles) : NameOf[p] = NameOf[r[2]] /\ m[<<"network.vpn", p>>] = "on"}
      <4>1. ActiveNamed(m, NameOf[r[2]]) = ThoseIn(Profiles, set)  BY DEF ActiveNamed
      <4>2. \A p \in set : NameOf[p] = NameOf[r[2]]  OBVIOUS
      <4> HIDE DEF set
      <4>3. /\ ThoseIn(Profiles, set) \in Seq(SetOf(Profiles))
            /\ \A j \in DOMAIN ThoseIn(Profiles, set) : ThoseIn(Profiles, set)[j] \in set
        BY ListingsAre, ThoseInIs
      <4> QED  BY <4>1, <4>2, <4>3
    <3>2. set_vpn(m, r[2], v) =
             IF active = <<>> THEN Raises ELSE Do(<<Call(<<"network.vpn", Last(active)>>, "off")>>)
      BY <2>7 DEF set_vpn
    <3> HIDE DEF active
    <3>3. active # <<>> => Last(active) \in SetOf(Profiles) /\ NameOf[Last(active)] = NameOf[r[2]]
      <4>1. active # <<>> => Len(active) \in DOMAIN active /\ Last(active) = active[Len(active)]
        BY <3>1 DEF Last
      <4> QED  BY <3>1, <4>1
    <3>4. CASE active = <<>>  BY <2>5, <3>2, <3>4, BadIsAttempted
    <3>5. CASE active # <<>>  BY <2>4, <2>5, <2>7, <3>2, <3>3, <3>5
    <3> QED  BY <3>4, <3>5
  <2> QED  BY <2>2, <2>6, <2>7
<1> QED  BY <1>1, <1>2 DEF Rows

LEMMA InputRows ==
    ASSUME NEW r \in Rows.input, NEW m, NEW v
    PROVE  Attempted(InputRow(m, r, v).write, m, r, v)
<1>1. CASE r = <<"keyboard.layout">>
  <2>1. InputRow(m, r, v).write = set_keyboard_layout  BY <1>1 DEF InputRow, ChoiceRow
  <2>2. Attempted(set_keyboard_layout, m, r, v)
    <3> DEFINE w == set_keyboard_layout
    <3>1. w.calls = <<>> /\ w.rule = "layout" /\ w.result = "ok"  BY DEF set_keyboard_layout
    <3>2. <<>> \in Seq(Granters(r, v))  OBVIOUS
    <3> HIDE DEF w
    <3>3. Attempted(w, m, r, v)  BY <1>1, <3>1, <3>2 DEF Attempted
    <3> QED  BY <3>3 DEF w
  <2> QED  BY <2>1, <2>2
<1>2. CASE r \in {"natural_scroll"} \X {"pointer", "touchpad"}
  <2> DEFINE set == {d \in SetOf(Devices) : r[2] \in KindsOf[d] /\ ~Lacks(m, <<"scroll", d>>)}
             all == ThoseIn(Devices, set)
             one(i) == Call(<<"scroll", all[i]>>, v)
             q == [i \in DOMAIN all |-> one(i)]
  <2>1. r[1] = "natural_scroll"  BY <1>2
  <2>2. /\ NamedBy(r) = {"scroll"} \X {d \in SetOf(Devices) : r[2] \in KindsOf[d]}
        /\ GrantValue(r, v) = v /\ r[1] \in OneIsEnough
    BY <2>1 DEF NamedBy, GrantValue, OneIsEnough
  <2>3. InputRow(m, r, v).write = IF all = <<>> THEN Bad ELSE AnyOf(q)
    BY <2>1 DEF InputRow, SwitchRow, set_for_kind, OfKind
  <2>4. set \subseteq {d \in SetOf(Devices) : r[2] \in KindsOf[d]}  OBVIOUS
  <2> HIDE DEF set
  <2>5. all \in Seq(SetOf(Devices)) /\ \A j \in DOMAIN all : all[j] \in set
    BY ListingsAre, ThoseInIs
  <2> HIDE DEF all
  <2>6. ASSUME NEW i \in DOMAIN all
        PROVE  /\ one(i) \in Granters(r, v)
               /\ <<"scroll", all[i]>> \in Aims(r) /\ one(i).sets = {<<"scroll", all[i]>>}
    <3>1. all[i] \in {d \in SetOf(Devices) : r[2] \in KindsOf[d]}  BY <2>4, <2>5
    <3>2. <<"scroll", all[i]>> \in NamedBy(r)  BY <2>2, <3>1
    <3>3. <<"scroll", all[i]>> \in Things  BY <3>1, ThingsOn DEF ThingsOf
    <3>4. one(i) = [sets |-> {<<"scroll", all[i]>>}, to |-> v]  BY DEF Call
    <3> QED  BY <2>2, <3>2, <3>3, <3>4 DEF Aims, Granters
  <2> HIDE DEF one
  <2>7. q \in Seq(Granters(r, v)) /\ DOMAIN q = DOMAIN all
    <3>1. DOMAIN all = 1 .. Len(all) /\ Len(all) \in Nat  BY <2>5
    <3>2. \A i \in DOMAIN all : one(i) \in Granters(r, v)  BY <2>6
    <3> QED  BY <3>1, <3>2
  <2>8. \A i \in DOMAIN q : q[i] = one(i)  BY <2>7
  <2> HIDE DEF q
  <2>9. \A i \in DOMAIN q : q[i].sets \cap Aims(r) # {}  BY <2>6, <2>7, <2>8
  <2>10. Attempted(AnyOf(q), m, r, v)  BY <2>2, <2>7, <2>9 DEF Attempted, AnyOf
  <2> QED  BY <2>3, <2>10, BadIsAttempted
<1> QED  BY <1>1, <1>2 DEF Rows

LEMMA TimeRows ==
    ASSUME NEW r \in Rows.time, NEW m, NEW v
    PROVE  Attempted(TimeRow(m, r, v).write, m, r, v)
<1>1. r = <<"time.ntp">>  BY DEF Rows
<1>2. Plain(r)  BY <1>1, PlainRows
<1>3. r \in Things  BY <1>1, ThingsOn DEF ThingsOf
<1>4. TimeRow(m, r, v).write = Do(<<Call(r, v)>>)  BY <1>1 DEF TimeRow, SwitchRow, set_ntp
<1> QED  BY <1>2, <1>3, <1>4, PlainIsAttempted

LEMMA PrivacyRows ==
    ASSUME NEW r \in Rows.privacy, NEW m, NEW v
    PROVE  Attempted(PrivacyRow(m, r, v).write, m, r, v)
<1>1. CASE r = <<"privacy.camera">>
  <2> DEFINE set == {a \in SetOf(AskingApps) : ~Lacks(m, <<"may", a>>)}
             all == ThoseIn(AskingApps, set)
             one(i) == set_app(all[i], v)
             q == [i \in DOMAIN all |-> one(i)]
  <2>1. NamedBy(r) = {"may"} \X SetOf(AskingApps) /\ GrantValue(r, v) = IF v = "on" THEN "yes" ELSE "no"
    BY <1>1 DEF NamedBy, GrantValue
  <2>2. PrivacyRow(m, r, v).write \in {Bad, Do(q)}
    BY <1>1 DEF PrivacyRow, SwitchRow, set_device, device, permitted
  <2>3. /\ all \in Seq(SetOf(AskingApps)) /\ \A j \in DOMAIN all : all[j] \in set
        /\ SetOf(all) = SetOf(AskingApps) \cap set
    <3> HIDE DEF set
    <3> QED  BY ListingsAre, ThoseInIs
  <2> HIDE DEF all
  <2>4. ASSUME NEW i \in DOMAIN all
        PROVE  one(i) \in Granters(r, v) /\ one(i).sets = {<<"may", all[i]>>}
    <3>1. all[i] \in SetOf(AskingApps)  BY <2>3
    <3>2. <<"may", all[i]>> \in NamedBy(r)  BY <2>1, <3>1
    <3>3. one(i) = [sets |-> {<<"may", all[i]>>}, to |-> IF v = "on" THEN "yes" ELSE "no"]
      BY DEF Call, set_app
    <3> QED  BY <2>1, <3>2, <3>3 DEF Granters
  <2> HIDE DEF one
  <2>5. q \in Seq(Granters(r, v)) /\ DOMAIN q = DOMAIN all
    <3>1. DOMAIN all = 1 .. Len(all) /\ Len(all) \in Nat  BY <2>3
    <3>2. \A i \in DOMAIN all : one(i) \in Granters(r, v)  BY <2>4
    <3> QED  BY <3>1, <3>2
  <2>6. \A i \in DOMAIN q : q[i] = one(i)  BY <2>5
  <2> HIDE DEF q
  <2>7. ASSUME NEW t \in Aims(r) PROVE t \in Reached(q, m, r)
    <3>1. t \in Things /\ t = <<"may", t[2]>> /\ t[2] \in SetOf(AskingApps)  BY <2>1 DEF Aims
    <3>2. CASE m[t] = "gone"  BY <1>1, <3>1, <3>2 DEF Reached
    <3>3. CASE m[t] # "gone"
      <4>1. t[2] \in set  BY <3>1, <3>3 DEF Lacks
      <4>2. PICK i \in DOMAIN all : all[i] = t[2]  BY <2>3, <3>1, <4>1 DEF SetOf
      <4>3. i \in DOMAIN q /\ t \in q[i].sets  BY <2>4, <2>5, <2>6, <3>1, <4>2
      <4> QED  BY <3>1, <4>3 DEF Reached
    <3> QED  BY <3>2, <3>3
  <2>8. r[1] \notin OneIsEnough  BY <1>1 DEF OneIsEnough
  <2>9. Attempted(Do(q), m, r, v)  BY <2>5, <2>7, <2>8 DEF Attempted, Do, Met
  <2> QED  BY <2>2, <2>9, BadIsAttempted
<1>2. CASE r = <<"privacy.firewall">>
  <2>1. NamedBy(r) = {<<"firewalld">>, <<"ufw">>} /\ GrantValue(r, v) = v /\ r[1] \in OneIsEnough
    BY <1>2 DEF NamedBy, GrantValue, OneIsEnough
  <2>2. <<"firewalld">> \in Aims(r) /\ <<"ufw">> \in Aims(r)
    BY <2>1, ThingsOn DEF Aims, ThingsOf
  <2>3. PrivacyRow(m, r, v).write = set_enabled(m, v)  BY <1>2 DEF PrivacyRow, SwitchRow
  <2>4. set_enabled(m, v) \in {Bad, Do(<<Call(<<"firewalld">>, v)>>), Do(<<Call(<<"ufw">>, v)>>)}
    BY DEF set_enabled
  <2> QED  BY <2>1, <2>2, <2>3, <2>4, BadIsAttempted, OneCallIsAttempted
<1> QED  BY <1>1, <1>2 DEF Rows

LEMMA AccountRows ==
    ASSUME NEW r \in Rows.accounts, NEW m, NEW v
    PROVE  Attempted(AccountRow(m, r, v).write, m, r, v)
<1>1. CASE r = <<"accounts.automatic_login">>
  <2> DEFINE t == <<"auto", Me>>
  <2>1. NamedBy(r) = {t} /\ GrantValue(r, v) = v  BY <1>1 DEF NamedBy, GrantValue
  <2>2. AccountRow(m, r, v).write = IF Me \in KnownUsers(m) THEN Do(<<Call(t, v)>>) ELSE Bad
    BY <1>1 DEF AccountRow, SwitchRow, set_automatic_login
  <2>3. Me \in KnownUsers(m) => t \in Things  BY ThingsOn DEF KnownUsers, ThingsOf
  <2> HIDE DEF t
  <2>4. CASE Me \in KnownUsers(m)
    <3>1. t \in Aims(r) /\ Aims(r) = {t}  BY <2>1, <2>3, <2>4 DEF Aims
    <3> QED  BY <2>1, <2>2, <2>4, <3>1, OneCallIsAttempted
  <2>5. CASE Me \notin KnownUsers(m)  BY <2>2, <2>5, BadIsAttempted
  <2> QED  BY <2>4, <2>5
<1>2. CASE r \in {"accounts.locked"} \X SetOf(Users)
  <2>1. r[1] = "accounts.locked" /\ r = <<"accounts.locked", r[2]>>  BY <1>2
  <2>2. Plain(r)  BY <2>1, PlainRows
  <2>3. r \in ThingsOf.accounts  BY <1>2 DEF ThingsOf
  <2>4. AccountRow(m, r, v).write \in {Bad, Do(<<Call(r, v)>>)}
    BY <2>1 DEF AccountRow, SwitchRow, set_locked
  <2> QED  BY <2>2, <2>3, <2>4, ThingsOn, PlainIsAttempted, BadIsAttempted
<1> QED  BY <1>1, <1>2 DEF Rows

LEMMA AppRows ==
    ASSUME NEW r \in Rows.apps, NEW m, NEW v
    PROVE  Attempted(AppRow(m, r, v).write, m, r, v)
<1> DEFINE c == [sets |-> ThingsOf.apps, to |-> v]
<1>1. r = <<"apps.default">>  BY DEF Rows
<1>2. NamedBy(r) = ThingsOf.apps /\ GrantValue(r, v) = v  BY <1>1 DEF NamedBy, GrantValue
<1>3. AppRow(m, r, v).write = Do(<<c>>)  BY DEF AppRow, ChoiceRow, set_role, ThingsOf
<1>4. c \in Granters(r, v) /\ c.sets = NamedBy(r)  BY <1>2 DEF Granters
<1> HIDE DEF c
<1>5. <<c>> \in Seq(Granters(r, v)) /\ 1 \in DOMAIN <<c>> /\ <<c>>[1] = c  BY <1>4
<1>6. Aims(r) \subseteq Reached(<<c>>, m, r)  BY <1>4, <1>5 DEF Reached, Aims
<1>7. Met(r, Reached(<<c>>, m, r))  BY <1>1, <1>6 DEF Met, OneIsEnough
<1> QED  BY <1>3, <1>5, <1>7 DEF Attempted, Do

LEMMA StorageRows ==
    ASSUME NEW r \in Rows.storage, NEW m, NEW v, WantRight(r, v)
    PROVE  Attempted(StorageRow(m, r, v).write, m, r, v)
<1>1. r = <<"storage.mounted">>  BY DEF Rows
<1>2. Plain(r)  BY <1>1, PlainRows
<1>3. r \in Things  BY <1>1, ThingsOn DEF ThingsOf
<1>4. v \in {"on", "off"}  BY <1>1 DEF WantRight, ChoiceRows
<1>5. StorageRow(m, r, v).write = Do(<<Call(r, v)>>)
  BY <1>1, <1>4 DEF StorageRow, SwitchRow, mount, unmount
<1> QED  BY <1>2, <1>3, <1>5, PlainIsAttempted

Pages == {"display", "sound", "network", "bluetooth", "power", "connectivity",
          "input", "time", "privacy", "accounts", "apps", "storage"}

LEMMA PagesAre == DOMAIN Rows = Pages
BY DEF Rows, Pages


\* A row's write only asks for what the row names.
LEMMA WritesAreAttempted ==
    ASSUME page \in Pages, NEW r \in Rows[page], NEW m, NEW v, WantRight(r, v)
    PROVE  Attempted(Row(m, r, v).write, m, r, v)
<1>1. CASE page = "display"  BY <1>1, DisplayRows DEF Row
<1>2. CASE page = "sound"  BY <1>2, SoundRows DEF Row
<1>3. CASE page = "network"  BY <1>3, NetworkRows DEF Row
<1>4. CASE page = "bluetooth"  BY <1>4, BluetoothRows DEF Row
<1>5. CASE page = "power"  BY <1>5, PowerRows DEF Row
<1>6. CASE page = "connectivity"  BY <1>6, ConnectivityRows DEF Row
<1>7. CASE page = "input"  BY <1>7, InputRows DEF Row
<1>8. CASE page = "time"  BY <1>8, TimeRows DEF Row
<1>9. CASE page = "privacy"  BY <1>9, PrivacyRows DEF Row
<1>10. CASE page = "accounts"  BY <1>10, AccountRows DEF Row
<1>11. CASE page = "apps"  BY <1>11, AppRows DEF Row
<1>12. CASE page = "storage"  BY <1>12, StorageRows DEF Row
<1> QED  BY <1>1, <1>2, <1>3, <1>4, <1>5, <1>6, <1>7, <1>8, <1>9, <1>10, <1>11, <1>12 DEF Pages

\* The first words of the rows.
LEMMA TagsOfRows ==
    ASSUME page \in Pages, NEW r \in Rows[page]
    PROVE  r[1] \in ChoiceRows \cup
                    {"display.output", "sound.muted", "network.wifi", "network.enabled",
                     "network.airplane", "network.scan", "bluetooth.power", "bluetooth.discovery",
                     "power.hibernate", "recovery.firmware_setup", "network.vpn", "natural_scroll",
                     "time.ntp", "privacy.camera", "privacy.firewall", "accounts.automatic_login",
                     "accounts.locked", "storage.mounted"}
BY DEF Pages, Rows, ChoiceRows

\* An option is written where there are options; a switch is no power action.
LEMMA KindsOfRows ==
    ASSUME page \in Pages, NEW r \in Rows[page], NEW m, NEW v
    PROVE  /\ Row(m, r, v).kind = "choice" => r[1] \in ChoiceRows
           /\ Row(m, r, v).kind = "switch" => r[1] # "power.hibernate"
<1>1. CASE page = "display"
  <2>1. Row(m, r, v) = DisplayRow(m, r, v)  BY <1>1 DEF Row
  <2>2. r[1] \in {"display.resolution", "display.brightness", "display.output"}  BY <1>1 DEF Rows
  <2>3. r[1] = "display.output" => DisplayRow(m, r, v).kind = "switch"  BY DEF DisplayRow, SwitchRow
  <2> QED  BY <2>1, <2>2, <2>3 DEF ChoiceRows
<1>2. CASE page = "sound"
  <2>1. Row(m, r, v) = SoundRow(m, r, v)  BY <1>2 DEF Row
  <2>2. r[1] \in {"sound.muted", "sound.output"}  BY <1>2 DEF Rows
  <2>3. r[1] = "sound.muted" => SoundRow(m, r, v).kind = "switch"  BY DEF SoundRow, SwitchRow
  <2> QED  BY <2>1, <2>2, <2>3 DEF ChoiceRows
<1>3. CASE page = "network"
  <2>1. Row(m, r, v) = NetworkRow(m, r, v)  BY <1>3 DEF Row
  <2>2. r[1] \in {"network.wifi", "network.enabled", "network.airplane", "network.scan"}
    BY <1>3 DEF Rows
  <2>3. NetworkRow(m, r, v).kind # "choice"  BY <2>2 DEF NetworkRow, SwitchRow, ActionRow
  <2> QED  BY <2>1, <2>2, <2>3
<1>4. CASE page = "bluetooth"
  <2>1. Row(m, r, v) = BluetoothRow(m, r, v)  BY <1>4 DEF Row
  <2>2. r[1] \in {"bluetooth.power", "bluetooth.discovery"}  BY <1>4 DEF Rows
  <2>3. BluetoothRow(m, r, v).kind # "choice"  BY <2>2 DEF BluetoothRow, SwitchRow
  <2> QED  BY <2>1, <2>2, <2>3
<1>5. CASE page = "power"
  <2>1. Row(m, r, v) = PowerRow(m, r, v)  BY <1>5 DEF Row
  <2>2. r[1] \in {"power.hibernate", "recovery.firmware_setup"}  BY <1>5 DEF Rows
  <2>3. /\ r[1] = "power.hibernate" => PowerRow(m, r, v).kind = "action"
        /\ r[1] = "recovery.firmware_setup" => PowerRow(m, r, v).kind = "switch"
    BY DEF PowerRow, SwitchRow, ActionRow
  <2> QED  BY <2>1, <2>2, <2>3
<1>6. CASE page = "connectivity"
  <2>1. Row(m, r, v) = ConnectivityRow(m, r, v)  BY <1>6 DEF Row
  <2>2. r[1] \in {"network.vpn", "sound.app", "power.profile"}  BY <1>6 DEF Rows
  <2>3. r[1] = "network.vpn" => ConnectivityRow(m, r, v).kind = "switch"  BY DEF ConnectivityRow, SwitchRow
  <2> QED  BY <2>1, <2>2, <2>3 DEF ChoiceRows
<1>7. CASE page = "input"
  <2>1. Row(m, r, v) = InputRow(m, r, v)  BY <1>7 DEF Row
  <2>2. r[1] \in {"natural_scroll", "keyboard.layout"}  BY <1>7 DEF Rows
  <2>3. r[1] = "natural_scroll" => InputRow(m, r, v).kind = "switch"  BY DEF InputRow, SwitchRow
  <2> QED  BY <2>1, <2>2, <2>3 DEF ChoiceRows
<1>8. CASE page = "time"
  <2>1. Row(m, r, v).kind = "switch"  BY <1>8 DEF Row, TimeRow, SwitchRow
  <2>2. r[1] = "time.ntp"  BY <1>8 DEF Rows
  <2> QED  BY <2>1, <2>2
<1>9. CASE page = "privacy"
  <2>1. Row(m, r, v) = PrivacyRow(m, r, v)  BY <1>9 DEF Row
  <2>2. r[1] \in {"privacy.camera", "privacy.firewall"}  BY <1>9 DEF Rows
  <2>3. PrivacyRow(m, r, v).kind = "switch"  BY <2>2 DEF PrivacyRow, SwitchRow
  <2> QED  BY <2>1, <2>2, <2>3
<1>10. CASE page = "accounts"
  <2>1. Row(m, r, v) = AccountRow(m, r, v)  BY <1>10 DEF Row
  <2>2. r[1] \in {"accounts.automatic_login", "accounts.locked"}  BY <1>10 DEF Rows
  <2>3. AccountRow(m, r, v).kind = "switch"  BY <2>2 DEF AccountRow, SwitchRow
  <2> QED  BY <2>1, <2>2, <2>3
<1>11. CASE page = "apps"
  <2>1. r[1] = "apps.default"  BY <1>11 DEF Rows
  <2> QED  BY <2>1 DEF ChoiceRows
<1>12. CASE page = "storage"
  <2>1. Row(m, r, v).kind = "switch"  BY <1>12 DEF Row, StorageRow, SwitchRow
  <2>2. r[1] = "storage.mounted"  BY <1>12 DEF Rows
  <2> QED  BY <2>1, <2>2
<1> QED
  BY <1>1, <1>2, <1>3, <1>4, <1>5, <1>6, <1>7, <1>8, <1>9, <1>10, <1>11, <1>12 DEF Pages

\* A power action can be written when the machine can do it.
LEMMA HibernateReading ==
    ASSUME page \in Pages, NEW r \in Rows[page], NEW m, NEW v, r[1] = "power.hibernate",
           Row(m, r, v).state.writable
    PROVE  r = <<"power.hibernate">> /\ m[r] = "on"
<1>1. page = "power" /\ r = <<"power.hibernate">>  BY DEF Pages, Rows
<1>2. Row(m, r, v).state = ShownIf(capabilities(m), "none", capabilities(m))
  BY <1>1 DEF Row, PowerRow, ActionRow
<1> QED  BY <1>1, <1>2 DEF ShownIf, Shown, Missing, capabilities

\* Who is behind the job queue.
LEMMA FirewallRow ==
    ASSUME page \in Pages, NEW r \in Rows[page], NEW v, WantRight(r, v), <<"firewalld">> \in NamedBy(r)
    PROVE  GrantValue(r, v) \in {"on", "off"}
<1>1. r[1] = "privacy.firewall"  BY TagsOfRows DEF NamedBy, ThingsOf, ChoiceRows
<1> QED  BY <1>1 DEF WantRight, ChoiceRows, GrantValue

-----------------------------------------------------------------------------
(* What has been granted, or will be when systemd has done its jobs, or was  *)
(* changed by somebody else since.                                           *)
Units == {<<"firewalld">>}
Coming(m, js, t, r, v) ==
    IF \E j \in js : j[1] = t THEN \A j \in js : j[1] = t => j[2] = GrantValue(r, v)
    ELSE GrantedBy(m, t, r, v)
Sure(m, js, th, r, v) == {t \in Aims(r) : t \in th \/ Coming(m, js, t, r, v)}
Pending(q) == UNION {q[i].sets : i \in DOMAIN q}

LEMMA MetMonotone ==
    ASSUME NEW r, NEW S, NEW T, S \cap Aims(r) \subseteq T, Met(r, S)
    PROVE  Met(r, T)
BY DEF Met

LEMMA WithIs ==
    ASSUME NEW m, NEW ts, NEW v, NEW t \in Things
    PROVE  With(m, ts, v)[t] = IF t \in ts THEN v ELSE m[t]
BY DEF With

\* A job that is done leaves what it was queued for.
LEMMA JobKeeps ==
    ASSUME NEW m, NEW js, NEW th, NEW r, NEW v, NEW j \in js
    PROVE  Sure(m, js, th, r, v) \subseteq Sure(With(m, {j[1]}, j[2]), js \ {j}, th, r, v)
<1> SUFFICES ASSUME NEW t \in Sure(m, js, th, r, v)
             PROVE  t \in Sure(With(m, {j[1]}, j[2]), js \ {j}, th, r, v)
  OBVIOUS
<1> DEFINE n == With(m, {j[1]}, j[2])
<1>1. t \in Aims(r) /\ t \in Things /\ (t \in th \/ Coming(m, js, t, r, v))  BY DEF Sure, Aims
<1>2. n[t] = IF t = j[1] THEN j[2] ELSE m[t]  BY <1>1, WithIs
<1> HIDE DEF n
<1>3. CASE t \in th  BY <1>1, <1>3 DEF Sure, n
<1>4. CASE Coming(m, js, t, r, v) /\ t = j[1]
  <2>1. \A i \in js : i[1] = t => i[2] = GrantValue(r, v)  BY <1>4 DEF Coming
  <2>2. n[t] = GrantValue(r, v)  BY <1>2, <1>4, <2>1
  <2>3. Coming(n, js \ {j}, t, r, v)  BY <2>1, <2>2 DEF Coming, GrantedBy
  <2> QED  BY <1>1, <2>3 DEF Sure, n
<1>5. CASE Coming(m, js, t, r, v) /\ t # j[1]
  <2>1. n[t] = m[t]  BY <1>2, <1>5
  <2>2. Coming(n, js \ {j}, t, r, v)  BY <1>5, <2>1 DEF Coming, GrantedBy
  <2> QED  BY <1>1, <2>2 DEF Sure, n
<1> QED  BY <1>1, <1>3, <1>4, <1>5

\* A call that is made grants what it names, or has it queued.
LEMMA CallGrants ==
    ASSUME NEW m, NEW js, \A j \in js : j[1] \in Units, NEW th, NEW r, NEW v,
           NEW c \in Granters(r, v), NEW now, NEW later,
           now = {t \in c.sets : ~Queued(t)}, later = c.sets \ now
    PROVE  /\ Sure(m, js, th, r, v)
                \subseteq Sure(With(m, now, c.to), {j \in js : j[1] \notin later} \cup (later \X {c.to}), th, r, v)
           /\ c.sets \cap Aims(r)
                \subseteq Sure(With(m, now, c.to), {j \in js : j[1] \notin later} \cup (later \X {c.to}), th, r, v)
<1> DEFINE n == With(m, now, c.to)
           ks == {j \in js : j[1] \notin later} \cup (later \X {c.to})
<1>1. c.sets # {} => c.to = GrantValue(r, v)  BY DEF Granters
<1>2. ASSUME NEW t \in c.sets \cap Aims(r) PROVE Coming(n, ks, t, r, v)
  <2>1. c.to = GrantValue(r, v) /\ t \in Things  BY <1>1, <1>2 DEF Aims
  <2>2. CASE Queued(t)
    <3>1. t \in later /\ t \notin now  BY <1>2, <2>2
    <3>2. <<t, c.to>> \in ks  BY <3>1
    <3>3. \A j \in ks : j[1] = t => j[2] = c.to  BY <3>1
    <3> HIDE DEF ks, n
    <3>4. \E j \in ks : j[1] = t  BY <3>2
    <3> QED  BY <2>1, <3>3, <3>4 DEF Coming
  <2>3. CASE ~Queued(t)
    <3>1. t \in now /\ t \notin later  BY <1>2, <2>3
    <3>2. n[t] = c.to  BY <2>1, <3>1, WithIs
    <3>3. \A j \in ks : j[1] # t  BY <2>3, <3>1 DEF Units, Queued
    <3> HIDE DEF ks, n
    <3> QED  BY <2>1, <3>2, <3>3 DEF Coming, GrantedBy
  <2> QED  BY <2>2, <2>3
<1>3. ASSUME NEW t \in Aims(r), t \notin c.sets, Coming(m, js, t, r, v)
      PROVE  Coming(n, ks, t, r, v)
  <2>1. t \notin now /\ t \notin later /\ t \in Things  BY <1>3 DEF Aims
  <2>2. n[t] = m[t]  BY <2>1, WithIs
  <2>3. \A j : j[1] = t => (j \in ks <=> j \in js)  BY <2>1
  <2> HIDE DEF ks, n
  <2>4. GrantedBy(n, t, r, v) <=> GrantedBy(m, t, r, v)  BY <2>2 DEF GrantedBy
  <2> QED  BY <1>3, <2>3, <2>4 DEF Coming
<1> HIDE DEF ks, n
<1>4. Sure(m, js, th, r, v) \subseteq Sure(n, ks, th, r, v)  BY <1>2, <1>3 DEF Sure
<1>5. c.sets \cap Aims(r) \subseteq Sure(n, ks, th, r, v)  BY <1>2 DEF Sure
<1> QED  BY <1>4, <1>5 DEF n, ks

\* Somebody else's change is noted.
LEMMA OtherKeeps ==
    ASSUME NEW m, NEW js, NEW th, NEW r, NEW v, NEW t, NEW w
    PROVE  Sure(m, js, th, r, v) \subseteq Sure(With(m, {t}, w), js, th \cup {t}, r, v)
<1> DEFINE n == With(m, {t}, w)
<1> SUFFICES ASSUME NEW u \in Sure(m, js, th, r, v) PROVE u \in Sure(n, js, th \cup {t}, r, v)
  OBVIOUS
<1>1. u \in Aims(r) /\ u \in Things /\ (u \in th \/ Coming(m, js, u, r, v))  BY DEF Sure, Aims
<1>2. u # t => n[u] = m[u]  BY <1>1, WithIs
<1> HIDE DEF n
<1>3. u \in th \cup {t} \/ Coming(n, js, u, r, v)  BY <1>1, <1>2 DEF Coming, GrantedBy
<1> QED  BY <1>1, <1>3 DEF Sure

-----------------------------------------------------------------------------
(* The invariant: the click in progress, and what its answer will rest on.   *)

Deciding(r, v) == [step : {"write"}, row : {r}, want : {v}]
Calling(r, v) ==
    [step : {"turn", "call"}, row : {r}, want : {v}, todo : Seq(Granters(r, v)),
     rule : {"all", "some", "layout"}, taken : Nat, turns : Nat, failed : BOOLEAN]
\* One of the calls that are still to make is enough where one is enough.
TurnsOrCalls ==
    /\ click.step = "turn" => click.rule = "layout" /\ ~click.failed
    /\ click.rule = "layout" => click.row = <<"keyboard.layout">> /\ click.todo = <<>>
    /\ click.rule = "some" =>
          /\ click.row[1] \in OneIsEnough
          /\ \A i \in DOMAIN click.todo : click.todo[i].sets \cap Aims(click.row) # {}
          /\ click.taken > 0 =>
                Sure(machine, jobs, touched, click.row, click.want) \cap Aims(click.row) # {}
    /\ /\ click.step = "call" /\ click.rule # "some" /\ ~click.failed
       /\ click.row[1] # "power.hibernate"
       => Met(click.row, Sure(machine, jobs, touched, click.row, click.want) \cup Pending(click.todo))
ClickInv ==
    \/ click = NoClick
    \/ \E r \in Rows[page], v \in Wants :
          /\ WantRight(r, v)
          /\ \/ click \in Deciding(r, v)
             \/ click \in Calling(r, v) /\ TurnsOrCalls
AnswerInv ==
    /\ click # NoClick => ~answer.wrote
    /\ answer.wrote /\ ~answer.told =>
          Met(answer.row, Sure(machine, jobs, touched, answer.row, answer.want))
SettingsInv ==
    /\ page \in Pages /\ others \in Nat /\ jobs \subseteq Units \X {"on", "off"}
    /\ ClickInv /\ AnswerInv

LEMMA SettingsInitially == SettingsInit => SettingsInv
BY PagesAre DEF SettingsInit, SettingsInv, ClickInv, AnswerInv, NoAnswer, NoClick

\* The invariant says what AnswerIsHonest asks.
LEMMA HonestFromInv == SettingsInv => AnswerIsHonest
<1> SUFFICES ASSUME SettingsInv, answer.wrote, ~answer.told
             PROVE  LET named == NamedBy(answer.row) \cap Things
                    IN \/ named = {} \/ named \cap touched # {} \/ \E j \in jobs : j[1] \in named
                       \/ IF answer.row[1] \in OneIsEnough
                          THEN \E t \in named : Granted(t, answer.row, answer.want)
                          ELSE \A t \in named : Granted(t, answer.row, answer.want)
  BY DEF AnswerIsHonest
<1> DEFINE r == answer.row
           v == answer.want
           S == Sure(machine, jobs, touched, r, v)
<1>1. Met(r, S)  BY DEF SettingsInv, AnswerInv
<1>2. ASSUME NEW t \in S, Aims(r) \cap touched = {}, \A j \in jobs : j[1] \notin Aims(r)
      PROVE  Granted(t, r, v)
  <2>1. t \in Aims(r) /\ Coming(machine, jobs, t, r, v)  BY <1>2 DEF Sure
  <2>2. GrantedBy(machine, t, r, v)  BY <1>2, <2>1 DEF Coming
  <2> QED  BY <2>2 DEF GrantedBy, GrantValue, Granted
<1>3. S \subseteq Aims(r)  BY DEF Sure
<1> HIDE DEF S, r, v
<1>4. \/ Aims(r) = {} \/ Aims(r) \cap touched # {} \/ \E j \in jobs : j[1] \in Aims(r)
      \/ IF r[1] \in OneIsEnough THEN \E t \in Aims(r) : Granted(t, r, v)
         ELSE \A t \in Aims(r) : Granted(t, r, v)
  BY <1>1, <1>2, <1>3 DEF Met
<1> QED  BY <1>4 DEF Aims, r, v

-----------------------------------------------------------------------------
(* Every step keeps the invariant.                                           *)

LEMMA OppositeIsASwitch == ASSUME NEW v PROVE Opposite(v) \in {"on", "off"}
BY DEF Opposite, OnIf

LEMMA BeginKeeps ==
    ASSUME SettingsInv, NEW r \in Rows[page], NEW v, WantRight(r, v), BeginClick(r, v)
    PROVE  SettingsInv'
<1>1. /\ page' = page /\ jobs' = jobs /\ others' = others /\ answer' = NoAnswer
      /\ click' = [step |-> "write", row |-> r, want |-> v]
  BY DEF BeginClick
<1>2. click' \in Deciding(r, v) /\ v \in Wants  BY <1>1 DEF Deciding, WantRight
<1>3. ClickInv'  BY <1>1, <1>2 DEF ClickInv
<1>4. AnswerInv'  BY <1>1 DEF AnswerInv, NoAnswer
<1> QED  BY <1>1, <1>3, <1>4 DEF SettingsInv

LEMMA ToggleKeeps == SettingsInv /\ Toggle => SettingsInv'
<1> SUFFICES ASSUME SettingsInv, Toggle PROVE SettingsInv'  OBVIOUS
<1>1. PICK r \in Rows[page] : /\ Row(machine, r, "on").kind = "switch"
                              /\ BeginClick(r, Opposite(Row(machine, r, "on").state.value))
  BY DEF Toggle
<1> DEFINE v == Opposite(Row(machine, r, "on").state.value)
<1>2. v \in {"on", "off"}  BY OppositeIsASwitch
<1>3. r[1] # "power.hibernate"  BY <1>1, KindsOfRows DEF SettingsInv
<1> HIDE DEF v
<1>4. WantRight(r, v)  BY <1>2, <1>3 DEF WantRight, Wants
<1>5. BeginClick(r, v)  BY <1>1 DEF v
<1> QED  BY <1>4, <1>5, BeginKeeps

LEMMA InvokeKeeps == SettingsInv /\ Invoke => SettingsInv'
<1> SUFFICES ASSUME SettingsInv, Invoke PROVE SettingsInv'  OBVIOUS
<1>1. PICK r \in Rows[page] : BeginClick(r, "on")  BY DEF Invoke
<1>2. WantRight(r, "on")  BY DEF WantRight, Wants
<1> QED  BY <1>1, <1>2, BeginKeeps

LEMMA PickKeeps == SettingsInv /\ Pick => SettingsInv'
<1> SUFFICES ASSUME SettingsInv, Pick PROVE SettingsInv'  OBVIOUS
<1>1. PICK r \in Rows[page] : /\ Row(machine, r, "low").kind = "choice"
                              /\ \E v \in Options(r) : BeginClick(r, v)
  BY DEF Pick
<1>2. PICK v \in Options(r) : BeginClick(r, v)  BY <1>1
<1>3. r[1] \in ChoiceRows  BY <1>1, KindsOfRows DEF SettingsInv
<1>4. v \in Wants  BY <1>2 DEF Options, Wants
<1>5. r[1] # "power.hibernate"  BY <1>3 DEF ChoiceRows
<1>6. WantRight(r, v)  BY <1>3, <1>4, <1>5 DEF WantRight
<1> QED  BY <1>2, <1>6, BeginKeeps

LEMMA ReadOnlyKeeps == SettingsInv /\ ReadOnly => SettingsInv'
<1> SUFFICES ASSUME SettingsInv, ReadOnly PROVE SettingsInv'  OBVIOUS
<1>1. /\ click.step = "idle"
      /\ \E r : answer' = [NoAnswer EXCEPT !.row = r, !.told = TRUE]
      /\ UNCHANGED <<machine, page, click, jobs, touched, others>>
  BY DEF ReadOnly
<1>2. ~answer'.wrote  BY <1>1 DEF NoAnswer
<1>3. ClickInv' <=> ClickInv  BY <1>1 DEF ClickInv, TurnsOrCalls
<1>4. AnswerInv'  BY <1>2 DEF AnswerInv
<1> QED  BY <1>1, <1>3, <1>4 DEF SettingsInv

LEMMA WriteKeeps == SettingsInv /\ Write => SettingsInv'
<1> SUFFICES ASSUME SettingsInv, Write PROVE SettingsInv'  OBVIOUS
<1>1. click.step = "write" /\ click # NoClick  BY DEF Write, NoClick
<1>2. PICK r \in Rows[page], v \in Wants : WantRight(r, v) /\ click \in Deciding(r, v)
  BY <1>1 DEF SettingsInv, ClickInv, Calling
<1>3. click.row = r /\ click.want = v  BY <1>2 DEF Deciding
<1> DEFINE w == Row(machine, r, v).write
<1>4. Attempted(w, machine, r, v)  BY <1>2, WritesAreAttempted DEF SettingsInv
<1>5. /\ UNCHANGED <<machine, page, answer, jobs, touched, clicks, others>>
      /\ click' = IF w.result = "raises" THEN NoClick
                  ELSE [step |-> IF w.rule = "layout" THEN "turn" ELSE "call",
                        row |-> r, want |-> v, todo |-> w.calls,
                        rule |-> w.rule, taken |-> 0, turns |-> 0,
                        failed |-> w.result = "bad"]
  BY <1>3 DEF Write
<1> HIDE DEF w
<1>6. AnswerInv'
  BY <1>1, <1>5 DEF SettingsInv, AnswerInv
<1>7. CASE w.result = "raises"
  BY <1>5, <1>6, <1>7 DEF SettingsInv, ClickInv
<1>8. CASE w.result # "raises"
  <2>1. click' \in Calling(r, v)  BY <1>4, <1>5, <1>8 DEF Calling, Attempted
  <2>2. TurnsOrCalls'
    <3>1. /\ click'.row = r /\ click'.want = v /\ click'.todo = w.calls /\ click'.rule = w.rule
          /\ click'.taken = 0 /\ click'.failed = (w.result = "bad")
          /\ click'.step = (IF w.rule = "layout" THEN "turn" ELSE "call")
      BY <1>5, <1>8
    <3>2. click'.step = "turn" => click'.rule = "layout" /\ ~click'.failed
      BY <1>4, <3>1 DEF Attempted
    <3>3. click'.rule = "layout" => click'.row = <<"keyboard.layout">> /\ click'.todo = <<>>
      BY <1>4, <3>1 DEF Attempted
    <3>4. click'.rule = "some" =>
             /\ click'.row[1] \in OneIsEnough
             /\ \A i \in DOMAIN click'.todo : click'.todo[i].sets \cap Aims(click'.row) # {}
             /\ ~(click'.taken > 0)
      BY <1>4, <3>1 DEF Attempted
    <3>5. ASSUME click'.step = "call", click'.rule # "some", ~click'.failed, r[1] # "power.hibernate"
          PROVE  Met(r, Sure(machine, jobs, touched, r, v) \cup Pending(w.calls))
      <4>1. w.rule = "all" /\ w.result = "ok"
        <5>1. w.rule = "all"  BY <1>4, <3>1, <3>5 DEF Attempted
        <5>2. w.result \in {"ok", "bad", "raises"}  BY <1>4 DEF Attempted
        <5> QED  BY <1>8, <3>1, <3>5, <5>1, <5>2
      <4>2. Met(r, Reached(w.calls, machine, r))  BY <1>4, <3>5, <4>1 DEF Attempted
      <4>3. Reached(w.calls, machine, r) \cap Aims(r)
              \subseteq Sure(machine, jobs, touched, r, v) \cup Pending(w.calls)
        <5>1. ASSUME NEW t \in Aims(r), r[1] = "privacy.camera", machine[t] = "gone"
              PROVE  t \in Sure(machine, jobs, touched, r, v)
          <6>1. t[1] = "may"  BY <5>1 DEF Aims, NamedBy
          <6>2. \A j \in jobs : j[1] # t  BY <6>1 DEF SettingsInv, Units
          <6>3. Coming(machine, jobs, t, r, v)  BY <5>1, <6>2 DEF Coming, GrantedBy
          <6> QED  BY <6>3 DEF Sure
        <5>2. ASSUME NEW t, \E i \in DOMAIN w.calls : t \in w.calls[i].sets
              PROVE  t \in Pending(w.calls)
          BY <5>2 DEF Pending
        <5> QED  BY <5>1, <5>2 DEF Reached
      <4> QED  BY <4>2, <4>3, MetMonotone
    <3> QED  BY <1>5, <3>1, <3>2, <3>3, <3>4, <3>5 DEF TurnsOrCalls
  <2>3. ClickInv'  BY <1>2, <1>5, <2>1, <2>2 DEF ClickInv
  <2> QED  BY <1>5, <1>6, <2>3 DEF SettingsInv
<1> QED  BY <1>7, <1>8

LEMMA AskKeeps == SettingsInv /\ AskService => SettingsInv'
<1> SUFFICES ASSUME SettingsInv, AskService PROVE SettingsInv'  OBVIOUS
<1>1. click.step = "call" /\ click # NoClick /\ click.todo # <<>>  BY DEF AskService, NoClick
<1>2. PICK r \in Rows[page], v \in Wants :
         WantRight(r, v) /\ click \in Calling(r, v) /\ TurnsOrCalls
  BY <1>1 DEF SettingsInv, ClickInv, Deciding
<1>3. /\ click.row = r /\ click.want = v /\ click.todo \in Seq(Granters(r, v))
      /\ click.taken \in Nat /\ click.failed \in BOOLEAN
  BY <1>2 DEF Calling
<1> DEFINE q == click.todo
           c == Head(q)
           now == {t \in c.sets : ~Queued(t)}
           later == c.sets \ now
           ks == {j \in jobs : j[1] \notin later} \cup (later \X {c.to})
           old == Sure(machine, jobs, touched, r, v)
           new == Sure(machine', jobs', touched, r, v)
<1>4. PICK outcome \in {"taken", "refused", "lost"} :
         /\ click' = [click EXCEPT !.todo = Tail(@), !.failed = @ \/ outcome # "taken",
                                   !.taken = IF outcome = "taken" THEN @ + 1 ELSE @]
         /\ IF outcome = "refused" THEN UNCHANGED <<machine, jobs>>
            ELSE machine' = With(machine, now, c.to) /\ jobs' = ks
         /\ UNCHANGED <<page, answer, touched, clicks, others>>
  BY DEF AskService
<1>5. /\ c \in Granters(r, v) /\ Tail(q) \in Seq(Granters(r, v))
      /\ 1 \in DOMAIN q /\ q[1] = c /\ Len(q) \in Nat /\ DOMAIN q = 1 .. Len(q)
      /\ Len(Tail(q)) = Len(q) - 1
      /\ \A i \in DOMAIN Tail(q) : i + 1 \in DOMAIN q /\ Tail(q)[i] = q[i + 1]
  BY <1>1, <1>3
<1>6. \A t \in DOMAIN q : t = 1 \/ (t - 1 \in DOMAIN Tail(q) /\ Tail(q)[t - 1] = q[t])
  <2>1. DOMAIN Tail(q) = 1 .. Len(Tail(q))  BY <1>5
  <2> HIDE DEF q
  <2>2. ASSUME NEW t \in DOMAIN q, t # 1 PROVE t - 1 \in DOMAIN Tail(q) /\ Tail(q)[t - 1] = q[t]
    <3>1. t - 1 \in DOMAIN Tail(q) /\ (t - 1) + 1 = t  BY <1>5, <2>1, <2>2
    <3> QED  BY <1>5, <3>1
  <2> QED  BY <2>2
<1>7. jobs' \subseteq Units \X {"on", "off"}
  <2>1. \A t \in later : t \in Units /\ t \in NamedBy(r)  BY <1>5 DEF Queued, Units, Granters
  <2>2. later # {} => c.to \in {"on", "off"}
    <3>1. later # {} => c.to = GrantValue(r, v)  BY <1>5 DEF Granters
    <3>2. later # {} => <<"firewalld">> \in NamedBy(r)  BY <2>1 DEF Units
    <3> QED  BY <1>2, <3>1, <3>2, FirewallRow DEF SettingsInv
  <2> HIDE DEF later, c
  <2>3. ks \subseteq Units \X {"on", "off"}  BY <2>1, <2>2 DEF SettingsInv
  <2> HIDE DEF ks
  <2> QED  BY <1>4, <2>3 DEF SettingsInv
<1>8. \A j \in jobs : j[1] \in Units  BY DEF SettingsInv
<1>9. old \subseteq new /\ (outcome # "refused" => c.sets \cap Aims(r) \subseteq new)
  <2>1. CASE outcome = "refused"  BY <1>4, <2>1
  <2>2. CASE outcome # "refused"
    <3>1. machine' = With(machine, now, c.to) /\ jobs' = ks  BY <1>4, <2>2
    <3> HIDE DEF c
    <3> QED  BY <1>5, <1>8, <3>1, CallGrants
  <2> QED  BY <2>1, <2>2
<1> HIDE DEF q, c, now, later, ks, old, new
<1>10. /\ click'.step = "call" /\ click'.row = r /\ click'.want = v /\ click'.todo = Tail(q)
       /\ click'.rule = click.rule /\ click'.failed = (click.failed \/ outcome # "taken")
       /\ click'.taken = IF outcome = "taken" THEN click.taken + 1 ELSE click.taken
       /\ click' \in Calling(r, v)
  <2>1. click' = [step |-> "call", row |-> r, want |-> v, todo |-> Tail(q), rule |-> click.rule,
                  taken |-> IF outcome = "taken" THEN click.taken + 1 ELSE click.taken,
                  turns |-> click.turns, failed |-> click.failed \/ outcome # "taken"]
    BY <1>1, <1>2, <1>4 DEF Calling, q
  <2>2. click.rule \in {"all", "some", "layout"} /\ click.turns \in Nat  BY <1>2 DEF Calling
  <2> QED  BY <1>3, <1>5, <2>1, <2>2 DEF Calling
<1>11. TurnsOrCalls'
  <2>1. click.rule # "layout"  BY <1>1, <1>2 DEF TurnsOrCalls
  <2>2. ASSUME click.rule = "some"
        PROVE  /\ r[1] \in OneIsEnough /\ \A i \in DOMAIN Tail(q) : Tail(q)[i].sets \cap Aims(r) # {}
               /\ click'.taken > 0 => new \cap Aims(r) # {}
    <3>1. /\ r[1] \in OneIsEnough /\ \A i \in DOMAIN q : q[i].sets \cap Aims(r) # {}
          /\ click.taken > 0 => old \cap Aims(r) # {}
      BY <1>2, <1>3, <2>2 DEF TurnsOrCalls, q, old
    <3>2. CASE outcome = "taken"
      <4>1. c.sets \cap Aims(r) # {} /\ c.sets \cap Aims(r) \subseteq new  BY <1>5, <1>9, <3>1, <3>2
      <4> QED  BY <1>5, <3>1, <4>1
    <3>3. CASE outcome # "taken"
      <4>1. click'.taken = click.taken  BY <1>10, <3>3
      <4> QED  BY <1>5, <1>9, <3>1, <4>1
    <3> QED  BY <3>2, <3>3
  <2>3. ASSUME click.rule # "some", ~click'.failed, r[1] # "power.hibernate"
        PROVE  Met(r, new \cup Pending(Tail(q)))
    <3>1. outcome = "taken" /\ ~click.failed  BY <1>3, <1>10, <2>3
    <3>2. Met(r, old \cup Pending(q))
      BY <1>1, <1>2, <1>3, <2>3, <3>1 DEF TurnsOrCalls, q, old
    <3>3. Pending(q) \subseteq c.sets \cup Pending(Tail(q))
      <4> SUFFICES ASSUME NEW t \in Pending(q) PROVE t \in c.sets \cup Pending(Tail(q))  OBVIOUS
      <4>1. PICK i \in DOMAIN q : t \in q[i].sets  BY DEF Pending
      <4>2. CASE i = 1  BY <1>5, <4>1, <4>2
      <4>3. CASE i # 1
        <5>1. i - 1 \in DOMAIN Tail(q) /\ Tail(q)[i - 1] = q[i]  BY <1>6, <4>3
        <5> QED  BY <4>1, <5>1 DEF Pending
      <4> QED  BY <4>2, <4>3
    <3>4. (old \cup Pending(q)) \cap Aims(r) \subseteq new \cup Pending(Tail(q))
      BY <1>9, <3>1, <3>3
    <3> QED  BY <3>2, <3>4, MetMonotone
  <2>4. touched' = touched  BY <1>4
  <2> QED  BY <1>10, <2>1, <2>2, <2>3, <2>4 DEF TurnsOrCalls, new
<1>12. ClickInv'  BY <1>2, <1>4, <1>10, <1>11 DEF ClickInv
<1>13. AnswerInv'  BY <1>1, <1>4 DEF SettingsInv, AnswerInv
<1> QED  BY <1>4, <1>7, <1>12, <1>13 DEF SettingsInv

\* What changes only the machine, so that what is sure stays sure.
LEMMA SurelyKept ==
    ASSUME SettingsInv, UNCHANGED <<page, click, answer>>,
           \A r, v : Sure(machine, jobs, touched, r, v) \subseteq Sure(machine', jobs', touched', r, v)
    PROVE  ClickInv' /\ (click # NoClick => AnswerInv') /\ (touched' = touched => AnswerInv')
<1>1. TurnsOrCalls => TurnsOrCalls'
  <2> SUFFICES ASSUME TurnsOrCalls PROVE TurnsOrCalls'  OBVIOUS
  <2> DEFINE r == click.row
             v == click.want
             old == Sure(machine, jobs, touched, r, v)
             new == Sure(machine', jobs', touched', r, v)
  <2>1. old \subseteq new /\ click' = click  OBVIOUS
  <2>2. old \cap Aims(r) # {} => new \cap Aims(r) # {}  BY <2>1
  <2>3. Met(r, old \cup Pending(click.todo)) => Met(r, new \cup Pending(click.todo))
    <3> HIDE DEF old, new, r
    <3>1. (old \cup Pending(click.todo)) \cap Aims(r) \subseteq new \cup Pending(click.todo)  BY <2>1
    <3> QED  BY <3>1, MetMonotone
  <2> QED  BY <2>1, <2>2, <2>3 DEF TurnsOrCalls
<1>2. ClickInv'  BY <1>1 DEF SettingsInv, ClickInv
<1>3. AnswerInv'
  <2> DEFINE r == answer.row
             v == answer.want
             old == Sure(machine, jobs, touched, r, v)
             new == Sure(machine', jobs', touched', r, v)
  <2>1. old \subseteq new  OBVIOUS
  <2>2. Met(r, old) => Met(r, new)
    <3> HIDE DEF old, new, r
    <3> QED  BY <2>1, MetMonotone
  <2> QED  BY <2>2 DEF SettingsInv, AnswerInv
<1> QED  BY <1>2, <1>3

LEMMA JobDoneKeeps == SettingsInv /\ JobDone => SettingsInv'
<1> SUFFICES ASSUME SettingsInv, JobDone PROVE SettingsInv'  OBVIOUS
<1>1. PICK j \in jobs : /\ machine' = With(machine, {j[1]}, j[2]) /\ jobs' = jobs \ {j}
                        /\ UNCHANGED <<page, click, answer, touched, clicks, others>>
  BY DEF JobDone
<1>2. \A r, v : Sure(machine, jobs, touched, r, v) \subseteq Sure(machine', jobs', touched', r, v)
  BY <1>1, JobKeeps
<1>3. ClickInv' /\ AnswerInv'  BY <1>1, <1>2, SurelyKept
<1> QED  BY <1>1, <1>3 DEF SettingsInv

LEMMA OtherKeepsInv == SettingsInv /\ Other => SettingsInv'
<1> SUFFICES ASSUME SettingsInv, Other PROVE SettingsInv'  OBVIOUS
<1>1. /\ \E t : \E w : machine' = With(machine, {t}, w) /\ touched' = touched \cup {t}
      /\ others' = others + 1 /\ UNCHANGED <<page, click, answer, jobs, clicks>>
  BY DEF Other
<1>2. \A r, v : Sure(machine, jobs, touched, r, v) \subseteq Sure(machine', jobs', touched', r, v)
  BY <1>1, OtherKeeps
<1>3. ClickInv' /\ (click # NoClick => AnswerInv')  BY <1>1, <1>2, SurelyKept
<1>4. click # NoClick  BY DEF Other, NoClick
<1> QED  BY <1>1, <1>3, <1>4 DEF SettingsInv

LEMMA TurnLayoutKeeps == SettingsInv /\ TurnLayout => SettingsInv'
<1> SUFFICES ASSUME SettingsInv, TurnLayout PROVE SettingsInv'  OBVIOUS
<1>1. click.step = "turn" /\ click # NoClick  BY DEF TurnLayout, NoClick
<1>2. PICK r \in Rows[page], v \in Wants :
         WantRight(r, v) /\ click \in Calling(r, v) /\ TurnsOrCalls
  BY <1>1 DEF SettingsInv, ClickInv, Deciding
<1>3. /\ click.rule = "layout" /\ click.row = <<"keyboard.layout">> /\ click.todo = <<>>
      /\ click.turns \in Nat
  BY <1>1, <1>2 DEF TurnsOrCalls, Calling
<1>4. /\ click' = [click EXCEPT !.turns = @ + 1]
         \/ click' = [click EXCEPT !.step = "call", !.failed = TRUE]
      /\ UNCHANGED <<page, answer, jobs, touched, clicks, others>>
  BY DEF TurnLayout
<1>5. click' \in Calling(r, v)
  <2>1. CASE click' = [click EXCEPT !.turns = @ + 1]  BY <1>2, <1>3, <2>1 DEF Calling
  <2>2. CASE click' = [click EXCEPT !.step = "call", !.failed = TRUE]
    BY <1>2, <1>3, <2>2 DEF Calling
  <2> QED  BY <1>4, <2>1, <2>2
<1>6. /\ click'.rule = "layout" /\ click'.row = click.row /\ click'.todo = <<>>
      /\ click'.step = "turn" => ~click'.failed
      /\ click'.step = "call" => click'.failed
  BY <1>1, <1>2, <1>3, <1>4 DEF TurnsOrCalls, Calling
<1>7. TurnsOrCalls'  BY <1>3, <1>6 DEF TurnsOrCalls
<1>8. ClickInv'  BY <1>2, <1>4, <1>5, <1>7 DEF ClickInv
<1>9. AnswerInv'  BY <1>1, <1>4 DEF SettingsInv, AnswerInv
<1> QED  BY <1>4, <1>8, <1>9 DEF SettingsInv

LEMMA StoreLayoutsKeeps == SettingsInv /\ StoreLayouts => SettingsInv'
<1> SUFFICES ASSUME SettingsInv, StoreLayouts PROVE SettingsInv'  OBVIOUS
<1>1. click.step = "turn" /\ click # NoClick  BY DEF StoreLayouts, NoClick
<1>2. PICK r \in Rows[page], v \in Wants :
         WantRight(r, v) /\ click \in Calling(r, v) /\ TurnsOrCalls
  BY <1>1 DEF SettingsInv, ClickInv, Deciding
<1>3. click.rule = "layout" /\ click.row = r /\ click.want = v /\ click.todo = <<>>
  BY <1>1, <1>2 DEF TurnsOrCalls, Calling
<1>4. r = <<"keyboard.layout">>  BY <1>2, <1>3 DEF TurnsOrCalls
<1>5. /\ \E w \in {"old", "new"} : machine' = With(machine, {<<"x11">>}, w)
      /\ click' = [click EXCEPT !.step = "call", !.failed = ~LayoutThere]
      /\ UNCHANGED <<page, answer, jobs, touched, clicks, others>>
  BY DEF StoreLayouts, set_x11_keyboard
<1>6. click' \in Calling(r, v)  BY <1>2, <1>5 DEF Calling
<1>7. /\ click'.rule = "layout" /\ click'.row = r /\ click'.want = v /\ click'.todo = <<>>
      /\ click'.step = "call" /\ click'.failed = ~LayoutThere
  BY <1>2, <1>3, <1>5 DEF Calling
<1>8. ASSUME LayoutThere PROVE Met(r, Sure(machine', jobs', touched', r, v))
  <2>1. Aims(r) = {r}
    <3>1. NamedBy(r) = {r}  BY <1>4, PlainRows DEF Plain, ChoiceRows
    <3>2. r \in Things  BY <1>4, ThingsOn DEF ThingsOf
    <3> QED  BY <3>1, <3>2 DEF Aims
  <2>2. machine'[r] = v
    <3>1. machine[r] = v  BY <1>3, <1>4, <1>8 DEF LayoutThere
    <3>2. r \in Things /\ r \notin {<<"x11">>}  BY <1>4, <2>1 DEF Aims
    <3> QED  BY <1>5, <3>1, <3>2, WithIs
  <2>3. \A j \in jobs : j[1] # r  BY <1>4 DEF SettingsInv, Units
  <2>4. GrantValue(r, v) = v  BY <1>4 DEF GrantValue
  <2>5. Coming(machine', jobs', r, r, v)  BY <1>5, <2>2, <2>3, <2>4 DEF Coming, GrantedBy
  <2>6. r \in Sure(machine', jobs', touched', r, v)  BY <2>1, <2>5 DEF Sure
  <2> QED  BY <2>1, <2>6 DEF Met
<1>9. ~click'.failed => Met(r, Sure(machine', jobs', touched', r, v) \cup Pending(click'.todo))
  <2>1. ASSUME LayoutThere
        PROVE  Met(r, Sure(machine', jobs', touched', r, v) \cup Pending(click'.todo))
    BY <1>8, <2>1, MetMonotone
  <2> QED  BY <1>7, <2>1
<1>10. TurnsOrCalls'  BY <1>4, <1>7, <1>9 DEF TurnsOrCalls
<1>11. ClickInv'  BY <1>2, <1>5, <1>6, <1>10 DEF ClickInv
<1>12. AnswerInv'  BY <1>1, <1>5 DEF SettingsInv, AnswerInv
<1> QED  BY <1>5, <1>11, <1>12 DEF SettingsInv

LEMMA ReadBackKeeps == SettingsInv /\ ReadBack => SettingsInv'
<1> SUFFICES ASSUME SettingsInv, ReadBack PROVE SettingsInv'  OBVIOUS
<1>1. click.step = "call" /\ click # NoClick /\ click.todo = <<>>  BY DEF ReadBack, NoClick
<1>2. PICK r \in Rows[page], v \in Wants :
         WantRight(r, v) /\ click \in Calling(r, v) /\ TurnsOrCalls
  BY <1>1 DEF SettingsInv, ClickInv, Deciding
<1>3. click.row = r /\ click.want = v  BY <1>2 DEF Calling
<1> DEFINE ok == IF click.rule = "some" THEN click.taken > 0 ELSE ~click.failed
           S == Sure(machine, jobs, touched, r, v)
<1>4. /\ answer' = [row |-> r, want |-> v, wrote |-> TRUE,
                    told |-> ~ok \/ ~Row(machine, r, v).state.writable]
      /\ click' = NoClick /\ UNCHANGED <<machine, page, jobs, touched, clicks, others>>
  BY <1>3 DEF ReadBack
<1>5. ASSUME ok, Row(machine, r, v).state.writable PROVE Met(r, S)
  <2>1. CASE click.rule = "some"
    <3>1. r[1] \in OneIsEnough /\ S \cap Aims(r) # {}
      BY <1>2, <1>3, <1>5, <2>1 DEF TurnsOrCalls
    <3> QED  BY <3>1 DEF Met
  <2>2. CASE click.rule # "some" /\ r[1] # "power.hibernate"
    <3>1. Met(r, S \cup Pending(<<>>))
      BY <1>1, <1>2, <1>3, <1>5, <2>2 DEF TurnsOrCalls
    <3>2. Pending(<<>>) = {}  BY DEF Pending
    <3> QED  BY <3>1, <3>2
  <2>3. CASE r[1] = "power.hibernate"
    <3>1. r = <<"power.hibernate">> /\ machine[r] = "on" /\ v = "on"
      BY <1>2, <1>5, <2>3, HibernateReading DEF SettingsInv, WantRight
    <3>2. NamedBy(r) = {r}  BY <3>1, PlainRows DEF Plain
    <3>3. GrantValue(r, v) = v  BY <3>1 DEF GrantValue
    <3>4. \A j \in jobs : j[1] # r  BY <3>1 DEF SettingsInv, Units
    <3>5. Coming(machine, jobs, r, r, v)  BY <3>1, <3>3, <3>4 DEF Coming, GrantedBy
    <3>6. Aims(r) \subseteq S  BY <3>2, <3>5 DEF Aims, Sure
    <3>7. r[1] \notin OneIsEnough  BY <3>1 DEF OneIsEnough
    <3> QED  BY <3>6, <3>7 DEF Met
  <2> QED  BY <2>1, <2>2, <2>3
<1> HIDE DEF ok, S
<1>6. AnswerInv'
  <2>1. answer'.row = r /\ answer'.want = v /\ (~answer'.told => Met(r, S))  BY <1>4, <1>5
  <2>2. S = Sure(machine', jobs', touched', r, v)  BY <1>4 DEF S
  <2> QED  BY <1>4, <2>1, <2>2 DEF AnswerInv
<1>7. ClickInv'  BY <1>4 DEF ClickInv
<1> QED  BY <1>4, <1>6, <1>7 DEF SettingsInv

LEMMA SettingsKept ==
    ASSUME SettingsInv, [SettingsNext]_settingsVars
    PROVE  SettingsInv'
<1>1. CASE UNCHANGED settingsVars
  <2>1. UNCHANGED <<page, click, answer, machine, jobs, touched, others>>  BY <1>1 DEF settingsVars
  <2>2. ClickInv' <=> ClickInv  BY <2>1 DEF ClickInv, TurnsOrCalls
  <2>3. AnswerInv' <=> AnswerInv  BY <2>1 DEF AnswerInv
  <2> QED  BY <2>1, <2>2, <2>3 DEF SettingsInv
<1> QED
  BY <1>1, ToggleKeeps, ReadOnlyKeeps, InvokeKeeps, PickKeeps, WriteKeeps, AskKeeps, JobDoneKeeps,
     TurnLayoutKeeps, StoreLayoutsKeeps, ReadBackKeeps, OtherKeepsInv DEF SettingsNext

(* What a row of Settings answers without a reason has happened: whatever    *)
(* the facets read, whichever calls are refused or lost, and whoever else    *)
(* changes the machine.                                                      *)
THEOREM AnswersAreHonest ==
    SettingsSpec => []AnswerIsHonest
<1>1. SettingsInit => SettingsInv  BY SettingsInitially
<1>2. SettingsInv /\ [SettingsNext]_settingsVars => SettingsInv'  BY SettingsKept
<1>3. SettingsInv => AnswerIsHonest  BY HonestFromInv
<1> QED  BY <1>1, <1>2, <1>3, PTL DEF SettingsSpec

-----------------------------------------------------------------------------
(* What a step may change: the calls of a write stay within what the row     *)
(* stood for when the writer looked, or within the profiles of one name.     *)

StaysWithin(calls, m, r, v) ==
    \A i \in DOMAIN calls : calls[i].sets \subseteq Meant(m, r) \cup Namesakes(r, v)

LEMMA BadStaysWithin ==
    ASSUME NEW m, NEW r, NEW v
    PROVE  StaysWithin(Bad.calls, m, r, v) /\ StaysWithin(Raises.calls, m, r, v)
BY DEF Bad, Raises, StaysWithin

LEMMA OneCallStaysWithin ==
    ASSUME NEW m, NEW r, NEW v, NEW t, NEW w, t \in Meant(m, r)
    PROVE  StaysWithin(Do(<<Call(t, w)>>).calls, m, r, v)
<1> DEFINE c == Call(t, w)
<1>1. c.sets = {t}  BY DEF Call
<1> HIDE DEF c
<1>2. Do(<<c>>).calls = <<c>> /\ DOMAIN <<c>> = {1} /\ <<c>>[1] = c  BY DEF Do
<1>3. StaysWithin(Do(<<c>>).calls, m, r, v)  BY <1>1, <1>2 DEF StaysWithin
<1> QED  BY <1>3 DEF c

\* The rows that stand for the same things on every machine.
ByMachine == {"display.resolution", "network.vpn", "natural_scroll", "privacy.camera", "privacy.firewall"}

LEMMA AttemptedStaysWithin ==
    ASSUME NEW w, NEW m, NEW r, NEW v, Attempted(w, m, r, v), r[1] \notin ByMachine
    PROVE  StaysWithin(w.calls, m, r, v)
<1>1. NamedBy(r) \subseteq Meant(m, r)  BY DEF NamedBy, Meant, ByMachine
<1>2. w.calls \in Seq(Granters(r, v))  BY DEF Attempted
<1>3. \A i \in DOMAIN w.calls : w.calls[i] \in Granters(r, v)  BY <1>2
<1>4. \A c \in Granters(r, v) : c.sets \subseteq NamedBy(r)  BY DEF Granters
<1> QED  BY <1>1, <1>3, <1>4 DEF StaysWithin

\* The screen that is shown is the primary one, or the first of those that are on.
LEMMA PrimaryIsMeant ==
    ASSUME NEW m, PrimaryOutput(m) # "none"
    PROVE  <<"mode", PrimaryOutput(m)>> \in Meant(m, <<"display.resolution">>)
<1> DEFINE M == SetOf(Screens)
           plugged == {s \in M : m[<<"plugged", s>>] = "yes"}
           on == {s \in M : _output_reading(m, s).enabled}
           first == {s \in M : _output_reading(m, s).primary}
           enabled == ThoseIn(outputs(m), on)
           primary == ThoseIn(enabled, first)
           p == PrimaryOutput(m)
<1>1. /\ \A s \in plugged : s \in M /\ m[<<"plugged", s>>] = "yes"
      /\ \A s \in on : s \in M /\ m[<<"display.output", s>>] = "on"
      /\ \A s : s \in first <=> s \in M /\ s = m[<<"primary">>]
  BY DEF _output_reading
<1>2. ScreensOn(m) = plugged \cap on  BY DEF ScreensOn, _output_reading
<1> HIDE DEF plugged, on, first
<1>3. outputs(m) = ThoseIn(Screens, plugged)  BY DEF outputs, plugged
<1>4. outputs(m) \in Seq(M) /\ SetOf(outputs(m)) = M \cap plugged
  BY <1>3, ListingsAre, ThoseInIs
<1> HIDE DEF M
<1>5. enabled \in Seq(M) /\ SetOf(enabled) = SetOf(outputs(m)) \cap on  BY <1>4, ThoseInIs
<1>6. primary \in Seq(M) /\ SetOf(primary) = SetOf(enabled) \cap first  BY <1>5, ThoseInIs
<1>7. p = IF enabled = <<>> THEN "none" ELSE FirstOr(primary, Head(enabled))
  BY DEF PrimaryOutput, on, first, M
<1>8. SetOf(enabled) = ScreensOn(m)  BY <1>1, <1>2, <1>4, <1>5
<1> HIDE DEF enabled, primary, p
<1>9. \A s \in Seq(M) : s # <<>> => Head(s) \in SetOf(s)
  <2> SUFFICES ASSUME NEW s \in Seq(M), s # <<>> PROVE Head(s) \in SetOf(s)  OBVIOUS
  <2>1. 1 \in DOMAIN s /\ Head(s) = s[1]  OBVIOUS
  <2> QED  BY <2>1 DEF SetOf
<1>10. primary = <<>> => SetOf(primary) = {}  BY DEF SetOf
<1>11. enabled # <<>>  BY <1>7 DEF p
<1>12. CASE primary = <<>>
  <2>1. p = Head(enabled)  BY <1>7, <1>11, <1>12 DEF FirstOr
  <2>2. p \in ScreensOn(m)  BY <1>5, <1>8, <1>9, <1>11, <2>1
  <2>3. m[<<"primary">>] \notin ScreensOn(m)  BY <1>1, <1>2, <1>6, <1>8, <1>10, <1>12
  <2> QED  BY <2>2, <2>3 DEF Meant, p
<1>13. CASE primary # <<>>
  <2>1. p = Head(primary)  BY <1>7, <1>11, <1>13 DEF FirstOr
  <2>2. p \in SetOf(enabled) /\ p \in first  BY <1>6, <1>9, <1>13, <2>1
  <2>3. p \in ScreensOn(m) /\ p = m[<<"primary">>]  BY <1>1, <1>8, <2>2
  <2> QED  BY <2>3 DEF Meant, p
<1> QED  BY <1>12, <1>13

\* Each row's write asks for what the row stands for at that moment.
LEMMA WritesStayWithin ==
    ASSUME page \in Pages, NEW r \in Rows[page], NEW m, NEW v, WantRight(r, v)
    PROVE  StaysWithin(Row(m, r, v).write.calls, m, r, v)
<1>1. CASE r[1] \notin ByMachine  BY <1>1, WritesAreAttempted, AttemptedStaysWithin
<1>2. CASE r[1] = "display.resolution"
  <2>1. page = "display" /\ r = <<"display.resolution">>  BY <1>2 DEF Pages, Rows
  <2>2. CASE PrimaryOutput(m) = "none"
    <3>1. Row(m, r, v).write = Bad  BY <2>1, <2>2 DEF Row, DisplayRow, ChoiceRow
    <3> QED  BY <3>1, BadStaysWithin
  <2>3. CASE PrimaryOutput(m) # "none"
    <3>1. Row(m, r, v).write = Do(<<Call(<<"mode", PrimaryOutput(m)>>, v)>>)
      BY <2>1, <2>3 DEF Row, DisplayRow, ChoiceRow, set_output_mode
    <3>2. <<"mode", PrimaryOutput(m)>> \in Meant(m, r)  BY <2>1, <2>3, PrimaryIsMeant
    <3> QED  BY <3>1, <3>2, OneCallStaysWithin
  <2> QED  BY <2>2, <2>3
<1>3. CASE r[1] = "network.vpn"
  <2>1. page = "connectivity" /\ r \in {"network.vpn"} \X SetOf(Profiles)
    BY <1>3 DEF Pages, Rows
  <2>2. v \in {"on", "off"}  BY <1>3 DEF WantRight, ChoiceRows
  <2>3. CASE v = "on"
    <3>1. Row(m, r, v).write = Do(<<Call(<<"network.vpn", r[2]>>, "on")>>)
      BY <2>1, <2>3 DEF Row, ConnectivityRow, SwitchRow, set_vpn, activate_saved
    <3>2. <<"network.vpn", r[2]>> \in Meant(m, r)  BY <2>1 DEF Meant
    <3> QED  BY <3>1, <3>2, OneCallStaysWithin
  <2>4. CASE v = "off"
    <3>1. NamedBy(r) = Namesakes(r, v)  BY <1>3, <2>4 DEF NamedBy, Namesakes
    <3>2. Row(m, r, v).write.calls \in Seq(Granters(r, v))  BY WritesAreAttempted DEF Attempted
    <3>3. \A i \in DOMAIN Row(m, r, v).write.calls : Row(m, r, v).write.calls[i] \in Granters(r, v)
      BY <3>2
    <3>4. \A c \in Granters(r, v) : c.sets \subseteq NamedBy(r)  BY DEF Granters
    <3> QED  BY <3>1, <3>3, <3>4 DEF StaysWithin
  <2> QED  BY <2>2, <2>3, <2>4
<1>4. CASE r[1] = "natural_scroll"
  <2> DEFINE set == {d \in SetOf(Devices) : r[2] \in KindsOf[d] /\ ~Lacks(m, <<"scroll", d>>)}
             all == ThoseIn(Devices, set)
             q == [i \in DOMAIN all |-> Call(<<"scroll", all[i]>>, v)]
  <2>1. page = "input" /\ r[1] = "natural_scroll"  BY <1>4 DEF Pages, Rows
  <2>2. Row(m, r, v).write = IF all = <<>> THEN Bad ELSE AnyOf(q)
    BY <2>1 DEF Row, InputRow, SwitchRow, set_for_kind, OfKind
  <2>3. Meant(m, r) = {"scroll"} \X set  BY <2>1 DEF Meant
  <2> HIDE DEF set
  <2>4. all \in Seq(SetOf(Devices)) /\ \A j \in DOMAIN all : all[j] \in set
    BY ListingsAre, ThoseInIs
  <2> HIDE DEF all
  <2>5. DOMAIN q = DOMAIN all /\ \A i \in DOMAIN q : q[i].sets = {<<"scroll", all[i]>>}
    BY DEF Call
  <2>6. AnyOf(q).calls = q  BY DEF AnyOf
  <2> HIDE DEF q
  <2>7. StaysWithin(AnyOf(q).calls, m, r, v)  BY <2>3, <2>4, <2>5, <2>6 DEF StaysWithin
  <2> QED  BY <2>2, <2>7, BadStaysWithin
<1>5. CASE r[1] = "privacy.camera"
  <2> DEFINE set == {a \in SetOf(AskingApps) : ~Lacks(m, <<"may", a>>)}
             all == ThoseIn(AskingApps, set)
             q == [i \in DOMAIN all |-> set_app(all[i], v)]
  <2>1. page = "privacy" /\ r = <<"privacy.camera">>  BY <1>5 DEF Pages, Rows
  <2>2. Row(m, r, v).write \in {Bad, Do(q)}
    BY <2>1 DEF Row, PrivacyRow, SwitchRow, set_device, device, permitted
  <2>3. Meant(m, r) = {"may"} \X set  BY <2>1 DEF Meant
  <2> HIDE DEF set
  <2>4. all \in Seq(SetOf(AskingApps)) /\ \A j \in DOMAIN all : all[j] \in set
    BY ListingsAre, ThoseInIs
  <2> HIDE DEF all
  <2>5. DOMAIN q = DOMAIN all /\ \A i \in DOMAIN q : q[i].sets = {<<"may", all[i]>>}
    BY DEF Call, set_app
  <2>6. Do(q).calls = q  BY DEF Do
  <2> HIDE DEF q
  <2>7. StaysWithin(Do(q).calls, m, r, v)  BY <2>3, <2>4, <2>5, <2>6 DEF StaysWithin
  <2> QED  BY <2>2, <2>7, BadStaysWithin
<1>6. CASE r[1] = "privacy.firewall"
  <2>1. page = "privacy" /\ r = <<"privacy.firewall">>  BY <1>6 DEF Pages, Rows
  <2>2. Row(m, r, v).write = set_enabled(m, v)  BY <2>1 DEF Row, PrivacyRow, SwitchRow
  <2>3. Meant(m, r) = {IF m[<<"firewalld">>] = "on" THEN <<"firewalld">> ELSE <<"ufw">>}
    BY <2>1 DEF Meant
  <2>4. CASE m[<<"firewalld">>] = "on"
    <3>1. set_enabled(m, v) = Do(<<Call(<<"firewalld">>, v)>>)
      BY <2>4 DEF set_enabled, firewall_status
    <3> QED  BY <2>2, <2>3, <2>4, <3>1, OneCallStaysWithin
  <2>5. CASE m[<<"firewalld">>] # "on"
    <3>1. firewall_status(m).backend # "firewalld"  BY <2>5 DEF firewall_status
    <3>2. set_enabled(m, v) \in {Bad, Do(<<Call(<<"ufw">>, v)>>)}  BY <3>1 DEF set_enabled
    <3> QED  BY <2>2, <2>3, <2>5, <3>2, OneCallStaysWithin, BadStaysWithin
  <2> QED  BY <2>4, <2>5
<1> QED  BY <1>1, <1>2, <1>3, <1>4, <1>5, <1>6 DEF ByMachine

\* The calls that are still to be made.
WithinInv ==
    click.step = "call" =>
        \A i \in DOMAIN click.todo : click.todo[i].sets \subseteq meant \cup Namesakes(click.row, click.want)

LEMMA WithinKept ==
    ASSUME SettingsInv, WithinInv, [SettingsNext]_settingsVars
    PROVE  WithinInv'
<1>1. CASE Write
  <2>1. click.step = "write" /\ click # NoClick  BY <1>1 DEF Write, NoClick
  <2>2. PICK r \in Rows[page], v \in Wants : WantRight(r, v) /\ click \in Deciding(r, v)
    BY <2>1 DEF SettingsInv, ClickInv, Calling
  <2>3. click.row = r /\ click.want = v  BY <2>2 DEF Deciding
  <2> DEFINE w == Row(machine, r, v).write
  <2>4. StaysWithin(w.calls, machine, r, v)  BY <2>2, WritesStayWithin DEF SettingsInv
  <2>5. /\ click' = IF w.result = "raises" THEN NoClick
                    ELSE [step |-> IF w.rule = "layout" THEN "turn" ELSE "call",
                          row |-> r, want |-> v, todo |-> w.calls,
                          rule |-> w.rule, taken |-> 0, turns |-> 0,
                          failed |-> w.result = "bad"]
        /\ meant' = IF w.result = "raises" THEN {} ELSE Meant(machine, r)
    BY <1>1, <2>3 DEF Write
  <2> HIDE DEF w
  <2>6. CASE w.result = "raises"  BY <2>5, <2>6 DEF WithinInv, NoClick
  <2>7. CASE w.result # "raises"
    <3>1. click'.todo = w.calls /\ click'.row = r /\ click'.want = v /\ meant' = Meant(machine, r)
      BY <2>5, <2>7
    <3> QED  BY <2>4, <3>1 DEF WithinInv, StaysWithin
  <2> QED  BY <2>6, <2>7
<1>2. CASE AskService
  <2>1. click.step = "call" /\ click # NoClick /\ click.todo # <<>>  BY <1>2 DEF AskService, NoClick
  <2>2. PICK r \in Rows[page], v \in Wants : click \in Calling(r, v)
    BY <2>1 DEF SettingsInv, ClickInv, Deciding
  <2>3. /\ click'.todo = Tail(click.todo) /\ click'.row = click.row /\ click'.want = click.want
        /\ meant' = meant
    BY <1>2, <2>2 DEF AskService, Calling
  <2>4. click.todo \in Seq(Granters(r, v))  BY <2>2 DEF Calling
  <2>5. \A i \in DOMAIN Tail(click.todo) :
           i + 1 \in DOMAIN click.todo /\ Tail(click.todo)[i] = click.todo[i + 1]
    BY <2>1, <2>4
  <2> QED  BY <2>1, <2>3, <2>5 DEF WithinInv
<1>3. CASE TurnLayout \/ StoreLayouts
  <2>1. click.step = "turn" /\ click # NoClick  BY <1>3 DEF TurnLayout, StoreLayouts, NoClick
  <2>2. PICK r \in Rows[page], v \in Wants : click \in Calling(r, v) /\ TurnsOrCalls
    BY <2>1 DEF SettingsInv, ClickInv, Deciding
  <2>3. click.todo = <<>>  BY <2>1, <2>2 DEF TurnsOrCalls
  <2>4. click'.todo = click.todo
    BY <1>3, <2>2 DEF TurnLayout, StoreLayouts, Calling
  <2> QED  BY <2>3, <2>4 DEF WithinInv
<1>4. CASE JobDone \/ Other  BY <1>4 DEF JobDone, Other, WithinInv
<1>5. CASE Toggle \/ Invoke \/ Pick  BY <1>5 DEF Toggle, Invoke, Pick, BeginClick, WithinInv
<1>6. CASE ReadOnly  BY <1>6 DEF ReadOnly, WithinInv
<1>7. CASE ReadBack  BY <1>7 DEF ReadBack, NoClick, WithinInv
<1>8. CASE UNCHANGED settingsVars  BY <1>8 DEF settingsVars, WithinInv
<1> QED  BY <1>1, <1>2, <1>3, <1>4, <1>5, <1>6, <1>7, <1>8 DEF SettingsNext

LEMMA OnlyNamedSteps ==
    ASSUME SettingsInv, WithinInv, SettingsNext, machine' # machine, others' = others,
           NEW t \in Things, machine'[t] # machine[t]
    PROVE  \/ <<t, machine'[t]>> \in jobs
           \/ /\ t \in meant \cup Namesakes(click.row, click.want)
              /\ Granted(t, click.row, click.want)'
           \/ t \in {<<"keyboard.layout">>, <<"x11">>} /\ click.row = <<"keyboard.layout">>
<1>1. CASE AskService
  <2>1. click.step = "call" /\ click # NoClick /\ click.todo # <<>>  BY <1>1 DEF AskService, NoClick
  <2>2. PICK r \in Rows[page], v \in Wants : click \in Calling(r, v)
    BY <2>1 DEF SettingsInv, ClickInv, Deciding
  <2>3. /\ click.row = r /\ click.want = v /\ click.todo \in Seq(Granters(r, v))
        /\ click'.row = r /\ click'.want = v
    BY <1>1, <2>2 DEF Calling, AskService
  <2> DEFINE c == Head(click.todo)
  <2>4. c \in Granters(r, v) /\ 1 \in DOMAIN click.todo /\ click.todo[1] = c  BY <2>1, <2>3
  <2>5. machine' = With(machine, {u \in c.sets : ~Queued(u)}, c.to)  BY <1>1 DEF AskService
  <2> HIDE DEF c
  <2>6. t \in c.sets /\ machine'[t] = c.to  BY <2>5, WithIs
  <2>7. t \in meant \cup Namesakes(r, v)  BY <2>1, <2>3, <2>4, <2>6 DEF WithinInv
  <2>8. machine'[t] = GrantValue(r, v)  BY <2>4, <2>6 DEF Granters
  <2>9. Granted(t, click.row, click.want)'  BY <2>3, <2>8 DEF Granted, GrantValue
  <2> QED  BY <2>3, <2>7, <2>9
<1>2. CASE JobDone
  <2>1. PICK j \in jobs : machine' = With(machine, {j[1]}, j[2])  BY <1>2 DEF JobDone
  <2>2. t = j[1] /\ machine'[t] = j[2]  BY <2>1, WithIs
  <2>3. j = <<j[1], j[2]>>  BY DEF SettingsInv
  <2> QED  BY <2>2, <2>3
<1>3. CASE TurnLayout \/ StoreLayouts
  <2>1. click.step = "turn" /\ click # NoClick  BY <1>3 DEF TurnLayout, StoreLayouts, NoClick
  <2>2. click.row = <<"keyboard.layout">>
    BY <2>1 DEF SettingsInv, ClickInv, Deciding, TurnsOrCalls
  <2>3. CASE TurnLayout
    <3>1. \E w : machine' = With(machine, {<<"keyboard.layout">>}, w)  BY <2>3 DEF TurnLayout
    <3>2. t = <<"keyboard.layout">>  BY <3>1, WithIs
    <3> QED  BY <2>2, <3>2
  <2>4. CASE StoreLayouts
    <3>1. \E w : machine' = With(machine, {<<"x11">>}, w)  BY <2>4 DEF StoreLayouts, set_x11_keyboard
    <3>2. t = <<"x11">>  BY <3>1, WithIs
    <3> QED  BY <2>2, <3>2
  <2> QED  BY <1>3, <2>3, <2>4
<1>4. CASE Other  BY <1>4 DEF Other, SettingsInv
<1>5. CASE Toggle \/ Invoke \/ Pick \/ ReadOnly \/ Write \/ ReadBack
  BY <1>5 DEF Toggle, Invoke, Pick, ReadOnly, Write, ReadBack, BeginClick
<1> QED  BY <1>1, <1>2, <1>3, <1>4, <1>5 DEF SettingsNext

(* The calls of a click change what its row stood for when the writer looked *)
(* at the machine, to what was asked for, however the machine changes under  *)
(* them - but that switching a VPN profile off may end another of its name.  *)
THEOREM OnlyTheNamedChanges ==
    SettingsSpec => OnlyWhatIsNamed
<1>1. SettingsInit => SettingsInv /\ WithinInv
  BY SettingsInitially DEF SettingsInit, WithinInv, NoClick
<1>2. SettingsInv /\ WithinInv /\ [SettingsNext]_settingsVars => SettingsInv' /\ WithinInv'
  BY SettingsKept, WithinKept
<1>3. SettingsInv /\ WithinInv /\ [SettingsNext]_settingsVars =>
        [machine' # machine /\ others' = others =>
          \A t \in Things : machine'[t] # machine[t] =>
              \/ <<t, machine'[t]>> \in jobs
              \/ /\ t \in meant \cup Namesakes(click.row, click.want)
                 /\ Granted(t, click.row, click.want)'
              \/ t \in {<<"keyboard.layout">>, <<"x11">>} /\ click.row = <<"keyboard.layout">>]_settingsVars
  BY OnlyNamedSteps
<1> QED  BY <1>1, <1>2, <1>3, PTL DEF SettingsSpec, OnlyWhatIsNamed
=============================================================================
