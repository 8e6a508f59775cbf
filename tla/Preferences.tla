----------------------------- MODULE Preferences -----------------------------
(* The shell's switches: settings.conf, the functions of prefs.py that read *)
(* and replace it, the row of Settings that writes it and the Prefs object  *)
(* the taskbar and the Start menu draw from.  A line of the file is         *)
(* "none" (absent), "true", "false" or "junk" (present, but no switch).     *)
EXTENDS Naturals

CONSTANTS Switches,    \* the switches of DEFAULTS that are on by default
          UnknownKey,  \* a line whose key no version of the shell knows
          MaxHandEdits \* bound on the edits by hand

VARIABLES conf,        \* settings.conf: its lines
          temp,        \* settings.conf.tmp
          values,      \* Prefs._values
          saving,      \* the call of set_value that is running
          before,      \* conf when that call began
          handEdits    \* edits by hand so far

prefVars == <<conf, temp, values, saving, before, handEdits>>

Lines == Switches \cup {UnknownKey}
Files == [Lines -> {"none", "true", "false", "junk"}]
Empty == [l \in Lines |-> "none"]
Garbled == [l \in Lines |-> "garbled"]   \* no text at all
Half == [l \in Lines |-> "half"]         \* the writing was not finished
NoSave == [by |-> "nobody", step |-> "idle"]

\* A file that cannot be read or decoded is read as one without a line.
read_raw(f) == IF f \in {Garbled, Half} THEN Empty ELSE f
\* The switch of a line: what it says when that is a switch, the default if not.
load(f) == [k \in Switches |-> read_raw(f)[k] # "false"]
Word(b) == IF b THEN "true" ELSE "false"
\* A variant in which a save writes only the switches it knows.
MergedKnownOnly(f, switches) ==
    [l \in Lines |-> IF l \in Switches THEN Word(switches[l]) ELSE "none"]

\* What save() writes: every known switch, and the lines it does not know.
Merged(f, switches) ==
    [l \in Lines |-> IF l \in Switches THEN Word(switches[l]) ELSE read_raw(f)[l]]

PrefsInit ==
    /\ conf \in {Empty, [Empty EXCEPT ![UnknownKey] = "true"]}
    /\ temp = Empty /\ values = load(conf)
    /\ saving = NoSave /\ before = conf /\ handEdits = 0

(* A click on a row of Settings reads the switch from the file and writes   *)
(* its opposite; Prefs.set writes the value it is given and Prefs.toggle    *)
(* the opposite of the value Prefs remembers.                               *)
Begin(by, k, v) ==
    /\ saving = NoSave
    /\ saving' = [by |-> by, step |-> "loaded", key |-> k, value |-> v,
                  switches |-> [load(conf) EXCEPT ![k] = v]]
    /\ before' = conf /\ UNCHANGED <<conf, temp, values, handEdits>>
ActivateRow == \E k \in Switches : Begin("row", k, ~load(conf)[k])
PrefsSet == \E k \in Switches, v \in BOOLEAN : Begin("prefs", k, v)
PrefsToggle == \E k \in Switches : Begin("prefs", k, ~values[k])

\* save() reads the lines again and writes them beside the file, ...
WriteTemp ==
    /\ saving.step = "loaded"
    /\ temp' = Half
    /\ saving' = [by |-> saving.by, step |-> "written", key |-> saving.key, value |-> saving.value,
                  body |-> Merged(conf, saving.switches)]
    /\ UNCHANGED <<conf, values, before, handEdits>>
CloseTemp ==
    /\ saving.step = "written" /\ temp = Half
    /\ temp' = saving.body /\ UNCHANGED <<conf, values, saving, before, handEdits>>
\* ... and puts them in its place.  Only Prefs reads the file again.
Replace ==
    /\ saving.step = "written" /\ temp # Half
    /\ conf' = temp /\ temp' = Empty
    /\ values' = IF saving.by = "prefs" THEN load(temp) ELSE values
    /\ saving' = NoSave /\ UNCHANGED <<before, handEdits>>

Refresh == /\ saving = NoSave /\ values' = load(conf)
           /\ UNCHANGED <<conf, temp, saving, before, handEdits>>
\* The power goes; the next session's shell reads what is there.
PowerCut == /\ saving # NoSave
            /\ saving' = NoSave /\ values' = load(conf)
            /\ UNCHANGED <<conf, temp, before, handEdits>>
\* "safe to edit by hand": while the shell is not writing, one line changes.
EditByHand ==
    /\ saving = NoSave /\ handEdits < MaxHandEdits /\ handEdits' = handEdits + 1
    /\ \/ \E l \in Lines, w \in {"none", "true", "false", "junk"} :
             conf' = [read_raw(conf) EXCEPT ![l] = w]
       \/ conf' = Garbled
    /\ UNCHANGED <<temp, values, saving, before>>

PrefsNext ==
    \/ ActivateRow \/ PrefsSet \/ PrefsToggle \/ WriteTemp \/ CloseTemp \/ Replace
    \/ Refresh \/ PowerCut \/ EditByHand
PrefsSpec == PrefsInit /\ [][PrefsNext]_prefVars

-----------------------------------------------------------------------------
(* Whenever settings.conf changes under a save, the new file is a whole one *)
(* in which the clicked switch has its new value, every other switch means  *)
(* what it meant, and the line of a key the shell does not know is the one  *)
(* that was there; a power cut at any step leaves the old file              *)
(* (prefs.save: "Write the switches, keeping any key we do not know about").*)
OnlyTheSwitchChanges ==
    [][saving # NoSave =>
          \/ conf' = conf
          \/ /\ conf' \in Files
             /\ load(conf') = [load(before) EXCEPT ![saving.key] = saving.value]
             /\ conf'[UnknownKey] = read_raw(before)[UnknownKey]]_prefVars

=============================================================================
