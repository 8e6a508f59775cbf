-------------------------------- MODULE Startup --------------------------------
(* "Startup apps" of the Task Manager (model.StartupModel) over freedesktop  *)
(* autostart entries (processes.ProcessFacet).  An entry is a file of lines; *)
(* only the lines the code looks at are told apart.  The user's copy of an   *)
(* entry shadows the system's, which is never edited.                        *)
EXTENDS Integers, Sequences, SequencesExt, FiniteSetsExt, Queues
CONSTANTS Entries,           \* file names of the entries
          Contents,          \* what a package or an editor may put into an entry
          MaxStartupOthers   \* bound: changes made by others
VARIABLES autostart,         \* directory |-> entry |-> its lines, or NoEntry
          listed,            \* StartupModel._rows
          lastToggle,        \* the last toggle: what it asked for and what it was told
          startupOthers
startupVars == <<autostart, listed, lastToggle, startupOthers>>

(* The lines: the header of a group with its name, and a key with its value. *)
EntryLines == [kind : {"group", "Name", "Hidden"},
               value : {"Desktop Entry", "Desktop Action", "a name", "true", "false"}]
NoEntry == <<>>
NoToggle == [entry |-> "none", wanted |-> FALSE, answer |-> "none"]

ASSUME StartupAssumption == Contents \subseteq Seq(EntryLines) /\ NoEntry \notin Contents

InEntryGroup(lines, i) ==
    LET heads == {h \in 1..i : lines[h].kind = "group"} IN
    heads # {} /\ lines[Max(heads)].value = "Desktop Entry"
Hides(lines) == {i \in DOMAIN lines : lines[i].kind = "Hidden"}

(* _desktop_values: the keys of the [Desktop Entry] group, the first of each. *)
_desktop_values(lines) ==
    LET hides == {i \in Hides(lines) : InEntryGroup(lines, i)} IN
    [named |-> \E i \in DOMAIN lines : InEntryGroup(lines, i) /\ lines[i].kind = "Name",
     hidden |-> hides # {} /\ lines[Min(hides)].value = "true"]

(* The user's directory is the last one, and its copies win. *)
_autostart_dirs == {"system", "user"}

(* ProcessFacet.startup: a later directory replaces the row of an earlier   *)
(* one; an entry without a name is skipped wherever it lies.                 *)
startup(files) ==
    LET Named(dir, entry) == files[dir][entry] # NoEntry /\ _desktop_values(files[dir][entry]).named
        Row(dir, entry) == [entry |-> entry, dir |-> dir,
                            enabled |-> ~_desktop_values(files[dir][entry]).hidden]
    IN  {Row("user", entry) : entry \in {e \in Entries : Named("user", e)}}
        \cup {Row("system", entry) :
                 entry \in {e \in Entries : Named("system", e) /\ ~Named("user", e)}}

HiddenLine(enabled) == [kind |-> "Hidden", value |-> IF enabled THEN "false" ELSE "true"]

\* A variant that always adds the line at the end.
RewrittenAtEnd(lines, enabled) == Append(lines, HiddenLine(enabled))

(* The user's copy with Hidden set: the first such line is replaced, whatever *)
(* group it is in, further ones dropped, and a file without one gets it at    *)
(* its end.                                                                   *)
Rewritten(lines, enabled) ==
    IF Hides(lines) = {} THEN Append(lines, HiddenLine(enabled))
    ELSE LET first == Min(Hides(lines)) IN
         SubSeq(lines, 1, first - 1) \o <<HiddenLine(enabled)>>
            \o Only({"group", "Name"}, SubSeq(lines, first + 1, Len(lines)))

(* set_startup_enabled: the entry may be gone, and the write may fail. *)
set_startup_enabled(row, enabled) ==
    \/ /\ autostart[row.dir][row.entry] = NoEntry
       /\ lastToggle' = [entry |-> row.entry, wanted |-> enabled, answer |-> "missing"]
       /\ UNCHANGED autostart
    \/ /\ autostart[row.dir][row.entry] # NoEntry
       /\ lastToggle' = [entry |-> row.entry, wanted |-> enabled, answer |-> "error"]
       /\ UNCHANGED autostart
    \/ /\ autostart[row.dir][row.entry] # NoEntry
       /\ lastToggle' = [entry |-> row.entry, wanted |-> enabled, answer |-> "ok"]
       /\ autostart' = [autostart EXCEPT !["user"][row.entry] = Rewritten(autostart[row.dir][row.entry], enabled)]

(* A system directory starts with one entry; the user has no copies yet. *)
StartupInit ==
    /\ \E entry \in Entries, lines \in Contents :
          autostart = [dir \in _autostart_dirs |-> [e \in Entries |->
                    IF dir = "system" /\ e = entry THEN lines ELSE NoEntry]]
    /\ listed = {} /\ lastToggle = NoToggle /\ startupOthers = 0

refreshStartup == listed' = startup(autostart) /\ lastToggle' = NoToggle /\ UNCHANGED <<autostart, startupOthers>>
toggleStartup(row) ==
    /\ set_startup_enabled(row, ~row.enabled)
    /\ listed' = startup(autostart')
    /\ UNCHANGED startupOthers
OtherWrites(dir, entry) ==
    /\ startupOthers < MaxStartupOthers /\ startupOthers' = startupOthers + 1
    /\ \E lines \in Contents \cup {NoEntry} : autostart' = [autostart EXCEPT ![dir][entry] = lines]
    /\ lastToggle' = NoToggle /\ UNCHANGED listed

StartupNext ==
    \/ refreshStartup
    \/ \E row \in listed : toggleStartup(row)
    \/ \E dir \in _autostart_dirs, entry \in Entries : OtherWrites(dir, entry)
StartupSpec == StartupInit /\ [][StartupNext]_startupVars
-----------------------------------------------------------------------------
(* A toggle that was told "ok" is in the list read back from the disk, and so *)
(* in the next session, for every file there may be: turned on, the entry is  *)
(* on; turned off, it is off, unless its copy keeps Hidden in another group   *)
(* than [Desktop Entry], where nothing reads it.  A copy without a name is    *)
(* not listed, the system's is (StartupModel.toggle).                         *)
TogglesTake ==
    lastToggle.answer = "ok" =>
       LET copy == autostart["user"][lastToggle.entry]
           astray == ~InEntryGroup(copy, Min(Hides(copy))) IN
       \A row \in listed : row.entry = lastToggle.entry =>
          \/ row.enabled = lastToggle.wanted
          \/ ~lastToggle.wanted /\ astray
          \/ row.dir = "system" /\ ~_desktop_values(copy).named
=============================================================================
