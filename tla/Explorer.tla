------------------------------- MODULE Explorer -------------------------------
(* The file operations of files.py and the Explorer list that calls them.   *)
(* One home directory, one folder that can stand in it, the trash of the    *)
(* freedesktop specification, and another program that creates, renames,    *)
(* removes and trashes between any two system calls of an operation.  A     *)
(* name is a stem and the numbers unique_name appended to it: <<"x">>,      *)
(* <<"x", 2>>, ...                                                          *)
EXTENDS Naturals, Sequences, FiniteSetsExt

CONSTANTS PlainFiles,      \* the regular files
          Links,      \* symbolic links: one in the trash points nowhere
          MaxMade,    \* bound on the number unique_name appends
          MaxHistory, \* bound on the folders Back remembers
          MaxOther    \* bound on what the other program does

\* A link is neither a regular file nor the folder.
ASSUME KindsAreApart == Links \cap (PlainFiles \cup {"folder"}) = {}
ASSUME MadeIsNat == MaxMade \in Nat

VARIABLES place,      \* where each object is: [dir, name]
          info,       \* name in Trash/info -> where that record says it came from
          path, files, error, history, forward,   \* the FileModel
          job,        \* the operation that has looked and has still to act
          disturbed,  \* the places another program put something at or took it from since
          fileOthers      \* steps of the other program

explorerVars == <<place, info, path, files, error, history, forward, job, disturbed, fileOthers>>
listVars == <<path, files, error, history, forward>>
jobVars == <<job, disturbed>>

FileObjects == PlainFiles \cup Links \cup {"folder"}
Stems == {"x", "y"}
Absent == [dir |-> "gone", name |-> <<>>]
NotYet == [dir |-> "unmade", name |-> <<>>]
At(d, n) == [dir |-> d, name |-> n]
Elsewhere == At("elsewhere", <<>>)
NoJob == [op |-> "none"]
Home == <<"home">>              \* the path of the home directory; a folder's is its name
FileNames == {<<s>> : s \in Stems} \cup {<<s, i>> : s \in Stems, i \in 2..MaxMade}
TrashNames == FileNames \cup {n \o <<i>> : n \in FileNames, i \in 2..MaxMade}

\* What stat() finds: a link in the trash points nowhere, so it "does not exist".
Occupants(at) == {o \in FileObjects : place[o] = at}
Exists(d, n) == \E o \in Occupants(At(d, n)) : ~(d = "files" /\ o \in Links)
\* A variant that takes the name as it is.
unique_name_taken(d, n) == n

unique_name(d, n) ==
    IF ~Exists(d, n) THEN n ELSE n \o <<Min({i \in 2..MaxMade : ~Exists(d, n \o <<i>>)})>>
Free(d, n) == ~Exists(d, n) \/ \E i \in 2..MaxMade : ~Exists(d, n \o <<i>>)
\* Renaming o replaces whatever has the name, seen or not.
Put(o, to) == [q \in FileObjects |-> IF q = o THEN to ELSE IF place[q] = to THEN Absent ELSE place[q]]

DirOf(p) == IF p = Home THEN "home" ELSE "sub"
IsDir(at, p) == p = Home \/ at["folder"] = At("home", p)
list_directory(at, p) ==
    IF ~IsDir(at, p) THEN {}
    ELSE {[name |-> at[o].name, is_dir |-> o = "folder"] :
             o \in {q \in FileObjects : at[q].dir = DirOf(p)}}
\* What the path of a row of that name leads to now.
Named(n) == {o \in FileObjects : IsDir(place, path) /\ place[o] = At(DirOf(path), n)}

ExplorerInit == /\ place \in [FileObjects -> {NotYet} \cup {At("home", <<s>>) : s \in Stems}]
                /\ place["folder"] = NotYet
                /\ \A o, q \in FileObjects : o = q \/ place[o] = NotYet \/ place[o] # place[q]
                /\ info = [n \in TrashNames |-> NotYet]
                /\ path = Home /\ files = {} /\ error = FALSE /\ history = <<>> /\ forward = <<>>
                /\ job = NoJob /\ disturbed = {} /\ fileOthers = 0

\* reload(): the listing of the path, or an empty list and an error.
Reload(p) == files' = list_directory(place', p) /\ error' = ~IsDir(place', p)
reload == UNCHANGED <<place, info, path, history, forward, jobVars, fileOthers>> /\ Reload(path)

Show(p) == UNCHANGED <<place, info, jobVars, fileOthers>> /\ path' = p /\ Reload(p)
navigate(p) ==
    \/ /\ IsDir(place, p) /\ Len(history) < MaxHistory
       /\ history' = Append(history, path) /\ forward' = <<>> /\ Show(p)
    \/ /\ ~IsDir(place, p) /\ error' = TRUE
       /\ UNCHANGED <<place, info, path, files, history, forward, jobVars, fileOthers>>
\* A folder is entered; a file is handed to its application, if it is still there.
openRow == \E row \in files :
    \/ row.is_dir /\ navigate(row.name)
    \/ /\ ~row.is_dir /\ error' = (Named(row.name) = {})
       /\ UNCHANGED <<place, info, path, files, history, forward, jobVars, fileOthers>>
goUp == path # Home /\ navigate(Home)
goBack == /\ history # <<>> /\ Show(history[Len(history)])
          /\ forward' = Append(forward, path) /\ history' = SubSeq(history, 1, Len(history) - 1)
goForward == /\ forward # <<>> /\ Show(forward[Len(forward)])
             /\ history' = Append(history, path) /\ forward' = SubSeq(forward, 1, Len(forward) - 1)

\* _apply: only a success reads the directory again.
Succeeds == Reload(path) /\ UNCHANGED <<path, history, forward, fileOthers>>
FileFails == error' = TRUE /\ UNCHANGED <<path, files, history, forward, fileOthers>>

\* An operation looks first, ...
Look(op, n, to) == /\ job' = [op |-> op, name |-> n, to |-> to] /\ disturbed' = {}
                   /\ UNCHANGED <<place, info, listVars, fileOthers>>
createFolder ==
    /\ place["folder"] = NotYet /\ path = Home /\ Free("home", <<"x">>)
    /\ Look("mkdir", <<"x">>, At("home", unique_name("home", <<"x">>)))
\* rename() refuses a name that exists; the row may name what is no longer there.
renameRow ==
    \E row \in files, s \in Stems :
        /\ <<s>> # row.name
        /\ \/ Exists(DirOf(path), <<s>>) /\ FileFails /\ UNCHANGED <<place, info, jobVars>>
           \/ ~Exists(DirOf(path), <<s>>) /\ Look("rename", row.name, At(DirOf(path), <<s>>))
\* move_to_trash(): a name that is free among the files of the trash, ...
deleteRow ==
    \E row \in files :
        \/ Named(row.name) = {} /\ FileFails /\ UNCHANGED <<place, info, jobVars>>
        \/ /\ Named(row.name) # {} /\ Free("files", row.name)
           /\ Look("record", row.name, At("files", unique_name("files", row.name)))

\* ... and acts on what is there by then.
JobEnds == job' = NoJob /\ disturbed' = {}
Fails == UNCHANGED place /\ FileFails
mkdir == /\ job.op = "mkdir" /\ JobEnds /\ UNCHANGED info
         /\ \/ Occupants(job.to) = {} /\ place' = Put("folder", job.to) /\ Succeeds
            \/ Fails
\* The system call replaces a file by a file and refuses a folder either way.
os_rename ==
    /\ job.op = "rename" /\ JobEnds /\ UNCHANGED info
    /\ \/ \E o \in Named(job.name) :
             /\ Occupants(job.to) = {} \/ "folder" \notin Occupants(job.to) \cup {o}
             /\ place' = Put(o, job.to) /\ Succeeds
       \/ Fails
\* ... the record beside it, over one that may be there; resolve() follows links, ...
write_text ==
    /\ job.op = "record"
    /\ \/ /\ info' = [info EXCEPT ![job.to.name] =
                         IF Named(job.name) \cap Links # {} THEN Elsewhere
                         ELSE At(DirOf(path), job.name)]
          /\ job' = [job EXCEPT !.op = "move"] /\ UNCHANGED <<place, listVars, disturbed, fileOthers>>
       \/ JobEnds /\ Fails /\ UNCHANGED info
\* ... then the object, into a folder that has the name by now; when it cannot be
\* moved the record stays.
shutil_move ==
    /\ job.op = "move" /\ JobEnds /\ UNCHANGED info
    /\ \/ \E o \in Named(job.name) :
             LET inside == "folder" \in Occupants(job.to)
                 to == IF inside THEN At("sub", job.name) ELSE job.to
             IN  /\ inside \/ o = "folder" => Occupants(to) = {}
                 /\ place' = Put(o, to) /\ Succeeds
       \/ Fails

\* The other program never replaces anything, and trashes as the specification says.
Meddle(places) == /\ fileOthers < MaxOther /\ fileOthers' = fileOthers + 1
                  /\ disturbed' = IF job = NoJob THEN {} ELSE disturbed \cup places
                  /\ UNCHANGED <<listVars, job>>
OtherMakes == \E o \in FileObjects \ {"folder"}, d \in {"home", "sub"}, s \in Stems :
    /\ place[o] = NotYet /\ (d = "home" \/ place["folder"] # NotYet) /\ Occupants(At(d, <<s>>)) = {}
    /\ place' = Put(o, At(d, <<s>>)) /\ UNCHANGED info /\ Meddle({At(d, <<s>>)})
OtherRenames == \E o \in FileObjects, s \in Stems :
    LET to == At(place[o].dir, <<s>>) IN
    /\ place[o].dir \in {"home", "sub"} /\ Occupants(to) = {}
    /\ place' = Put(o, to) /\ UNCHANGED info /\ Meddle({place[o], to})
OtherRemoves == \E o \in FileObjects :
    LET all == {o} \cup (IF o = "folder" THEN {q \in FileObjects : place[q].dir = "sub"} ELSE {}) IN
    /\ place[o].dir \in {"home", "sub", "files"}
    /\ place' = [q \in FileObjects |-> IF q \in all THEN Absent ELSE place[q]]
    /\ info' = IF place[o].dir = "files" THEN [info EXCEPT ![place[o].name] = NotYet] ELSE info
    /\ Meddle({place[q] : q \in all})
OtherTrashes == \E o \in FileObjects, n \in TrashNames :
    /\ place[o].dir \in {"home", "sub"} /\ n \in {place[o].name, place[o].name \o <<2>>}
    /\ info[n] = NotYet /\ Occupants(At("files", n)) = {}
    /\ info' = [info EXCEPT ![n] = place[o]] /\ place' = Put(o, At("files", n))
    /\ Meddle({place[o], At("files", n)})
OtherProgram == OtherMakes \/ OtherRenames \/ OtherRemoves \/ OtherTrashes

Idle == job = NoJob
ExplorerNext == \/ Idle /\ (reload \/ openRow \/ goUp \/ goBack \/ goForward)
                \/ Idle /\ (createFolder \/ renameRow \/ deleteRow)
                \/ mkdir \/ os_rename \/ write_text \/ shutil_move
                \/ OtherProgram
ExplorerSpec == ExplorerInit /\ [][ExplorerNext]_explorerVars
-----------------------------------------------------------------------------
(* However the directory changed after it was listed and whichever step      *)
(* failed, Explorer overwrites no file and no folder but one that another    *)
(* program put under the wanted name between the look and the system call;   *)
(* what it puts in the trash has a record beside it that says where it was,  *)
(* and what is in the trash keeps its record, unless another program came to *)
(* that very name in between.  FileModel says "nothing is overwritten and    *)
(* nothing is deleted outright"; the look of files.py does not hold the      *)
(* name, and that race is all that is missing.  Links: see the README.       *)
NothingIsLost ==
    [][fileOthers' = fileOthers =>
       \A o \in PlainFiles \cup {"folder"} :
          /\ place'[o] = Absent => place[o] = Absent \/ (place[o] = job.to /\ job.to \in disturbed)
          /\ place[o].dir # "files" /\ place'[o].dir = "files" =>
                info[place'[o].name] = place[o] \/ {place[o], place'[o]} \cap disturbed # {}
          /\ place[o].dir = "files" /\ place[o] \notin disturbed =>
                place'[o] = place[o] /\ info'[place[o].name] = info[place[o].name]
      ]_explorerVars
=============================================================================
