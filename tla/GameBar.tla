------------------------------- MODULE GameBar -------------------------------
(* Win+G: GameBarModel, the commands of capture.py and the handshake with   *)
(* the desktop portal (portal.session).  The handshake waits in an event    *)
(* loop of its own, so the panel stays alive: a click made meanwhile is     *)
(* handled inside the wait, and a second handshake can run within the first.*)
EXTENDS Naturals, Sequences, FiniteSets, SequencesExt

CONSTANTS MaxFiles,    \* bound on the files named
          MaxDepth     \* bound on the handshakes inside each other

VARIABLES shotTool, recordTool,   \* what capture.pick found, "none" if nothing
          waits,       \* the handshakes, innermost last: [step, answer]
          running,     \* the recorders that run, each named by its file
          current,     \* _recording_process
          lastFile,        \* _last_file
          status,      \* what the panel says
          next,        \* the next file's number
          disk         \* the files there are

barVars == <<shotTool, recordTool, waits, running, current, lastFile, status, next, disk>>
idle == <<shotTool, recordTool>>

NoFile == 0
\* Of the three grabbers, grim is run as spectacle is.
SCREENSHOT_TOOLS == {"spectacle", "portal"}
RECORDING_TOOLS == {"ffmpeg", "wf-recorder"}
Steps == <<"CreateSession", "SelectSources", "Start">>
Says(s) == status' = [says |-> s, file |-> NoFile]

BarInit == /\ shotTool \in SCREENSHOT_TOOLS \cup {"none"} /\ recordTool \in RECORDING_TOOLS \cup {"none"}
           /\ waits = <<>> /\ running = {} /\ current = NoFile /\ lastFile = NoFile
           /\ status = [says |-> "", file |-> NoFile] /\ next = 1
           /\ disk = {}

\* The grabber is waited for; with the portal's nothing moves the file here.
takeScreenshot ==
    /\ next <= MaxFiles
    /\ IF shotTool = "none" THEN Says("missing") /\ UNCHANGED <<lastFile, next, disk>>
       ELSE /\ next' = next + 1
            /\ \/ /\ shotTool # "portal" /\ disk' = disk \cup {next} /\ lastFile' = next
                  /\ status' = [says |-> "saved", file |-> next]
               \/ Says("not taken") /\ UNCHANGED <<lastFile, disk>>
    /\ UNCHANGED <<idle, waits, running, current>>

\* The command line runs; the first thing that fails says so and nothing starts.
Launch == /\ next <= MaxFiles
          /\ \/ /\ running' = running \cup {next} /\ current' = next /\ lastFile' = next
                /\ next' = next + 1 /\ Says("recording")
             \/ current' = NoFile /\ Says("not started") /\ UNCHANGED <<running, lastFile, next>>
startRecording ==
    /\ current = NoFile
    /\ \/ /\ recordTool = "none" /\ Says("missing")
          /\ UNCHANGED <<waits, running, current, lastFile, next>>
       \/ /\ recordTool = "ffmpeg" /\ Len(waits) < MaxDepth
          /\ waits' = Append(waits, [step |-> 1, answer |-> "none"])
          /\ UNCHANGED <<running, current, lastFile, status, next>>
       \/ recordTool = "wf-recorder" /\ Launch /\ UNCHANGED waits
    /\ UNCHANGED <<idle, disk>>

\* The portal answers a request, or its thirty seconds pass.
PortalAnswers == \E i \in DOMAIN waits, a \in {"granted", "refused", "timeout"} :
    /\ waits[i].answer = "none" /\ waits' = [waits EXCEPT ![i].answer = a]
    /\ UNCHANGED <<idle, running, current, lastFile, status, next, disk>>
\* Only the innermost wait can return.
HandshakeGoesOn ==
    /\ waits # <<>> /\ Last(waits).answer # "none"
    /\ LET w == Last(waits) IN
         CASE w.answer # "granted" ->
                /\ waits' = Front(waits) /\ Says(w.answer)
                /\ UNCHANGED <<running, current, lastFile, next>>
           [] w.answer = "granted" /\ w.step < Len(Steps) ->
                /\ waits' = Append(Front(waits), [step |-> w.step + 1, answer |-> "none"])
                /\ UNCHANGED <<running, current, lastFile, status, next>>
           [] OTHER -> waits' = Front(waits) /\ Launch
    /\ UNCHANGED <<idle, disk>>

\* A variant that reports the file without looking for it.
stopRecordingUnseen ==
    /\ current # NoFile /\ current' = NoFile
    /\ running' = running \ {current}
    /\ status' = [says |-> "saved", file |-> lastFile]
    /\ UNCHANGED <<idle, waits, lastFile, next, disk>>

\* terminate(), or kill() if that raises; the wait for its end is not checked.
stopRecording ==
    /\ current # NoFile /\ current' = NoFile
    /\ running' = running \ {current}
    /\ status' = IF lastFile \in disk THEN [says |-> "saved", file |-> lastFile]
                 ELSE [says |-> "no file", file |-> NoFile]
    /\ UNCHANGED <<idle, waits, lastFile, next, disk>>
toggleRecording == stopRecording \/ startRecording
\* The microphone switch only changes the next command line, which is left out.
toggleMic == /\ IF current # NoFile THEN Says("microphone next time") ELSE UNCHANGED status
             /\ UNCHANGED <<idle, waits, running, current, lastFile, next, disk>>

\* A recorder writes its file, and may end on its own: nothing watches it.
RecorderWrites == \E r \in running \ disk :
    disk' = disk \cup {r} /\ UNCHANGED <<idle, waits, running, current, lastFile, status, next>>
RecorderEnds == \E r \in running :
    running' = running \ {r} /\ UNCHANGED <<idle, waits, current, lastFile, status, next, disk>>

BarNext == \/ takeScreenshot \/ toggleRecording \/ toggleMic
           \/ PortalAnswers \/ HandshakeGoesOn \/ RecorderWrites \/ RecorderEnds
BarSpec == BarInit /\ [][BarNext]_barVars
-----------------------------------------------------------------------------
(* The panel lets go of a recorder that runs only where a handshake returns   *)
(* after another, inside its wait, has started one (model.py: the portal's    *)
(* nested loop).  When it says after a stop that a file was saved, the file   *)
(* is there, and is the recording or a screenshot taken while it ran, no      *)
(* earlier one; and it never says that it records with nothing to stop.       *)
CaptureIsHonest ==
    [][/\ running' \ {current'} \subseteq running \ {current} \/ (waits # <<>> /\ current # NoFile)
       /\ current # NoFile /\ current' = NoFile /\ status'.says = "saved"
            => status'.file \in disk /\ status'.file >= current
       /\ current' = NoFile => status'.says # "recording"]_barVars
=============================================================================
