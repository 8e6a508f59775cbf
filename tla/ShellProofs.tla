------------------------------ MODULE ShellProofs ------------------------------
(***************************************************************************)
(* Proofs about the parts of the shell that hold what is the user's: what  *)
(* the game bar says of its recordings, who may replace a notification,    *)
(* what the Task Manager charges to a process, what the pane of Zaldros    *)
(* Slides shows, what Explorer does to files, which clips outlive a        *)
(* session, and what starts with one.  Each has an inductive invariant of  *)
(* its own; what a queue holds is known by induction over its prefixes     *)
(* (QueueProofs).                                                          *)
(***************************************************************************)
EXTENDS Clipboard, Notifications, Explorer, GameBar, Processes, Slides, Startup, Devices,
        QueueProofs, FiniteSetTheorems, TLAPS

-----------------------------------------------------------------------------
(* What the game bar says of its recordings.                                 *)

Answers == {"none", "granted", "refused", "timeout"}
Waits == [step : Nat, answer : Answers]

(* Files are numbered upwards, and the file named last is not older than the  *)
(* recorder the panel holds.                                                 *)
BarShape ==
    /\ waits \in Seq(Waits) /\ next \in Nat \ {0} /\ running \subseteq Nat \ {0}
    /\ current \in Nat /\ lastFile \in Nat /\ current <= lastFile /\ lastFile < next
BarInv == BarShape /\ (current = NoFile => status.says # "recording")
(* What CaptureIsHonest says of a step.                                      *)
Honest ==
    /\ running' \ {current'} \subseteq running \ {current} \/ (waits # <<>> /\ current # NoFile)
    /\ current # NoFile /\ current' = NoFile /\ status'.says = "saved"
         => status'.file \in disk /\ status'.file >= current
    /\ current' = NoFile => status'.says # "recording"

LEMMA SaysSo == \A s : Says(s) => status'.says = s  BY DEF Says

(* Nothing starts and the panel holds what it held.                          *)
LEMMA KeepsHold ==
    ASSUME BarInv, waits' \in Seq(Waits), UNCHANGED <<current, lastFile, next>>,
           running' \subseteq running, status'.says # "recording" \/ status' = status
    PROVE  BarInv' /\ Honest
BY DEF BarInv, BarShape, Honest

LEMMA NothingHeld ==
    ASSUME BarShape, waits' \in Seq(Waits), current' = NoFile, UNCHANGED <<lastFile, next>>,
           running' \subseteq running
    PROVE  BarShape'
<1>1. current' = 0 /\ lastFile \in Nat  BY DEF BarShape, NoFile
<1>2. current' \in Nat /\ current' <= lastFile'  BY <1>1
<1> QED  BY <1>2 DEF BarShape

LEMMA LaunchKeeps ==
    ASSUME BarInv, Launch, waits' \in Seq(Waits), current = NoFile \/ waits # <<>>
    PROVE  BarInv' /\ Honest
<1>1. CASE /\ running' = running \cup {next} /\ current' = next /\ lastFile' = next
           /\ next' = next + 1 /\ Says("recording")
  <2>1. next \in Nat /\ next # 0 /\ running \subseteq Nat \ {0}  BY DEF BarInv, BarShape
  <2>2. BarInv'  BY <1>1, <2>1 DEF BarInv, BarShape, NoFile
  <2>3. running' \ {current'} \subseteq running \ {NoFile}  BY <1>1, <2>1 DEF NoFile
  <2> QED  BY <1>1, <2>1, <2>2, <2>3 DEF Honest, NoFile
<1>2. CASE current' = NoFile /\ Says("not started") /\ UNCHANGED <<running, lastFile, next>>
  <2>1. status'.says = "not started"  BY <1>2, SaysSo
  <2>2. BarShape'  BY <1>2, NothingHeld DEF BarInv
  <2>3. BarInv'  BY <2>1, <2>2 DEF BarInv
  <2> QED  BY <1>2, <2>1, <2>3 DEF Honest
<1> QED  BY <1>1, <1>2 DEF Launch

LEMMA HandshakeFacts ==
    ASSUME NEW q \in Seq(Waits), q # <<>>
    PROVE  /\ Len(q) \in Nat /\ Len(q) > 0 /\ Last(q) \in Waits /\ Front(q) \in Seq(Waits)
           /\ Len(Front(q)) = Len(q) - 1 /\ (Len(q) = 1 => Front(q) = <<>>)
<1>1. Len(q) \in Nat /\ Len(q) > 0 /\ \A i \in 1 .. Len(q) : q[i] \in Waits
      BY LenProperties, EmptySeq, ElementOfSeq
<1>2. Front(q) = SubSeq(q, 1, Len(q) - 1) /\ Last(q) = q[Len(q)]  BY DEF Front, Last
<1>3. Front(q) \in Seq(Waits) /\ Len(Front(q)) = Len(q) - 1
  <2>1. Len(q) - 1 \in Int /\ \A i \in 1 .. Len(q) - 1 : q[i] \in Waits  BY <1>1
  <2>2. SubSeq(q, 1, Len(q) - 1) \in Seq(Waits)  BY <2>1, SubSeqProperties
  <2>3. Len(SubSeq(q, 1, Len(q) - 1)) = IF 1 <= Len(q) - 1 THEN Len(q) - 1 - 1 + 1 ELSE 0
        BY <2>1, SubSeqProperties
  <2>4. Len(SubSeq(q, 1, Len(q) - 1)) = Len(q) - 1  BY <1>1, <2>3
  <2> QED  BY <1>2, <2>2, <2>4, Zenon
<1> QED  BY <1>1, <1>2, <1>3, EmptySeq

LEMMA StartKeeps == ASSUME BarInv, startRecording PROVE BarInv' /\ Honest
<1>1. current = NoFile /\ waits \in Seq(Waits)  BY DEF BarInv, BarShape, startRecording
<1>2. CASE Says("missing") /\ UNCHANGED <<waits, running, current, lastFile, next>>
  <2>1. status'.says = "missing"  BY <1>2, SaysSo
  <2> QED  BY <1>1, <1>2, <2>1, KeepsHold
<1>3. CASE /\ waits' = Append(waits, [step |-> 1, answer |-> "none"])
           /\ UNCHANGED <<running, current, lastFile, status, next>>
  <2>1. [step |-> 1, answer |-> "none"] \in Waits  BY DEF Waits, Answers
  <2>2. waits' \in Seq(Waits)  BY <1>1, <1>3, <2>1, AppendProperties
  <2> QED  BY <1>3, <2>2, KeepsHold
<1>4. CASE Launch /\ UNCHANGED waits  BY <1>1, <1>4, LaunchKeeps
<1> QED  BY <1>2, <1>3, <1>4 DEF startRecording

LEMMA HandshakeKeeps == ASSUME BarInv, HandshakeGoesOn PROVE BarInv' /\ Honest
<1> DEFINE w == Last(waits)
<1>1. waits # <<>> /\ waits \in Seq(Waits)  BY DEF BarInv, BarShape, HandshakeGoesOn
<1>2. w \in Waits /\ Front(waits) \in Seq(Waits)  BY <1>1, HandshakeFacts
<1>3. CASE w.answer # "granted"
  <2>1. /\ waits' = Front(waits) /\ Says(w.answer) /\ UNCHANGED <<running, current, lastFile, next>>
        /\ w.answer \in {"none", "refused", "timeout"}
        BY <1>2, <1>3 DEF HandshakeGoesOn, Waits, Answers
  <2>2. status'.says # "recording"  BY <2>1, SaysSo
  <2> QED  BY <1>2, <2>1, <2>2, KeepsHold
<1>4. CASE w.answer = "granted" /\ w.step < Len(Steps)
  <2> DEFINE more == [step |-> w.step + 1, answer |-> "none"]
  <2>1. /\ waits' = Append(Front(waits), more)
        /\ UNCHANGED <<running, current, lastFile, status, next>>
        BY <1>4 DEF HandshakeGoesOn
  <2>2. more \in Waits  BY <1>2 DEF Waits, Answers
  <2>3. waits' \in Seq(Waits)  BY <1>2, <2>1, <2>2, AppendProperties
  <2> QED  BY <2>1, <2>3, KeepsHold
<1>5. CASE w.answer = "granted" /\ ~(w.step < Len(Steps))
  <2>1. waits' = Front(waits) /\ Launch  BY <1>5 DEF HandshakeGoesOn
  <2> QED  BY <1>1, <1>2, <2>1, LaunchKeeps
<1> QED  BY <1>3, <1>4, <1>5

LEMMA AnswerKeeps == ASSUME BarInv, PortalAnswers PROVE BarInv' /\ Honest
<1>1. PICK i \in DOMAIN waits, a \in {"granted", "refused", "timeout"} :
         waits' = [waits EXCEPT ![i].answer = a]
      BY DEF PortalAnswers
<1>2. UNCHANGED <<running, current, lastFile, status, next>>  BY DEF PortalAnswers
<1>3. waits \in Seq(Waits) /\ DOMAIN waits = 1 .. Len(waits) /\ Len(waits) \in Nat
      BY LenProperties DEF BarInv, BarShape
<1>4. [waits[i] EXCEPT !.answer = a] \in Waits
  <2>1. waits[i] \in Waits  BY <1>3, ElementOfSeq
  <2> QED  BY <2>1 DEF Waits, Answers
<1>5. waits' \in [1 .. Len(waits) -> Waits]  BY <1>1, <1>3, <1>4, ElementOfSeq
<1>6. waits' \in Seq(Waits)  BY <1>3, <1>5, SeqDef
<1> QED  BY <1>2, <1>6, KeepsHold

LEMMA BarKeeps == ASSUME BarInv, [BarNext]_barVars PROVE BarInv' /\ (UNCHANGED barVars \/ Honest)
<1>1. waits \in Seq(Waits)  BY DEF BarInv, BarShape
<1>2. CASE takeScreenshot
  <2>1. UNCHANGED <<waits, running, current>>  BY <1>2 DEF takeScreenshot
  <2>2. \/ UNCHANGED <<next, lastFile>>
        \/ next' = next + 1 /\ lastFile' \in {next, lastFile}
        BY <1>2 DEF takeScreenshot
  <2>3. \/ \E s \in {"missing", "not taken"} : Says(s)
        \/ status' = [says |-> "saved", file |-> next]
        BY <1>2 DEF takeScreenshot
  <2>4. status'.says # "recording"
    <3>1. CASE \E s \in {"missing", "not taken"} : Says(s)  BY <3>1, SaysSo
    <3>2. CASE status' = [says |-> "saved", file |-> next]  BY <3>2
    <3> QED  BY <2>3, <3>1, <3>2
  <2>5. BarInv'  BY <2>1, <2>2, <2>4 DEF BarInv, BarShape
  <2>6. Honest  BY <2>1, <2>4 DEF Honest
  <2> QED  BY <2>5, <2>6
<1>3. CASE stopRecording
  <2>1. /\ current # NoFile /\ current' = NoFile /\ running' = running \ {current}
        /\ UNCHANGED <<waits, lastFile, next>>
        /\ status' = IF lastFile \in disk THEN [says |-> "saved", file |-> lastFile]
                     ELSE [says |-> "no file", file |-> NoFile]
        BY <1>3 DEF stopRecording
  <2>2. /\ status'.says # "recording"
        /\ status'.says = "saved" => status'.file = lastFile /\ lastFile \in disk
        BY <2>1
  <2>3. BarShape'
    <3>1. waits' \in Seq(Waits) /\ running' \subseteq running  BY <1>1, <2>1
    <3> QED  BY <2>1, <3>1, NothingHeld DEF BarInv
  <2>4. Honest  BY <2>1, <2>2 DEF Honest, BarInv, BarShape
  <2> QED  BY <2>2, <2>3, <2>4 DEF BarInv
<1>4. CASE toggleMic
  <2>1. /\ UNCHANGED <<waits, running, current, lastFile, next>>
        /\ UNCHANGED status \/ Says("microphone next time")
        BY <1>4 DEF toggleMic
  <2>2. UNCHANGED status \/ status'.says = "microphone next time"  BY <2>1, SaysSo
  <2> QED  BY <1>1, <2>1, <2>2, KeepsHold
<1>5. CASE RecorderWrites
  <2>1. UNCHANGED <<waits, running, current, lastFile, next, status>>
        BY <1>5 DEF RecorderWrites
  <2> QED  BY <1>1, <2>1, KeepsHold
<1>6. CASE RecorderEnds
  <2>1. running' \subseteq running /\ UNCHANGED <<waits, current, lastFile, next, status>>
        BY <1>6 DEF RecorderEnds
  <2> QED  BY <1>1, <2>1, KeepsHold
<1>7. CASE UNCHANGED barVars  BY <1>7 DEF barVars, BarInv, BarShape
<1> QED  BY <1>2, <1>3, <1>4, <1>5, <1>6, <1>7, StartKeeps, HandshakeKeeps, AnswerKeeps
         DEF BarNext, toggleRecording

(* For any number of files and of handshakes inside each other, whenever     *)
(* Record is clicked: the panel loses a recorder only where one handshake    *)
(* returns after another started it; what it says was saved is there and no  *)
(* older than the recording; and it does not say it records when it cannot   *)
(* stop (GameBarModel, portal.session).                                      *)
THEOREM CapturesAreHonest == BarSpec => CaptureIsHonest
<1>1. BarInit => BarInv
  <2> SUFFICES ASSUME BarInit PROVE BarInv  OBVIOUS
  <2>1. waits \in Seq(Waits)  BY EmptySeq DEF BarInit
  <2>2. status.says = ""  BY DEF BarInit
  <2>3. running = {} /\ current = 0 /\ lastFile = 0 /\ next = 1  BY DEF BarInit, NoFile
  <2>4. 0 \in Nat /\ 1 \in Nat \ {0} /\ 0 <= 0 /\ 0 < 1 /\ {} \subseteq Nat \ {0}  OBVIOUS
  <2>5. BarShape  BY <2>1, <2>3, <2>4, Zenon DEF BarShape
  <2> QED  BY <2>2, <2>5 DEF BarInv
<1>2. BarInv /\ [BarNext]_barVars => BarInv'  BY BarKeeps
<1>3. BarInv /\ [BarNext]_barVars => [Honest]_barVars  BY BarKeeps
<1> QED  BY <1>1, <1>2, <1>3, PTL DEF BarSpec, CaptureIsHonest, Honest

-----------------------------------------------------------------------------
(* Who may replace a notification.                                           *)

NotifyShape ==
    /\ session \in Nat /\ next_id \in Nat \ {0}
    /\ live \in [Numbers -> Apps \cup {NoSender}]
    /\ given \in [Apps -> SUBSET Nat]
(* The counter is past every number it gave, and gave none twice.            *)
Counted ==
    /\ \A a \in Apps : \A n \in given[a] : n < next_id
    /\ \A a, b \in Apps : a = b \/ given[a] \cap given[b] = {}
NotifyInv == NotifyShape /\ Counted

ReplacedByName ==
    /\ \A n \in Live : \/ live'[n] = live[n] \/ session' # session
                       \/ said'.by \in {"user", live[n]} \/ said'.names = n
                       \/ \A a \in Apps : n \notin given[a]
    /\ \A a, b \in Apps : a = b \/ given'[a] \cap given'[b] = {}

(* A new number: nobody was given it, so whoever holds it had named it.      *)
LEMMA NewKeeps ==
    ASSUME NotifyInv, NEW a \in Apps, NEW u, Notify(a, u, 0)
    PROVE  NotifyInv' /\ ReplacedByName
<1>1. /\ next_id' = next_id + 1 /\ live' = [live EXCEPT ![next_id] = a]
      /\ given' = [given EXCEPT ![a] = @ \cup {next_id}] /\ session' = session
      BY DEF Notify
<1>2. /\ session \in Nat /\ next_id \in Nat \ {0} /\ next_id + 1 \in Nat \ {0}
      /\ live \in [Numbers -> Apps \cup {NoSender}] /\ given \in [Apps -> SUBSET Nat]
      /\ \A b \in Apps : \A n \in given[b] : n < next_id /\ n \in Nat
      /\ \A b, c \in Apps : b = c \/ given[b] \cap given[c] = {}
      BY DEF NotifyInv, NotifyShape, Counted
<1>3. \A b \in Apps : given'[b] = IF b = a THEN given[b] \cup {next_id} ELSE given[b]
      BY <1>1, <1>2
<1>4. \A b \in Apps : next_id \notin given[b]  BY <1>2
<1>5. NotifyShape'
  <2>1. live' \in [Numbers -> Apps \cup {NoSender}]  BY <1>1, <1>2
  <2>2. given' \in [Apps -> SUBSET Nat]  BY <1>1, <1>2
  <2> QED  BY <1>1, <1>2, <2>1, <2>2 DEF NotifyShape, Numbers
<1>6. Counted'
  <2>1. \A b \in Apps : \A n \in given'[b] : n < next_id + 1
    <3> TAKE b \in Apps
    <3> TAKE n \in given'[b]
    <3>1. n \in given[b] \/ n = next_id  BY <1>3
    <3> QED  BY <1>2, <3>1
  <2>2. \A b, c \in Apps : b = c \/ given'[b] \cap given'[c] = {}
    <3> SUFFICES ASSUME NEW b \in Apps, NEW c \in Apps, b # c
                 PROVE  given'[b] \cap given'[c] = {}
        OBVIOUS
    <3>1. given[b] \cap given[c] = {}  BY <1>2
    <3>2. CASE b = a  BY <1>3, <1>4, <3>1, <3>2
    <3>3. CASE c = a  BY <1>3, <1>4, <3>1, <3>3
    <3>4. CASE b # a /\ c # a  BY <1>3, <3>1, <3>4
    <3> QED  BY <3>2, <3>3, <3>4
  <2> QED  BY <1>1, <2>1, <2>2 DEF Counted
<1>7. \A n \in Live : live'[n] = live[n] \/ \A b \in Apps : n \notin given[b]
  <2> TAKE n \in Live
  <2>1. n # next_id => live'[n] = live[n]  BY <1>1, <1>2 DEF Live
  <2> QED  BY <1>4, <2>1
<1> QED  BY <1>5, <1>6, <1>7 DEF NotifyInv, Counted, ReplacedByName

(* A number that the call names: the counter and what it gave stay.          *)
LEMMA NamedKeeps ==
    ASSUME NotifyInv, NEW n \in Numbers, NEW holder \in Apps \cup {NoSender},
           live' = [live EXCEPT ![n] = holder], said'.names = n \/ said'.by = "user",
           UNCHANGED <<next_id, given, session>>
    PROVE  NotifyInv' /\ ReplacedByName
<1>1. live \in [Numbers -> Apps \cup {NoSender}]  BY DEF NotifyInv, NotifyShape
<1>2. live' \in [Numbers -> Apps \cup {NoSender}]  BY <1>1
<1>3. \A m \in Live : m = n \/ live'[m] = live[m]  BY <1>1 DEF Live
<1>4. NotifyInv'  BY <1>2 DEF NotifyInv, NotifyShape, Counted, Numbers
<1> QED  BY <1>3, <1>4 DEF NotifyInv, Counted, ReplacedByName

LEMMA NotifyKeeps ==
    ASSUME NotifyInv, [NotifyNext]_notifyVars
    PROVE  NotifyInv' /\ [ReplacedByName]_notifyVars
<1>1. CASE NotifyNew  BY <1>1, NewKeeps DEF NotifyNew
<1>2. CASE NotifyAgain
  <2>1. PICK a \in Apps, u \in Urgencies, n \in Numbers : Notify(a, u, n)
        BY <1>2 DEF NotifyAgain
  <2>2. n # 0  BY DEF Numbers
  <2>3. live' = [live EXCEPT ![n] = a] /\ UNCHANGED <<next_id, given, session>>
        BY <2>1, <2>2 DEF Notify
  <2>4. said' = [what |-> "Notify", by |-> a, names |-> n, note |-> Notification(a, u)]
        BY <2>1, Zenon DEF Notify
  <2>5. said'.names = n  BY <2>4
  <2> QED  BY <2>3, <2>5, NamedKeeps
<1>3. CASE CloseNotification
  <2>1. PICK a \in Apps, n \in Numbers : close(n, a)  BY <1>3 DEF CloseNotification
  <2>2. /\ live' = [live EXCEPT ![n] = NoSender] /\ said'.names = n
        /\ UNCHANGED <<next_id, given, session>>
        BY <2>1 DEF close
  <2> QED  BY <2>2, NamedKeeps
<1>4. CASE Dismiss
  <2>1. PICK n \in Live : close(n, "user")  BY <1>4 DEF Dismiss
  <2>2. /\ live' = [live EXCEPT ![n] = NoSender] /\ said'.names = n
        /\ UNCHANGED <<next_id, given, session>>
        BY <2>1 DEF close
  <2>3. n \in Numbers  BY DEF Live
  <2> QED  BY <2>2, <2>3, NamedKeeps
<1>5. CASE Switch
  <2>1. UNCHANGED <<live, next_id, given, session>>  BY <1>5 DEF Switch
  <2> QED  BY <2>1 DEF NotifyInv, NotifyShape, Counted, ReplacedByName, Numbers
<1>6. CASE ServerRestart
  <2>1. /\ session' = session + 1 /\ live' = [n \in Numbers |-> NoSender] /\ next_id' = 1
        /\ given' = [a \in Apps |-> {}]
        BY <1>6 DEF ServerRestart
  <2>2. session' # session /\ session' \in Nat
        BY <2>1 DEF NotifyInv, NotifyShape
  <2>3. live' \in [Numbers -> Apps \cup {NoSender}] /\ given' \in [Apps -> SUBSET Nat]
        BY <2>1
  <2>4. NotifyShape'  BY <2>1, <2>2, <2>3 DEF NotifyShape, Numbers
  <2>5. Counted'  BY <2>1 DEF Counted
  <2> QED  BY <2>1, <2>2, <2>4, <2>5 DEF NotifyInv, ReplacedByName
<1>7. CASE UNCHANGED notifyVars
      BY <1>7 DEF notifyVars, NotifyInv, NotifyShape, Counted, Numbers
<1> QED  BY <1>1, <1>2, <1>3, <1>4, <1>5, <1>6, <1>7 DEF NotifyNext

(* For any senders, any numbers they name and any number of restarts: what   *)
(* one sender holds under a number of the counter no other takes without     *)
(* naming that number, and the counter gives no two senders one number       *)
(* (NotificationServer._notify and close).                                   *)
THEOREM SendersAreApart == NotifySpec => OnlyWhoNamesItReplaces
<1>1. NotifyInit => NotifyInv
      BY DEF NotifyInit, NotifyInv, NotifyShape, Counted
<1>2. NotifyInv /\ [NotifyNext]_notifyVars => NotifyInv'  BY NotifyKeeps
<1>3. NotifyInv /\ [NotifyNext]_notifyVars =>
        [/\ \A n \in Live : \/ live'[n] = live[n] \/ session' # session
                            \/ said'.by \in {"user", live[n]} \/ said'.names = n
                            \/ \A a \in Apps : n \notin given[a]
         /\ \A a, b \in Apps : a = b \/ given'[a] \cap given'[b] = {}]_notifyVars
      BY NotifyKeeps DEF ReplacedByName
<1> QED  BY <1>1, <1>2, <1>3, PTL DEF NotifySpec, OnlyWhoNamesItReplaces

-----------------------------------------------------------------------------
(* What the Task Manager says of a process.                                  *)

Held == [born : Nat, used : Nat, name : ProcessNames \cup {0}]
Clock == Nat \cup {NoNumber}

(* The table of processes: a number is never given twice.                    *)
Table(held) ==
    /\ held \in [Pids -> Held]
    /\ \A pid \in Pids : /\ held[pid].born <= births
                         /\ held[pid] # Gone => held[pid].born > 0
(* What the sampler remembers, against who held each pid when it looked: a   *)
(* counter of the same process has only grown since.                         *)
TaskShape ==
    /\ births \in Nat /\ now \in Nat /\ Table(procs) /\ Table(marks)
    /\ previous \in [cpu : [Pids -> Clock], at : Clock]
    /\ \A pid \in Pids :
          /\ previous.cpu[pid] = IF marks[pid] = Gone THEN NoNumber ELSE marks[pid].used
          /\ marks[pid].born = procs[pid].born => marks[pid].used <= procs[pid].used
TaskInv == TaskShape /\ SharesAreEarned

LEMMA GoneIsHeld == Gone \in Held /\ Gone.born = 0 /\ Gone.used = 0  BY DEF Gone, Held

LEMMA MaxOfTwo == \A a, b \in Int : Max({a, b}) = IF a >= b THEN a ELSE b
<1> SUFFICES ASSUME NEW a \in Int, NEW b \in Int PROVE Max({a, b}) = IF a >= b THEN a ELSE b
    OBVIOUS
<1> DEFINE m == IF a >= b THEN a ELSE b
<1>1. m \in {a, b} /\ \A y \in {a, b} : m >= y  OBVIOUS
<1>2. \A x \in {a, b} : (\A y \in {a, b} : x >= y) => x = m  OBVIOUS
<1> QED  BY <1>1, <1>2 DEF Max

LEMMA MoreIsNotLess ==
    ASSUME NEW a \in Nat, NEW b \in Nat, a <= b, NEW e \in Nat, e > 0
    PROVE  (100 * a) \div e <= (100 * b) \div e
<1> DEFINE x == (100 * a) \div e
           y == (100 * b) \div e
<1>1. x \in Nat /\ y \in Nat  OBVIOUS
<1>2. e * x <= 100 * a  OBVIOUS
<1>3. 100 * b < e * (y + 1)  OBVIOUS
<1>4. e * x < e * (y + 1)  BY <1>2, <1>3
<1> QED  BY <1>1, <1>4

(* Whoever holds the pids now: a share is of what the row's process used.    *)
LEMMA SampleIsEarned ==
    ASSUME TaskShape, NEW held, Table(held),
           \A pid \in Pids : marks[pid].born = held[pid].born => marks[pid].used <= held[pid].used,
           NEW row \in sample(held)
    PROVE  LET used == (100 * row.own) \div row.span IN
           /\ row.cpu # NoNumber <=> row.both /\ row.span > 0
           /\ row.cpu # NoNumber => row.cpu \in 0 .. used /\ (row.same => row.cpu = used)
<1>1. PICK pid \in Pids :
        /\ row.cpu = Share(held[pid], pid, Elapsed)
        /\ row.own = held[pid].used - (IF marks[pid].born = held[pid].born THEN marks[pid].used ELSE 0)
        /\ row.both = (marks[pid] # Gone) /\ row.same = (marks[pid].born = held[pid].born)
        /\ row.span = Elapsed
      BY DEF sample, Listed
<1> DEFINE used == held[pid].used
           was == previous.cpu[pid]
<1>2. /\ used \in Nat /\ held[pid].born \in Nat /\ marks[pid].used \in Nat
      BY DEF TaskShape, Table, Held
<1>3. was # NoNumber <=> row.both
  <2>1. was = IF marks[pid] = Gone THEN NoNumber ELSE marks[pid].used  BY DEF TaskShape
  <2>2. CASE marks[pid] = Gone
    <3>1. was = NoNumber /\ ~row.both  BY <1>1, <2>1, <2>2
    <3> QED  BY <3>1
  <2>3. CASE marks[pid] # Gone
    <3>1. was \in Nat /\ row.both  BY <1>1, <1>2, <2>1, <2>3
    <3> QED  BY <3>1 DEF NoNumber
  <2> QED  BY <2>2, <2>3
<1>4. Elapsed \in Int
  <2>1. previous.at \in Clock /\ now \in Nat  BY DEF TaskShape
  <2> QED  BY <2>1 DEF Elapsed, Clock, NoNumber
<1>5. CASE ~(was # NoNumber /\ Elapsed > 0)
  <2>1. row.cpu = NoNumber  BY <1>1, <1>5 DEF Share
  <2> QED  BY <1>1, <1>3, <1>5, <2>1
<1>6. CASE was # NoNumber /\ Elapsed > 0
  <2> DEFINE part == Max({used - was, 0})
  <2>1. row.cpu = (100 * part) \div Elapsed  BY <1>1, <1>6 DEF Share
  <2>2. was = marks[pid].used  BY <1>6 DEF TaskShape
  <2>3. part = IF used - was >= 0 THEN used - was ELSE 0  BY <1>2, <2>2, MaxOfTwo
  <2>4. row.own \in Nat /\ part \in Nat /\ part <= row.own /\ (row.same => part = row.own)
    <3>1. CASE marks[pid].born = held[pid].born
      <4>1. was <= used /\ row.own = used - was  BY <1>1, <2>2, <3>1
      <4> QED  BY <1>2, <2>2, <2>3, <4>1
    <3>2. CASE marks[pid].born # held[pid].born
      <4>1. row.own = used - 0 /\ ~row.same  BY <1>1, <3>2
      <4> QED  BY <1>2, <2>2, <2>3, <4>1
    <3> QED  BY <3>1, <3>2
  <2> HIDE DEF part, was, used
  <2>5. Elapsed \in Nat /\ Elapsed > 0  BY <1>4, <1>6
  <2>6. row.cpu \in Nat /\ row.cpu <= (100 * row.own) \div row.span
    <3>1. (100 * part) \div Elapsed \in Nat /\ (100 * row.own) \div Elapsed \in Nat
          BY <2>4, <2>5
    <3> QED  BY <1>1, <2>1, <2>4, <2>5, <3>1, MoreIsNotLess
  <2>7. row.same => row.cpu = (100 * row.own) \div row.span  BY <1>1, <2>1, <2>4
  <2>8. (100 * row.own) \div row.span \in Int  BY <1>1, <2>4, <2>5
  <2>9. row.cpu # NoNumber  BY <2>6 DEF NoNumber
  <2> QED  BY <1>1, <1>3, <1>6, <2>6, <2>7, <2>8, <2>9
<1> QED  BY <1>5, <1>6

(* Reading the list again.                                                   *)
LEMMA RefreshKeeps ==
    ASSUME TaskShape, RefreshTasks(procs'), Table(procs)', UNCHANGED <<births, now>>,
           \A pid \in Pids : marks[pid].born = procs'[pid].born => marks[pid].used <= procs'[pid].used
    PROVE  TaskInv'
<1>1. /\ snapshot' = sample(procs') /\ marks' = procs'
      /\ previous'.cpu = [pid \in Pids |-> IF pid \in Listed(procs') THEN procs'[pid].used
                                           ELSE NoNumber]
      /\ previous'.at = now
      /\ previous' = [cpu |-> previous'.cpu, at |-> now]
      BY DEF RefreshTasks
<1>2. births \in Nat /\ now \in Nat  BY DEF TaskShape
<1>3. procs' \in [Pids -> Held] /\ \A pid \in Pids : procs'[pid].used \in Nat
      BY DEF Table, Held
<1>4. previous' \in [cpu : [Pids -> Clock], at : Clock]  BY <1>1, <1>2, <1>3 DEF Clock
<1>5. Table(procs') /\ Table(marks)'
  <2>1. Table(procs')  BY DEF Table
  <2> QED  BY <1>1 DEF Table
<1>6. \A pid \in Pids :
          /\ previous'.cpu[pid] = IF marks'[pid] = Gone THEN NoNumber ELSE marks'[pid].used
          /\ marks'[pid].born = procs'[pid].born => marks'[pid].used <= procs'[pid].used
      BY <1>1, <1>3 DEF Listed
<1>7. TaskShape'  BY <1>2, <1>4, <1>5, <1>6 DEF TaskShape
<1>8. SharesAreEarned'  BY <1>1, <1>5, SampleIsEarned DEF SharesAreEarned
<1> QED  BY <1>7, <1>8 DEF TaskInv

(* Some processes end, and nothing else happens.                             *)
LEMMA EndingKeeps ==
    ASSUME TaskShape, births' = births, procs' \in [Pids -> Held],
           \A pid \in Pids : procs'[pid] \in {procs[pid], Gone}
    PROVE  /\ Table(procs)'
           /\ \A pid \in Pids : marks[pid].born = procs'[pid].born
                                   => marks[pid].used <= procs'[pid].used
<1>1. /\ births \in Nat /\ Table(procs) /\ Table(marks)
      /\ \A pid \in Pids : marks[pid].born = procs[pid].born => marks[pid].used <= procs[pid].used
      BY DEF TaskShape
<1>2. \A pid \in Pids : marks[pid] \in Held /\ marks[pid].used \in Nat
      BY <1>1 DEF Table, Held
<1>3. Table(procs)'  BY <1>1, GoneIsHeld DEF Table
<1>4. ASSUME NEW pid \in Pids, marks[pid].born = procs'[pid].born
      PROVE  marks[pid].used <= procs'[pid].used
  <2>1. CASE procs'[pid] = procs[pid]  BY <1>1, <1>4, <2>1
  <2>2. CASE procs'[pid] = Gone
    <3>1. marks[pid].born = 0  BY <1>4, <2>2, GoneIsHeld
    <3>2. ~(0 > 0)  OBVIOUS
    <3>3. marks[pid] = Gone  BY <1>1, <3>1, <3>2 DEF Table
    <3> QED  BY <2>2, <3>3, GoneIsHeld
  <2> QED  BY <2>1, <2>2
<1> QED  BY <1>3, <1>4

LEMMA TaskKeeps == ASSUME TaskInv, [TaskNext]_taskVars PROVE TaskInv'
<1> USE DEF TaskInv
<1>1. /\ births \in Nat /\ now \in Nat /\ Table(procs) /\ Table(marks)
      /\ previous \in [cpu : [Pids -> Clock], at : Clock]
      /\ \A pid \in Pids :
          /\ previous.cpu[pid] = IF marks[pid] = Gone THEN NoNumber ELSE marks[pid].used
          /\ marks[pid].born = procs[pid].born => marks[pid].used <= procs[pid].used
      BY DEF TaskShape
<1>2. procs \in [Pids -> Held]  BY <1>1 DEF Table
<1>3. ASSUME Table(procs)', births' \in Nat, now' \in Nat, births <= births',
             UNCHANGED <<previous, snapshot, marks>>,
             \A pid \in Pids : marks[pid].born = procs'[pid].born
                                  => marks[pid].used <= procs'[pid].used
      PROVE  TaskInv'
  <2>1. Table(marks)'
    <3>1. marks \in [Pids -> Held] /\ \A pid \in Pids : marks[pid].born \in Nat
          BY <1>1 DEF Table, Held
    <3>2. \A pid \in Pids : marks[pid].born <= births'  BY <1>1, <1>3, <3>1 DEF Table
    <3> QED  BY <1>1, <1>3, <3>2 DEF Table
  <2> QED  BY <1>1, <1>3, <2>1 DEF TaskShape, SharesAreEarned
<1>4. ASSUME NEW pid \in Pids, Spawn(pid) PROVE TaskInv'
  <2>1. births' = births + 1 /\ now' = now /\ UNCHANGED <<previous, snapshot, marks>>
        BY <1>4 DEF Spawn
  <2>2. PICK name \in ProcessNames :
           procs' = [procs EXCEPT ![pid] = [born |-> births + 1, used |-> 0, name |-> name]]
        BY <1>4 DEF Spawn
  <2> DEFINE new == [born |-> births + 1, used |-> 0, name |-> name]
  <2>3. new \in Held /\ new.born = births + 1  BY <1>1 DEF Held
  <2>4. \A p \in Pids : procs'[p] = IF p = pid THEN new ELSE procs[p]  BY <1>2, <2>2
  <2>5. procs' \in [Pids -> Held]  BY <1>2, <2>2, <2>3
  <2> HIDE DEF new
  <2>6. \A p \in Pids : /\ procs[p].born \in Nat /\ procs[p].born <= births
                        /\ procs[p] # Gone => procs[p].born > 0
                        /\ marks[p].born \in Nat /\ marks[p].born <= births
        BY <1>1 DEF Table, Held
  <2>7. Table(procs)'  BY <1>1, <2>1, <2>3, <2>4, <2>5, <2>6 DEF Table
  <2>8. \A p \in Pids : marks[p].born = procs'[p].born => marks[p].used <= procs'[p].used
        BY <1>1, <2>3, <2>4, <2>6
  <2> QED  BY <1>1, <1>3, <2>1, <2>7, <2>8
<1>5. ASSUME NEW pid \in Pids, Exit(pid) PROVE TaskInv'
  <2>1. /\ procs' = [procs EXCEPT ![pid] = Gone]
        /\ UNCHANGED <<births, now, previous, snapshot, marks>>
        BY <1>5 DEF Exit
  <2>2. procs' \in [Pids -> Held] /\ \A p \in Pids : procs'[p] \in {procs[p], Gone}
        BY <1>2, <2>1, GoneIsHeld
  <2> QED  BY <1>1, <1>3, <2>1, <2>2, EndingKeeps
<1>6. CASE Tick
  <2>1. now' = now + 1 /\ UNCHANGED <<births, previous, snapshot, marks>>  BY <1>6 DEF Tick
  <2>2. PICK busy \in SUBSET Listed(procs) :
           procs' = [pid \in Pids |-> IF pid \in busy
                                     THEN [procs[pid] EXCEPT !.used = @ + 1] ELSE procs[pid]]
        BY <1>6 DEF Tick
  <2>3. \A p \in Pids : /\ procs[p] \in Held /\ procs[p].born \in Nat /\ procs[p].used \in Nat
                        /\ marks[p].used \in Nat
                        /\ procs[p].born <= births /\ (procs[p] # Gone => procs[p].born > 0)
        BY <1>1 DEF Table, Held
  <2>4. ASSUME NEW p \in Pids
        PROVE  /\ procs'[p] \in Held /\ procs'[p].born = procs[p].born
               /\ procs'[p].used >= procs[p].used /\ (procs[p] = Gone => procs'[p] = Gone)
    <3>1. CASE p \in busy
      <4>1. procs'[p] = [procs[p] EXCEPT !.used = @ + 1]  BY <2>2, <3>1
      <4>2. procs[p] # Gone  BY <3>1 DEF Listed
      <4>3. procs[p] \in [born : Nat, used : Nat, name : ProcessNames \cup {0}]
            BY <2>3 DEF Held
      <4> QED  BY <2>3, <4>1, <4>2, <4>3 DEF Held
    <3>2. CASE p \notin busy
      <4>1. procs'[p] = procs[p]  BY <2>2, <3>2
      <4> QED  BY <2>3, <4>1
    <3> QED  BY <3>1, <3>2
  <2>5. procs' \in [Pids -> Held]  BY <2>2, <2>4
  <2>6. Table(procs)'
    <3>1. \A p \in Pids : procs'[p] # Gone => procs'[p].born > 0  BY <2>3, <2>4
    <3>2. \A p \in Pids : procs'[p].born <= births'  BY <2>1, <2>3, <2>4
    <3> QED  BY <2>5, <3>1, <3>2 DEF Table
  <2>7. ASSUME NEW p \in Pids, marks[p].born = procs'[p].born
        PROVE  marks[p].used <= procs'[p].used
    <3>1. marks[p].used <= procs[p].used /\ procs[p].used <= procs'[p].used
          BY <1>1, <2>4, <2>7
    <3>2. procs'[p].used \in Nat  BY <2>4 DEF Held
    <3> QED  BY <2>3, <3>1, <3>2
  <2>8. births' \in Nat /\ now' \in Nat /\ births <= births'  BY <1>1, <2>1
  <2> QED  BY <1>3, <2>1, <2>6, <2>7, <2>8
<1>7. CASE Timeout
  <2>1. RefreshTasks(procs) /\ UNCHANGED <<procs, births, now>>  BY <1>7 DEF Timeout
  <2>2. RefreshTasks(procs') /\ Table(procs)'  BY <1>1, <2>1 DEF Table
  <2> QED  BY <1>1, <2>1, <2>2, RefreshKeeps
<1>8. ASSUME NEW on \in BOOLEAN, setActive(on) PROVE TaskInv'
  <2>1. UNCHANGED <<procs, births, now>>  BY <1>8 DEF setActive
  <2>2. RefreshTasks(procs) \/ UNCHANGED <<snapshot, previous, marks>>
        BY <1>8 DEF setActive
  <2>3. Table(procs)'  BY <1>1, <2>1 DEF Table
  <2>4. CASE RefreshTasks(procs)
    <3>1. RefreshTasks(procs')  BY <2>1, <2>4
    <3> QED  BY <1>1, <2>1, <2>3, <3>1, RefreshKeeps
  <2>5. CASE UNCHANGED <<snapshot, previous, marks>>  BY <1>1, <1>3, <2>1, <2>3, <2>5
  <2> QED  BY <2>2, <2>4, <2>5
<1>9. ASSUME NEW v, View(v) PROVE TaskInv'
  <2>1. UNCHANGED <<procs, births, now, previous, snapshot, marks>>  BY <1>9 DEF View
  <2>2. Table(procs)'  BY <1>1, <2>1 DEF Table
  <2> QED  BY <1>1, <1>3, <2>1, <2>2
<1>10. ASSUME NEW index \in DOMAIN tasks, endTask(index) PROVE TaskInv'
  <2>1. end(tasks[index].pid) /\ RefreshTasks(procs') /\ UNCHANGED <<births, now>>
        BY <1>10 DEF endTask
  <2>2. procs' = procs \/ procs' = [procs EXCEPT ![tasks[index].pid] = Gone]
        BY <2>1 DEF end
  <2>3. procs' \in [Pids -> Held] /\ \A p \in Pids : procs'[p] \in {procs[p], Gone}
        BY <1>2, <2>2, GoneIsHeld
  <2> QED  BY <2>1, <2>3, EndingKeeps, RefreshKeeps
<1>11. CASE UNCHANGED taskVars
  <2>1. UNCHANGED <<procs, births, now, previous, snapshot, marks>>  BY <1>11 DEF taskVars
  <2>2. Table(procs)'  BY <1>1, <2>1 DEF Table
  <2> QED  BY <1>1, <1>3, <2>1, <2>2
<1> QED  BY <1>4, <1>5, <1>6, <1>7, <1>8, <1>9, <1>10, <1>11 DEF TaskNext, search, sortBy

(* For any pids and clock, and however pids are handed on between samples: a *)
(* share is shown exactly for a pid held at two samples with time between,   *)
(* is exact for one process, and never more than the row's own process used  *)
(* (processes.Sampler.sample).                                               *)
THEOREM NobodyPaysForAnother == TaskSpec => []SharesAreEarned
<1>1. TaskInit => TaskInv
  <2> SUFFICES ASSUME TaskInit PROVE TaskInv  OBVIOUS
  <2>1. /\ procs = [pid \in Pids |-> Gone] /\ marks = [pid \in Pids |-> Gone]
        /\ births = 0 /\ now = 0 /\ snapshot = {}
        /\ previous = [cpu |-> [pid \in Pids |-> NoNumber], at |-> NoNumber]
        BY DEF TaskInit, Unsampled
  <2>2. Table(procs) /\ Table(marks)  BY <2>1, GoneIsHeld DEF Table
  <2>3. \A pid \in Pids : previous.cpu[pid] = NoNumber  BY <2>1
  <2>4. previous \in [cpu : [Pids -> Clock], at : Clock]  BY <2>1 DEF Clock
  <2>5. \A pid \in Pids : marks[pid] = Gone /\ procs[pid] = Gone  BY <2>1
  <2>6. TaskShape  BY <2>1, <2>2, <2>3, <2>4, <2>5, GoneIsHeld DEF TaskShape
  <2> QED  BY <2>1, <2>6 DEF TaskInv, SharesAreEarned
<1>2. TaskInv /\ [TaskNext]_taskVars => TaskInv'  BY TaskKeeps
<1>3. TaskInv => SharesAreEarned  BY DEF TaskInv
<1> QED  BY <1>1, <1>2, <1>3, PTL DEF TaskSpec

-----------------------------------------------------------------------------
(* What the pane of Zaldros Slides shows of the deck.                        *)

DeckTexts == SlideTexts \cup {""}
DeckSlides == [id : Nat, title : DeckTexts, body : DeckTexts, notes : DeckTexts, layout : LAYOUTS]
DeckShape ==
    /\ deckEdits \in Nat /\ deck \in Seq(DeckSlides) /\ slides \in Seq(DeckSlides)
    /\ notes.text \in DeckTexts /\ notes = [text |-> notes.text, of |-> notes.of]
    /\ slide \in Nat \ {0} /\ Len(deck) > 0
DeckInv == DeckShape /\ PaneIsTheDeck

LEMMA LeastOfTwo == \A a, b \in Int : Min({a, b}) = IF a <= b THEN a ELSE b
<1> SUFFICES ASSUME NEW a \in Int, NEW b \in Int PROVE Min({a, b}) = IF a <= b THEN a ELSE b
    OBVIOUS
<1> DEFINE m == IF a <= b THEN a ELSE b
<1>1. m \in {a, b} /\ \A y \in {a, b} : m <= y  OBVIOUS
<1>2. \A x \in {a, b} : (\A y \in {a, b} : x <= y) => x = m  OBVIOUS
<1> QED  BY <1>1, <1>2 DEF Min

LEMMA SameLength == \A m, n \in Nat : 1 .. m = 1 .. n => m = n
<1> SUFFICES ASSUME NEW m \in Nat, NEW n \in Nat, 1 .. m = 1 .. n PROVE m = n  OBVIOUS
<1>1. m < n => n \in 1 .. n /\ n \notin 1 .. m  OBVIOUS
<1>2. n < m => m \in 1 .. m /\ m \notin 1 .. n  OBVIOUS
<1> QED  BY <1>1, <1>2

LEMMA OneElement == \A S : \A x \in S : <<x>> \in Seq(S) /\ Len(<<x>>) = 1 /\ <<x>>[1] = x
                                       /\ DOMAIN <<x>> = 1 .. 1
  OBVIOUS

LEMMA SameIds ==
    ASSUME NEW p \in Seq(DeckSlides), NEW q \in Seq(DeckSlides)
    PROVE  /\ Ids(p) = Ids(q) => /\ Len(p) = Len(q)
                                 /\ \A i \in 1 .. Len(p) : p[i].id = q[i].id
           /\ Len(p) = Len(q) /\ (\A i \in 1 .. Len(p) : p[i].id = q[i].id) => Ids(p) = Ids(q)
<1>1. DOMAIN p = 1 .. Len(p) /\ DOMAIN q = 1 .. Len(q) /\ Len(p) \in Nat /\ Len(q) \in Nat
      BY LenProperties
<1>2. /\ DOMAIN Ids(p) = DOMAIN p /\ \A i \in DOMAIN p : Ids(p)[i] = p[i].id
      /\ DOMAIN Ids(q) = DOMAIN q /\ \A i \in DOMAIN q : Ids(q)[i] = q[i].id
      BY Zenon DEF Ids
<1>3. ASSUME Ids(p) = Ids(q) PROVE Len(p) = Len(q) /\ \A i \in 1 .. Len(p) : p[i].id = q[i].id
  <2>1. DOMAIN p = DOMAIN q  BY <1>2, <1>3, Zenon
  <2>2. 1 .. Len(p) = 1 .. Len(q)  BY <1>1, <2>1, Zenon
  <2>3. Len(p) = Len(q)  BY <1>1, <2>2, SameLength, Zenon
  <2>4. \A i \in 1 .. Len(p) : p[i].id = Ids(p)[i] /\ q[i].id = Ids(q)[i]
        BY <1>1, <1>2, <2>1, ZenonT(60)
  <2> QED  BY <1>3, <2>3, <2>4, Zenon
<1>4. ASSUME Len(p) = Len(q), \A i \in 1 .. Len(p) : p[i].id = q[i].id PROVE Ids(p) = Ids(q)
  BY <1>1, <1>4 DEF Ids
<1> QED  BY <1>3, <1>4

(* The deck is read again, and the selection is brought back into it, or the *)
(* reading raises.                                                           *)
LEMMA ReadAgain ==
    ASSUME DeckShape, NEW at \in Nat, at > 0, deck' \in Seq(DeckSlides), Len(deck') > 0,
           deckEdits' \in Nat, refresh(at)
    PROVE  DeckInv'
<1>1. CASE slide' = at /\ unheard' = TRUE /\ UNCHANGED <<slides, deckStatus, notes>>
      BY <1>1 DEF DeckInv, DeckShape, PaneIsTheDeck
<1>2. CASE Emit(deck', Min({at, Len(deck')}), "") /\ unheard' = FALSE
  <2>1. Len(deck') \in Nat  BY LenProperties
  <2> DEFINE here == Min({at, Len(deck')})
  <2>2. here \in 1 .. Len(deck')
    <3>1. here = IF at <= Len(deck') THEN at ELSE Len(deck')  BY <2>1, LeastOfTwo
    <3> QED  BY <2>1, <3>1
  <2> HIDE DEF here
  <2>3. deck'[here] \in DeckSlides /\ DOMAIN deck' = 1 .. Len(deck')
        BY <2>2, ElementOfSeq, LenProperties
  <2>4. /\ slides' = deck' /\ slide' = here /\ deckStatus' = ""
        /\ notes' = [text |-> deck'[here].notes, of |-> deck'[here].id]
        BY <1>2, <2>2, <2>3, Zenon DEF Emit, here
  <2>5. /\ notes'.text = deck'[here].notes /\ notes'.of = deck'[here].id
        /\ notes' = [text |-> notes'.text, of |-> notes'.of]
        BY <2>4
  <2>6. deck'[here].notes \in DeckTexts  BY <2>3 DEF DeckSlides
  <2>7. slide' \in Nat \ {0}
    <3>1. here \in Nat \ {0}  BY <2>1, <2>2
    <3> QED  BY <2>4, <3>1, Zenon
  <2>8. DeckShape'  BY <2>4, <2>5, <2>6, <2>7 DEF DeckShape
  <2>9. PaneIsTheDeck'  BY <2>2, <2>3, <2>4, <2>5 DEF PaneIsTheDeck
  <2> QED  BY <2>8, <2>9 DEF DeckInv
<1> QED  BY <1>1, <1>2 DEF refresh

(* The pane is told again what it shows, or that a call was refused.         *)
LEMMA ToldAgain ==
    ASSUME DeckInv, NEW at \in Nat \ {0}, NEW why, Emit(slides, at, why), unheard' = unheard,
           unheard \/ at \in 1 .. Len(deck),
           deck' \in Seq(DeckSlides), Len(deck') > 0, Ids(deck') = Ids(deck), deckEdits' \in Nat,
           why = "" => unheard \/ slides = deck'
    PROVE  DeckInv'
<1>1. deck \in Seq(DeckSlides) /\ slides \in Seq(DeckSlides)  BY DEF DeckInv, DeckShape
<1>2. /\ slides' = slides /\ slide' = at /\ deckStatus' = why
      /\ notes' = IF at \in DOMAIN slides THEN [text |-> slides[at].notes, of |-> slides[at].id]
                  ELSE [text |-> "", of |-> NoSlide]
      BY Zenon DEF Emit
<1>3. /\ notes'.text = IF at \in DOMAIN slides THEN slides[at].notes ELSE ""
      /\ at \in DOMAIN slides => notes'.of = slides[at].id
      /\ notes' = [text |-> notes'.text, of |-> notes'.of]
      BY <1>2
<1>4. notes'.text \in DeckTexts
  <2>1. CASE at \in DOMAIN slides
    <3>1. slides[at] \in DeckSlides  BY <1>1, <2>1, ElementOfSeq, LenProperties
    <3> QED  BY <1>3, <2>1, <3>1 DEF DeckSlides
  <2>2. CASE at \notin DOMAIN slides  BY <1>3, <2>2 DEF DeckTexts
  <2> QED  BY <2>1, <2>2
<1>5. DeckShape'  BY <1>1, <1>2, <1>3, <1>4 DEF DeckShape
<1>6. CASE unheard  BY <1>5, <1>6 DEF DeckInv, PaneIsTheDeck
<1>7. CASE ~unheard
  <2>1. Ids(slides) = Ids(deck) /\ at \in 1 .. Len(deck)  BY <1>7 DEF DeckInv, PaneIsTheDeck
  <2>2. /\ Len(deck) \in Nat /\ Len(slides) = Len(deck) /\ Len(deck') = Len(deck)
        /\ slides[at].id = deck[at].id /\ deck'[at].id = deck[at].id
        BY <1>1, <2>1, SameIds, LenProperties
  <2>3. DOMAIN deck' = 1 .. Len(deck) /\ DOMAIN slides = 1 .. Len(deck)
        BY <1>1, <2>2, LenProperties
  <2>4. PaneIsTheDeck'  BY <1>2, <1>3, <1>7, <2>1, <2>2, <2>3 DEF PaneIsTheDeck
  <2> QED  BY <1>5, <2>4 DEF DeckInv
<1> QED  BY <1>6, <1>7

(* A call raised past the handlers.                                          *)
LEMMA RaisedUnheard ==
    ASSUME DeckInv, Raised, deck' \in Seq(DeckSlides), Len(deck') > 0, deckEdits' \in Nat
    PROVE  DeckInv'
<1>1. unheard' = (unheard \/ deck' # deck) /\ UNCHANGED <<slides, slide, deckStatus, notes>>
      BY DEF Raised
<1>2. DeckShape'  BY <1>1 DEF DeckInv, DeckShape
<1>3. CASE unheard'  BY <1>2, <1>3 DEF DeckInv, PaneIsTheDeck
<1>4. CASE ~unheard'
  <2>1. deck' = deck /\ ~unheard  BY <1>1, <1>4
  <2>2. PaneIsTheDeck'  BY <1>1, <2>1 DEF DeckInv, PaneIsTheDeck
  <2> QED  BY <1>2, <2>2 DEF DeckInv
<1> QED  BY <1>3, <1>4

(* One slide is written to: the deck keeps its length and its identities.    *)
LEMMA SlideSet ==
    ASSUME NEW d \in Seq(DeckSlides), NEW i \in 1 .. Len(d), NEW s \in DeckSlides, s.id = d[i].id
    PROVE  LET e == [d EXCEPT ![i] = s] IN
           e \in Seq(DeckSlides) /\ Len(e) = Len(d) /\ Ids(e) = Ids(d)
<1> DEFINE e == [d EXCEPT ![i] = s]
<1>1. /\ e \in Seq(DeckSlides) /\ Len(e) = Len(d)
      /\ \A j \in 1 .. Len(d) : e[j] = IF j = i THEN s ELSE d[j]
      BY ExceptSeq
<1> HIDE DEF e
<1>2. \A j \in 1 .. Len(e) : e[j].id = d[j].id  BY <1>1
<1> QED  BY <1>1, <1>2, SameIds DEF e

LEMMA NewSlide == ASSUME NEW n \in Nat, NEW l \in LAYOUTS
                  PROVE [id |-> n, title |-> "", body |-> "", notes |-> "", layout |-> l] \in DeckSlides
  BY DEF DeckSlides, DeckTexts

LEMMA SlideAdded == ASSUME NEW r \in DeckSlides, NEW m \in Nat PROVE [r EXCEPT !.id = m] \in DeckSlides
<1>1. r \in [id : Nat, title : DeckTexts, body : DeckTexts, notes : DeckTexts, layout : LAYOUTS]
      BY DEF DeckSlides
<1> QED  BY <1>1 DEF DeckSlides

LEMMA DeckKeeps == ASSUME DeckInv, [SlidesNext]_slideVars PROVE DeckInv'
<1>1. /\ DeckShape /\ PaneIsTheDeck /\ deckEdits \in Nat /\ deckEdits + 1 \in Nat
      /\ deck \in Seq(DeckSlides) /\ slides \in Seq(DeckSlides)
      /\ slide \in Nat /\ slide > 0 /\ slide \in Nat \ {0} /\ Len(deck) > 0
      /\ notes.text \in DeckTexts /\ notes = [text |-> notes.text, of |-> notes.of]
  <2>1. DeckShape /\ PaneIsTheDeck  BY Zenon DEF DeckInv
  <2>2. \A n \in Nat : n + 1 \in Nat  OBVIOUS
  <2>3. slide \in Nat \ {0} => slide \in Nat /\ slide > 0  OBVIOUS
  <2> QED  BY <2>1, <2>2, <2>3, Zenon DEF DeckShape
<1>2. /\ Len(deck) \in Nat /\ DOMAIN deck = 1 .. Len(deck)
      /\ Len(slides) \in Nat /\ DOMAIN slides = 1 .. Len(slides)
      BY <1>1, LenProperties
<1>3. DeckEdit => deckEdits' = deckEdits + 1 /\ deckEdits' \in Nat  BY <1>1 DEF DeckEdit
<1>4. unheard \/ (Ids(slides) = Ids(deck) /\ slide \in 1 .. Len(deck)
                    /\ Len(slides) = Len(deck))
      BY <1>1, <1>2, SameIds DEF PaneIsTheDeck
<1>5. ASSUME DeckEdit, deck' \in Seq(DeckSlides), Len(deck') > 0, Ids(deck') = Ids(deck),
             NEW why, why # "", DeckRefused(why)
      PROVE  DeckInv'
      BY <1>1, <1>3, <1>4, <1>5, ToldAgain DEF DeckRefused
<1>6. CASE addSlide
  <2>1. DeckEdit  BY <1>6 DEF addSlide
  <2>2. ASSUME NEW layout \in LAYOUTS
        PROVE  add_slide(deck, layout) \in Seq(DeckSlides)
               /\ Len(add_slide(deck, layout)) = Len(deck) + 1
    <3> DEFINE new == [New(layout) EXCEPT !.id = deckEdits']
    <3>1. new \in DeckSlides
      <4>1. New(layout) \in DeckSlides  BY <1>1, NewSlide, Zenon DEF New
      <4> QED  BY <1>3, <2>1, <4>1, SlideAdded
    <3>2. add_slide(deck, layout) = Append(deck, new)  BY DEF add_slide
    <3> HIDE DEF new
    <3> QED  BY <1>1, <3>1, <3>2, AppendProperties
  <2>3. "content" \in LAYOUTS /\ "blank" \in LAYOUTS  BY DEF LAYOUTS
  <2>4. deck' \in {deck, add_slide(deck, "blank"), add_slide(deck, "content")}
        BY <1>6 DEF addSlide
  <2>5. deck' \in Seq(DeckSlides) /\ Len(deck') > 0
    <3>1. CASE deck' = deck  BY <1>1, <3>1
    <3>2. CASE deck' = add_slide(deck, "blank")  BY <1>2, <2>2, <2>3, <3>2
    <3>3. CASE deck' = add_slide(deck, "content")  BY <1>2, <2>2, <2>3, <3>3
    <3> QED  BY <2>4, <3>1, <3>2, <3>3
  <2>6. Len(deck') \in Nat  BY <2>5, LenProperties
  <2>7. refresh(Len(deck')) \/ Raised  BY <1>6 DEF addSlide
  <2> QED  BY <1>1, <1>3, <2>1, <2>5, <2>6, <2>7, ReadAgain, RaisedUnheard
<1>7. ASSUME NEW i \in 1 .. MaxSlides, removeSlide(i) PROVE DeckInv'
  <2>1. DeckEdit  BY <1>7 DEF removeSlide
  <2>2. CASE i \in DOMAIN deck
    <3>1. \/ deck' = remove_slide(deck, i) /\ refresh(slide)
          \/ deck' \in {deck, remove_slide(deck, i)} /\ Raised
          BY <1>7, <2>2 DEF removeSlide
    <3>2. remove_slide(deck, i) \in Seq(DeckSlides) /\ Len(remove_slide(deck, i)) > 0
      <4> DEFINE left == remove_slide(deck, i)
      <4>1. CASE Len(deck) = 1
        <5>1. left = deck  BY <4>1, Zenon DEF remove_slide
        <5> HIDE DEF left
        <5> QED  BY <1>1, <1>2, <5>1, Zenon DEF left
      <4>2. CASE Len(deck) # 1
        <5>1. left = SubSeq(deck, 1, i - 1) \o SubSeq(deck, i + 1, Len(deck))
              BY <4>2 DEF remove_slide, RemoveAt
        <5> HIDE DEF left
        <5>2. left \in Seq(DeckSlides) /\ Len(left) = Len(deck) - 1
              BY <1>1, <1>2, <2>2, <5>1, WithoutOne, Zenon
        <5>3. Len(deck) > 1  BY <1>1, <1>2, <4>2
        <5>4. Len(left) > 0  BY <1>2, <5>2, <5>3
        <5> QED  BY <5>2, <5>4, Zenon DEF left
      <4> QED  BY <4>1, <4>2
    <3>3. deck' \in {deck, remove_slide(deck, i)}  BY <3>1
    <3>4. deck' \in Seq(DeckSlides) /\ Len(deck') > 0
      <4>1. CASE deck' = deck  BY <1>1, <4>1
      <4>2. CASE deck' = remove_slide(deck, i)  BY <3>2, <4>2
      <4> QED  BY <3>3, <4>1, <4>2
    <3> QED  BY <1>1, <1>3, <2>1, <3>1, <3>4, ReadAgain, RaisedUnheard
  <2>3. CASE i \notin DOMAIN deck
    <3>1. deck' = deck /\ DeckRefused("no such slide")  BY <1>7, <2>3 DEF removeSlide
    <3> QED  BY <1>1, <1>5, <2>1, <3>1
  <2> QED  BY <2>2, <2>3
<1>8. ASSUME NEW i \in 1 .. Len(deck), NEW s \in DeckSlides, s.id = deck[i].id
      PROVE  LET e == [deck EXCEPT ![i] = s] IN
             e \in Seq(DeckSlides) /\ Len(e) = Len(deck) /\ Ids(e) = Ids(deck)
      BY <1>1, <1>8, SlideSet, Zenon
<1>9. \A i \in 1 .. Len(deck) :
         deck[i] \in [id : Nat, title : DeckTexts, body : DeckTexts, notes : DeckTexts, layout : LAYOUTS]
      BY <1>1, ElementOfSeq DEF DeckSlides
<1>10. ASSUME NEW i \in DOMAIN deck, NEW t \in DeckTexts, NEW b \in DeckTexts
       PROVE  LET e == set_text(deck, i, t, b) IN
              e \in Seq(DeckSlides) /\ Len(e) = Len(deck) /\ Ids(e) = Ids(deck)
  <2> DEFINE s == [deck[i] EXCEPT !.title = IF HasTitle(deck[i]) THEN t ELSE @,
                                  !.body = IF HasBody(deck[i]) THEN b ELSE @]
             e == set_text(deck, i, t, b)
  <2>1. e = [deck EXCEPT ![i] = s]  BY DEF set_text
  <2>2. s \in DeckSlides /\ s.id = deck[i].id  BY <1>2, <1>9 DEF DeckSlides
  <2> HIDE DEF s, e
  <2>3. i \in 1 .. Len(deck)  BY <1>2
  <2>4. e \in Seq(DeckSlides) /\ Len(e) = Len(deck) /\ Ids(e) = Ids(deck)
        BY <1>8, <2>1, <2>2, <2>3
  <2> QED  BY <2>4 DEF e
<1>11. ASSUME NEW i \in DOMAIN deck, NEW t \in SlideTexts, NEW b \in SlideTexts, setText(i, t, b)
      PROVE  DeckInv'
  <2>1. DeckEdit  BY <1>11 DEF setText
  <2>2. t \in DeckTexts /\ b \in DeckTexts  BY DEF DeckTexts
  <2>3. deck[i].title \in DeckTexts /\ deck[i].body \in DeckTexts  BY <1>2, <1>9
  <2>4. CASE deck' = set_text(deck, i, t, b) /\ (refresh(slide) \/ DeckRefused("no placeholder"))
    <3>1. deck' \in Seq(DeckSlides) /\ Len(deck') > 0 /\ Ids(deck') = Ids(deck)
          BY <1>1, <1>10, <2>2, <2>4
    <3> QED  BY <1>1, <1>3, <1>5, <2>1, <2>4, <3>1, ReadAgain
  <2>5. CASE \E u \in {t, deck[i].title}, v \in {b, deck[i].body} :
                deck' = set_text(deck, i, u, v) /\ Raised
    <3>1. PICK u \in {t, deck[i].title}, v \in {b, deck[i].body} :
             deck' = set_text(deck, i, u, v) /\ Raised
          BY <2>5
    <3>2. u \in DeckTexts /\ v \in DeckTexts  BY <2>2, <2>3
    <3>3. deck' \in Seq(DeckSlides) /\ Len(deck') > 0  BY <1>1, <1>10, <3>1, <3>2
    <3> QED  BY <1>3, <2>1, <3>1, <3>3, RaisedUnheard
  <2> QED  BY <1>11, <2>4, <2>5 DEF setText
<1>12. ASSUME NEW i \in DOMAIN deck, NEW layout \in LAYOUTS, setLayout(i, layout) PROVE DeckInv'
  <2>1. DeckEdit  BY <1>12 DEF setLayout
  <2> DEFINE s == [deck[i] EXCEPT !.layout = layout]
             e == set_layout(deck, i, layout)
  <2>2. e = [deck EXCEPT ![i] = s]  BY DEF set_layout
  <2>3. s \in DeckSlides /\ s.id = deck[i].id  BY <1>2, <1>9 DEF DeckSlides
  <2> HIDE DEF s
  <2>4. \/ deck' = e /\ refresh(slide)
        \/ deck' \in {deck, e} /\ DeckRefused("no layout")
        BY <1>12 DEF setLayout
  <2> HIDE DEF e
  <2>5. i \in 1 .. Len(deck)  BY <1>2
  <2>6. e \in Seq(DeckSlides) /\ Len(e) = Len(deck) /\ Ids(e) = Ids(deck)
        BY <1>8, <2>2, <2>3, <2>5
  <2>7. deck' \in Seq(DeckSlides) /\ Len(deck') > 0 /\ Ids(deck') = Ids(deck)
    <3>1. CASE deck' = deck  BY <1>1, <3>1
    <3>2. CASE deck' = e  BY <1>1, <2>6, <3>2
    <3> QED  BY <2>4, <3>1, <3>2
  <2> QED  BY <1>1, <1>3, <1>5, <2>1, <2>4, <2>7, ReadAgain
<1>13. CASE setTransition
  <2>1. DeckEdit /\ deck' = deck /\ (refresh(slide) \/ DeckRefused("no transition"))
        BY <1>13 DEF setTransition
  <2> QED  BY <1>1, <1>3, <1>5, <2>1, ReadAgain
<1>14. CASE saveAs
  <2>1. DeckEdit /\ deck' = deck /\ (UNCHANGED <<slides, slide, deckStatus, notes, unheard>>
                                     \/ DeckRefused("not written"))
        BY <1>14 DEF saveAs
  <2>2. CASE UNCHANGED <<slides, slide, deckStatus, notes, unheard>>
        BY <1>1, <1>3, <2>1, <2>2 DEF DeckInv, DeckShape, PaneIsTheDeck
  <2> QED  BY <1>1, <1>5, <2>1, <2>2
<1>15. ASSUME NEW i \in 1 .. MaxSlides, selectSlide(i) PROVE DeckInv'
  <2>1. i \in DOMAIN slides /\ Emit(slides, i, deckStatus) /\ UNCHANGED <<deck, unheard, deckEdits>>
        BY <1>15 DEF selectSlide
  <2>2. deckStatus = "" => unheard \/ slides = deck  BY <1>1 DEF PaneIsTheDeck
  <2>3. i \in Nat \ {0}  BY <1>2, <2>1
  <2>4. unheard \/ i \in 1 .. Len(deck)  BY <1>2, <1>4, <2>1
  <2> QED  BY <1>1, <2>1, <2>2, <2>3, <2>4, ToldAgain
<1>16. CASE TypeNotes
  <2>1. PICK text \in SlideTexts : notes' = [notes EXCEPT !.text = text]  BY <1>16 DEF TypeNotes
  <2>2. UNCHANGED <<deck, slides, slide, deckStatus, unheard, deckEdits>>
        BY <1>16 DEF TypeNotes
  <2>3. /\ notes'.text = text /\ notes'.of = notes.of
        /\ notes' = [text |-> notes'.text, of |-> notes'.of]
        BY <1>1, <2>1
  <2>4. text \in DeckTexts  BY DEF DeckTexts
  <2> QED  BY <1>1, <2>2, <2>3, <2>4 DEF DeckInv, DeckShape, PaneIsTheDeck
<1>17. CASE setNotes
  <2>1. DeckEdit  BY <1>17 DEF setNotes
  <2>2. CASE slide \in DOMAIN deck
    <3> DEFINE s == [deck[slide] EXCEPT !.notes = notes.text]
               e == set_notes(deck, slide, notes.text)
    <3>1. e = [deck EXCEPT ![slide] = s]  BY DEF set_notes
    <3>2. s \in DeckSlides /\ s.id = deck[slide].id  BY <1>1, <1>2, <1>9, <2>2 DEF DeckSlides
    <3> HIDE DEF s
    <3>3. \/ deck' = e /\ refresh(slide)
          \/ deck' \in {deck, e} /\ Raised
          \/ UNCHANGED deck /\ DeckRefused("no notes")
          BY <1>17 DEF setNotes
    <3> HIDE DEF e
    <3>4. slide \in 1 .. Len(deck)  BY <1>2, <2>2
    <3>5. e \in Seq(DeckSlides) /\ Len(e) = Len(deck)  BY <1>8, <3>1, <3>2, <3>4
    <3>6. deck' \in Seq(DeckSlides) /\ Len(deck') > 0
      <4>1. CASE deck' = deck  BY <1>1, <4>1
      <4>2. CASE deck' = e  BY <1>1, <3>5, <4>2
      <4> QED  BY <3>3, <4>1, <4>2
    <3> QED  BY <1>1, <1>3, <1>5, <2>1, <3>3, <3>6, ReadAgain, RaisedUnheard
  <2>3. CASE UNCHANGED deck /\ DeckRefused("no notes")  BY <1>1, <1>5, <2>1, <2>3
  <2> QED  BY <1>17, <2>2, <2>3 DEF setNotes
<1>18. CASE UNCHANGED slideVars  BY <1>1, <1>18 DEF slideVars, DeckInv, DeckShape, PaneIsTheDeck
<1> QED  BY <1>6, <1>7, <1>11, <1>12, <1>13, <1>14, <1>15, <1>16, <1>17, <1>18 DEF SlidesNext

(* For any texts and any number of slides: the pane shows the slides of the  *)
(* deck in their order, their contents too unless it says why not, and the   *)
(* notes editor writes to the slide its text is about, whatever the engine   *)
(* refuses; a change made by a call, or a reading, that raised past the      *)
(* model's handlers is missing until the next reading (DeckModel).           *)
THEOREM PanesAreTrue == SlidesSpec => []PaneIsTheDeck
<1>1. SlidesInit => DeckInv
  <2> SUFFICES ASSUME SlidesInit PROVE DeckInv  OBVIOUS
  <2> DEFINE s == [id |-> 0, title |-> "", body |-> "", notes |-> "", layout |-> "content"]
  <2>1. /\ deckEdits = 0 /\ deck = <<s>> /\ slides = deck /\ slide = 1
        /\ notes = [text |-> "", of |-> deck[1].id]
        BY DEF SlidesInit, New
  <2>2. "content" \in LAYOUTS  BY DEF LAYOUTS
  <2>3. s \in DeckSlides  BY <2>2, NewSlide
  <2> HIDE DEF s
  <2>4. deck \in Seq(DeckSlides) /\ Len(deck) = 1 /\ DOMAIN deck = 1 .. 1
        BY <2>1, <2>3, OneElement, Zenon
  <2>5. "" \in DeckTexts  BY DEF DeckTexts
  <2>6. notes.text = "" /\ notes.of = deck[1].id  BY <2>1
  <2>7. slide \in Nat \ {0} /\ deckEdits \in Nat /\ Len(deck) > 0
    <3>1. 1 \in Nat \ {0} /\ 0 \in Nat /\ 1 > 0  OBVIOUS
    <3> QED  BY <2>1, <2>4, <3>1, Zenon
  <2>8. notes = [text |-> notes.text, of |-> notes.of]  BY <2>1, <2>6, Zenon
  <2>9. DeckShape  BY <2>1, <2>4, <2>5, <2>6, <2>7, <2>8, Zenon DEF DeckShape
  <2>10. 1 \in DOMAIN deck  BY <2>4
  <2>11. PaneIsTheDeck  BY <2>1, <2>6, <2>10, Zenon DEF PaneIsTheDeck
  <2> QED  BY <2>9, <2>11 DEF DeckInv
<1>2. DeckInv /\ [SlidesNext]_slideVars => DeckInv'  BY DeckKeeps
<1>3. DeckInv => PaneIsTheDeck  BY DEF DeckInv
<1> QED  BY <1>1, <1>2, <1>3, PTL DEF SlidesSpec

-----------------------------------------------------------------------------
(* What Explorer does to files.                                              *)

Solid == PlainFiles \cup {"folder"}
Standing == {At(d, n) : d \in {"home", "sub"}, n \in FileNames}
Trashed == {At("files", n) : n \in TrashNames}

(* What an operation has looked at: another program alone can have put a     *)
(* file under the name it is about to take, and the record of a deletion     *)
(* says where the row's path is.                                             *)
Source == At(DirOf(path), job.name)
PlacesFit ==
    /\ place \in [FileObjects -> {NotYet, Absent} \cup Standing \cup Trashed]
    /\ \A o, q \in FileObjects : o = q \/ place[o] # place[q] \/ place[o] \in {NotYet, Absent}
    /\ DOMAIN info = TrashNames /\ fileOthers \in Nat
JobFits ==
    job.op # "none" =>
       /\ job = [op |-> job.op, name |-> job.name, to |-> job.to]
       /\ job.to \in IF job.op \in {"record", "move"} THEN Trashed ELSE Standing
       /\ job.op = "mkdir" => place["folder"] = NotYet
       /\ \A q \in Solid : place[q] = job.to => job.to \in disturbed
       /\ job.op = "move" => \/ {job.to, Source} \cap disturbed # {}
                             \/ info[job.to.name] = Source \/ \A q \in Solid : place[q] # Source
ExplorerInv == PlacesFit /\ JobFits

KeptSafe ==
    fileOthers' = fileOthers =>
       \A o \in PlainFiles \cup {"folder"} :
          /\ place'[o] = Absent => place[o] = Absent \/ (place[o] = job.to /\ job.to \in disturbed)
          /\ place[o].dir # "files" /\ place'[o].dir = "files" =>
                info[place'[o].name] = place[o] \/ {place[o], place'[o]} \cap disturbed # {}
          /\ place[o].dir = "files" /\ place[o] \notin disturbed =>
                place'[o] = place[o] /\ info'[place[o].name] = info[place[o].name]

LEMMA PlaceFacts ==
    /\ \A p \in Standing : /\ p.dir \in {"home", "sub"} /\ p.name \in FileNames
                           /\ p = At(p.dir, p.name) /\ p # Absent /\ p # NotYet
    /\ \A p \in Trashed : /\ p.dir = "files" /\ p.name \in TrashNames
                          /\ p = At(p.dir, p.name) /\ p # Absent /\ p # NotYet
    /\ Absent.dir = "gone" /\ NotYet.dir = "unmade" /\ Absent # NotYet
<1>1. Absent.dir = "gone" /\ NotYet.dir = "unmade" /\ Absent # NotYet  BY DEF Absent, NotYet
<1>2. \A d, n : At(d, n).dir = d /\ At(d, n).name = n  BY DEF At
<1>3. ASSUME NEW p \in Standing
      PROVE  /\ p.dir \in {"home", "sub"} /\ p.name \in FileNames
             /\ p = At(p.dir, p.name) /\ p # Absent /\ p # NotYet
  <2>1. PICK d \in {"home", "sub"}, n \in FileNames : p = At(d, n)  BY DEF Standing
  <2>2. p.dir = d /\ p.name = n  BY <1>2, <2>1
  <2> QED  BY <1>1, <2>1, <2>2
<1>4. ASSUME NEW p \in Trashed
      PROVE  /\ p.dir = "files" /\ p.name \in TrashNames
             /\ p = At(p.dir, p.name) /\ p # Absent /\ p # NotYet
  <2>1. PICK n \in TrashNames : p = At("files", n)  BY DEF Trashed
  <2>2. p.dir = "files" /\ p.name = n  BY <1>2, <2>1
  <2> QED  BY <1>1, <2>1, <2>2
<1> QED  BY <1>1, <1>3, <1>4

(* A name that stat does not find belongs to no file and to no folder.       *)
LEMMA NothingThere ==
    ASSUME NEW d, NEW n, ~Exists(d, n), NEW o \in Solid PROVE place[o] # At(d, n)
<1>1. o \in FileObjects /\ o \notin Links  BY KindsAreApart DEF Solid, FileObjects
<1> QED  BY <1>1 DEF Exists, Occupants

LEMMA NumberedName == \A a, b : <<a>> \o <<b>> = <<a, b>>
<1> SUFFICES ASSUME NEW a, NEW b PROVE <<a>> \o <<b>> = <<a, b>>  OBVIOUS
<1> DEFINE S == {a, b}
           q == <<a>> \o <<b>>
<1>1. <<a>> \in Seq(S) /\ <<b>> \in Seq(S) /\ Len(<<a>>) = 1 /\ Len(<<b>>) = 1
      /\ <<a>>[1] = a /\ <<b>>[1] = b
      OBVIOUS
<1>2. /\ q \in Seq(S) /\ Len(q) = 1 + 1
      /\ \A i \in 1 .. 1 + 1 : q[i] = IF i <= 1 THEN <<a>>[i] ELSE <<b>>[i - 1]
      BY <1>1, ConcatProperties
<1> HIDE DEF q
<1>3. q[1] = a /\ q[2] = b /\ Len(q) = 2  BY <1>1, <1>2
<1>4. <<a, b>> \in Seq(S) /\ Len(<<a, b>>) = 2 /\ <<a, b>>[1] = a /\ <<a, b>>[2] = b  OBVIOUS
<1>5. q = <<a, b>>
  <2> DEFINE t == <<a, b>>
  <2> HIDE DEF t
  <2>1. t \in Seq(S) /\ Len(t) = 2 /\ t[1] = a /\ t[2] = b  BY <1>4 DEF t
  <2>2. \A i \in 1 .. Len(q) : q[i] = t[i]  BY <1>3, <2>1
  <2>3. q = t  BY <1>2, <1>3, <2>1, <2>2, SeqEqual
  <2> QED  BY <2>3 DEF t
<1> QED  BY <1>5 DEF q

LEMMA NumberedTrash ==
    ASSUME NEW m \in FileNames, NEW i \in 2 .. MaxMade PROVE m \o <<i>> \in TrashNames
<1> DEFINE longer == {n \o <<j>> : n \in FileNames, j \in 2 .. MaxMade}
<1>1. m \o <<i>> \in longer  OBVIOUS
<1>2. TrashNames = FileNames \cup longer  BY DEF TrashNames
<1> HIDE DEF longer
<1> QED  BY <1>1, <1>2

LEMMA LeastIsIn == ASSUME NEW T, T \subseteq Nat, T # {} PROVE Min(T) \in T
<1>1. PICK n \in T : \A k \in T : n <= k  BY LeastOf
<1> QED  BY <1>1 DEF Min

LEMMA UniqueName ==
    ASSUME NEW d, NEW n, Free(d, n)
    PROVE  /\ ~Exists(d, unique_name(d, n))
           /\ unique_name(d, n) \in {n} \cup {n \o <<i>> : i \in 2 .. MaxMade}
<1>1. CASE ~Exists(d, n)  BY <1>1 DEF unique_name
<1>2. CASE Exists(d, n)
  <2> DEFINE T == {i \in 2 .. MaxMade : ~Exists(d, n \o <<i>>)}
  <2>1. T \subseteq Nat /\ T # {}  BY <1>2, MadeIsNat DEF Free
  <2>2. Min(T) \in T  BY <2>1, LeastIsIn
  <2>3. unique_name(d, n) = n \o <<Min(T)>>  BY <1>2, Zenon DEF unique_name
  <2> HIDE DEF T
  <2>4. Min(T) \in 2 .. MaxMade /\ ~Exists(d, n \o <<Min(T)>>)  BY <2>2 DEF T
  <2> QED  BY <2>3, <2>4
<1> QED  BY <1>1, <1>2

(* Something moves over whatever is there.                                   *)
LEMMA PutMoves ==
    ASSUME PlacesFit, NEW o \in FileObjects, NEW to \in Standing \cup Trashed, place' = Put(o, to)
    PROVE  /\ place' \in [FileObjects -> {NotYet, Absent} \cup Standing \cup Trashed]
           /\ \A a, b \in FileObjects : a = b \/ place'[a] # place'[b] \/ place'[a] \in {NotYet, Absent}
           /\ \A q \in FileObjects :
                 place'[q] = IF q = o THEN to ELSE IF place[q] = to THEN Absent ELSE place[q]
<1>1. \A q \in FileObjects :
         place'[q] = IF q = o THEN to ELSE IF place[q] = to THEN Absent ELSE place[q]
      BY DEF Put
<1>2. place' \in [FileObjects -> {NotYet, Absent} \cup Standing \cup Trashed]
      BY DEF Put, PlacesFit
<1>3. ASSUME NEW a \in FileObjects, NEW b \in FileObjects, a # b, place'[a] = place'[b]
      PROVE  place'[a] \in {NotYet, Absent}
  <2>1. place[a] # place[b] \/ place[a] \in {NotYet, Absent}  BY <1>3 DEF PlacesFit
  <2> QED  BY <1>1, <1>3, <2>1
<1> QED  BY <1>1, <1>2, <1>3

(* An operation that only looks, or gives up, changes nothing.               *)
LEMMA NothingMoves ==
    ASSUME PlacesFit, UNCHANGED <<place, info>> PROVE KeptSafe
  BY DEF KeptSafe, Solid

LEMMA LookKeeps ==
    ASSUME ExplorerInv, NEW op \in {"mkdir", "rename", "record"}, NEW n, NEW to,
           Look(op, n, to), to \in IF op = "record" THEN Trashed ELSE Standing,
           op = "mkdir" => place["folder"] = NotYet,
           \A q \in Solid : place[q] # to
    PROVE  ExplorerInv' /\ KeptSafe
<1>1. /\ job' = [op |-> op, name |-> n, to |-> to] /\ UNCHANGED <<place, info, fileOthers>>
      BY DEF Look
<1>2. job'.op = op /\ job'.to = to  BY <1>1
<1>3. PlacesFit'  BY <1>1 DEF ExplorerInv, PlacesFit
<1>4. JobFits'  BY <1>1, <1>2 DEF JobFits, Solid
<1> QED  BY <1>1, <1>3, <1>4, NothingMoves DEF ExplorerInv

(* The system call at the end of an operation.                               *)
LEMMA ActKeeps ==
    ASSUME ExplorerInv, NEW o \in FileObjects, NEW to \in Standing \cup Trashed, place' = Put(o, to),
           job.op # "none", JobEnds, UNCHANGED <<info, fileOthers>>,
           place[o].dir # "files", to = job.to \/ \A q \in Solid : place[q] # to,
           to.dir = "files" => job.op = "move" /\ to = job.to /\ place[o] = Source
    PROVE  ExplorerInv' /\ KeptSafe
<1>1. PlacesFit /\ JobFits  BY DEF ExplorerInv
<1>2. /\ place' \in [FileObjects -> {NotYet, Absent} \cup Standing \cup Trashed]
      /\ \A a, b \in FileObjects : a = b \/ place'[a] # place'[b] \/ place'[a] \in {NotYet, Absent}
      /\ \A q \in FileObjects :
            place'[q] = IF q = o THEN to ELSE IF place[q] = to THEN Absent ELSE place[q]
      BY <1>1, PutMoves
<1>3. Solid \subseteq FileObjects  BY DEF Solid, FileObjects
<1>4. ExplorerInv'
  <2>1. job'.op = "none"  BY DEF JobEnds, NoJob
  <2>2. PlacesFit'  BY <1>1, <1>2 DEF PlacesFit
  <2> QED  BY <2>1, <2>2 DEF ExplorerInv, JobFits
<1>5. to # Absent /\ to # NotYet  BY PlaceFacts
<1>6. \A q \in Solid : place[q] = to => to = job.to /\ job.to \in disturbed
      BY <1>1 DEF JobFits
<1>7. ASSUME NEW q \in Solid
      PROVE  /\ place'[q] = Absent => place[q] = Absent \/ (place[q] = job.to /\ job.to \in disturbed)
             /\ place[q].dir # "files" /\ place'[q].dir = "files" =>
                   info[place'[q].name] = place[q] \/ {place[q], place'[q]} \cap disturbed # {}
             /\ place[q].dir = "files" /\ place[q] \notin disturbed =>
                   place'[q] = place[q] /\ info'[place[q].name] = info[place[q].name]
  <2>1. q \in FileObjects  BY <1>3
  <2>2. CASE q = o
    <3>1. place'[q] = to  BY <1>2, <2>1, <2>2
    <3>2. ASSUME to.dir = "files" PROVE info[to.name] = place[q] \/ {place[q], to} \cap disturbed # {}
      <4>1. place[q] = Source /\ to = job.to /\ job.op = "move"  BY <2>2, <3>2
      <4>2. {job.to, Source} \cap disturbed # {} \/ info[job.to.name] = Source
            BY <1>1, <4>1 DEF JobFits
      <4> QED  BY <4>1, <4>2
    <3> QED  BY <1>5, <2>2, <3>1, <3>2
  <2>3. CASE q # o /\ place[q] = to  BY <1>2, <1>5, <1>6, <2>1, <2>3, PlaceFacts
  <2>4. CASE q # o /\ place[q] # to
    <3>1. place'[q] = place[q]  BY <1>2, <2>1, <2>4
    <3> QED  BY <3>1
  <2> QED  BY <2>2, <2>3, <2>4
<1> QED  BY <1>4, <1>7 DEF KeptSafe, Solid

(* The other program: what it touches is remembered while an operation waits.*)
LEMMA OtherKeeps ==
    ASSUME ExplorerInv, NEW P, Meddle(P), PlacesFit',
           \A q \in Solid : place'[q] = place[q] \/ place'[q] \in P \cup {Absent},
           \A n \in TrashNames : At("files", n) \in P \/ info'[n] = info[n],
           place["folder"] = NotYet => place'["folder"] = NotYet
    PROVE  ExplorerInv' /\ KeptSafe
<1>1. PlacesFit /\ JobFits  BY DEF ExplorerInv
<1>2. fileOthers' = fileOthers + 1 /\ job' = job /\ path' = path
      /\ disturbed' = IF job = NoJob THEN {} ELSE disturbed \cup P
      BY DEF Meddle, listVars
<1>3. KeptSafe
  <2>1. fileOthers' # fileOthers  BY <1>1, <1>2 DEF PlacesFit
  <2> QED  BY <2>1 DEF KeptSafe
<1>4. JobFits'
  <2> SUFFICES ASSUME job.op # "none" PROVE JobFits'  BY <1>2 DEF JobFits
  <2>1. disturbed' = disturbed \cup P  BY <1>2 DEF NoJob
  <2>2. Source' = Source  BY <1>2 DEF Source
  <2>3. /\ job = [op |-> job.op, name |-> job.name, to |-> job.to]
        /\ job.to \in IF job.op \in {"record", "move"} THEN Trashed ELSE Standing
        /\ \A q \in Solid : place[q] = job.to => job.to \in disturbed
        /\ job.op = "move" => \/ {job.to, Source} \cap disturbed # {}
                              \/ info[job.to.name] = Source \/ \A q \in Solid : place[q] # Source
        BY <1>1 DEF JobFits
  <2>4. job.to # Absent /\ Source # Absent
    <3>1. DirOf(path) \in {"home", "sub"}  BY DEF DirOf
    <3>2. Source.dir = DirOf(path)  BY DEF Source, At
    <3> QED  BY <2>3, <3>1, <3>2, PlaceFacts
  <2>5. \A q \in Solid : place'[q] = job.to => job.to \in disturbed'  BY <2>1, <2>3, <2>4
  <2>6. ASSUME job.op = "move"
        PROVE  \/ {job.to, Source} \cap disturbed' # {}
               \/ info'[job.to.name] = Source \/ \A q \in Solid : place'[q] # Source
    <3>1. job.to = At("files", job.to.name) /\ job.to.name \in TrashNames
      <4>1. job.to \in Trashed /\ job.to.dir = "files"  BY <2>3, <2>6, PlaceFacts
      <4> QED  BY <4>1, PlaceFacts
    <3>2. CASE {job.to, Source} \cap disturbed # {}  BY <2>1, <3>2
    <3>3. CASE info[job.to.name] = Source  BY <2>1, <3>1, <3>3
    <3>4. CASE \A q \in Solid : place[q] # Source  BY <2>1, <2>4, <3>4
    <3> QED  BY <2>3, <2>6, <3>2, <3>3, <3>4
  <2>7. job.op = "mkdir" => place'["folder"] = NotYet  BY <1>1 DEF JobFits
  <2> QED  BY <1>2, <2>2, <2>3, <2>5, <2>6, <2>7 DEF JobFits
<1> QED  BY <1>3, <1>4 DEF ExplorerInv

LEMMA OtherProgramKeeps ==
    ASSUME ExplorerInv, OtherProgram PROVE ExplorerInv' /\ KeptSafe
<1>1. /\ PlacesFit
      /\ place \in [FileObjects -> {NotYet, Absent} \cup Standing \cup Trashed]
      /\ \A o, q \in FileObjects : o = q \/ place[o] # place[q] \/ place[o] \in {NotYet, Absent}
      /\ DOMAIN info = TrashNames /\ fileOthers \in Nat
      BY DEF ExplorerInv, PlacesFit
<1>2. Solid \subseteq FileObjects  BY DEF Solid, FileObjects
<1>3. \A d \in {"home", "sub"}, s \in Stems : At(d, <<s>>) \in Standing
      BY DEF Standing, FileNames
(* It puts one object at a free place.                                       *)
<1>4. ASSUME NEW o \in FileObjects, NEW to \in Standing \cup Trashed, place' = Put(o, to),
             NEW P, Meddle(P), to \in P, DOMAIN info' = TrashNames, place[o] # NotYet \/ o # "folder",
             \A n \in TrashNames : At("files", n) \in P \/ info'[n] = info[n]
      PROVE  ExplorerInv' /\ KeptSafe
  <2>1. /\ place' \in [FileObjects -> {NotYet, Absent} \cup Standing \cup Trashed]
        /\ \A a, b \in FileObjects : a = b \/ place'[a] # place'[b] \/ place'[a] \in {NotYet, Absent}
        /\ \A q \in FileObjects :
              place'[q] = IF q = o THEN to ELSE IF place[q] = to THEN Absent ELSE place[q]
        BY <1>1, <1>4, PutMoves
  <2>2. fileOthers' \in Nat  BY <1>1, <1>4 DEF Meddle
  <2>3. PlacesFit'  BY <1>4, <2>1, <2>2 DEF PlacesFit
  <2>4. \A q \in Solid : place'[q] = place[q] \/ place'[q] \in P \cup {Absent}
        BY <1>2, <1>4, <2>1
  <2>5. place["folder"] = NotYet => place'["folder"] = NotYet
    <3>1. "folder" \in FileObjects /\ to # NotYet  BY PlaceFacts DEF FileObjects
    <3> QED  BY <1>4, <2>1, <3>1
  <2> QED  BY <1>4, <2>3, <2>4, <2>5, OtherKeeps
<1>5. CASE OtherMakes
  <2>1. PICK o \in FileObjects \ {"folder"}, d \in {"home", "sub"}, s \in Stems :
           place' = Put(o, At(d, <<s>>)) /\ info' = info /\ Meddle({At(d, <<s>>)})
        BY <1>5 DEF OtherMakes
  <2> DEFINE to == At(d, <<s>>)
  <2>2. to \in Standing  BY <1>3
  <2> HIDE DEF to
  <2>3. place' = Put(o, to) /\ Meddle({to})  BY <2>1 DEF to
  <2> QED  BY <1>1, <1>4, <2>1, <2>2, <2>3
<1>6. CASE OtherRenames
  <2>1. PICK o \in FileObjects, s \in Stems :
           /\ place[o].dir \in {"home", "sub"} /\ info' = info
           /\ place' = Put(o, At(place[o].dir, <<s>>)) /\ Meddle({place[o], At(place[o].dir, <<s>>)})
        BY <1>6 DEF OtherRenames
  <2> DEFINE to == At(place[o].dir, <<s>>)
  <2>2. to \in Standing  BY <1>3, <2>1
  <2> HIDE DEF to
  <2>3. place' = Put(o, to) /\ Meddle({place[o], to}) /\ place[o] # NotYet
        BY <2>1, PlaceFacts DEF to
  <2> QED  BY <1>1, <1>4, <2>1, <2>2, <2>3
<1>7. CASE OtherTrashes
  <2>1. PICK o \in FileObjects, n \in TrashNames :
           /\ place[o].dir \in {"home", "sub"}
           /\ info' = [info EXCEPT ![n] = place[o]] /\ place' = Put(o, At("files", n))
           /\ Meddle({place[o], At("files", n)})
        BY <1>7 DEF OtherTrashes
  <2> DEFINE to == At("files", n)
  <2>2. to \in Trashed  BY DEF Trashed
  <2>3. DOMAIN info' = TrashNames /\ \A m \in TrashNames : m # n => info'[m] = info[m]
        BY <1>1, <2>1
  <2>4. \A m \in TrashNames : At("files", m) \in {place[o], to} \/ info'[m] = info[m]
        BY <2>3
  <2> HIDE DEF to
  <2>5. place' = Put(o, to) /\ Meddle({place[o], to}) /\ place[o] # NotYet
        BY <2>1, PlaceFacts DEF to
  <2> QED  BY <1>4, <2>2, <2>3, <2>4, <2>5
<1>8. CASE OtherRemoves
  <2>1. PICK o \in FileObjects :
          LET all == {o} \cup (IF o = "folder" THEN {q \in FileObjects : place[q].dir = "sub"} ELSE {})
          IN  /\ place[o].dir \in {"home", "sub", "files"}
              /\ place' = [q \in FileObjects |-> IF q \in all THEN Absent ELSE place[q]]
              /\ info' = IF place[o].dir = "files" THEN [info EXCEPT ![place[o].name] = NotYet]
                         ELSE info
              /\ Meddle({place[q] : q \in all})
        BY <1>8 DEF OtherRemoves
  <2> DEFINE all == {o} \cup (IF o = "folder" THEN {q \in FileObjects : place[q].dir = "sub"} ELSE {})
             P == {place[q] : q \in all}
  <2>2. /\ place' = [q \in FileObjects |-> IF q \in all THEN Absent ELSE place[q]]
        /\ info' = IF place[o].dir = "files" THEN [info EXCEPT ![place[o].name] = NotYet] ELSE info
        /\ Meddle(P) /\ place[o] \in P
        BY <2>1
  <2> HIDE DEF all, P
  <2>3. /\ place' \in [FileObjects -> {NotYet, Absent} \cup Standing \cup Trashed]
        /\ \A q \in FileObjects : place'[q] = Absent \/ place'[q] = place[q]
        BY <1>1, <2>2
  <2>4. \A a, b \in FileObjects : a = b \/ place'[a] # place'[b] \/ place'[a] \in {NotYet, Absent}
        BY <1>1, <2>3
  <2>5. DOMAIN info' = TrashNames  BY <1>1, <2>2
  <2>6. fileOthers' \in Nat  BY <1>1, <2>2 DEF Meddle
  <2>7. PlacesFit'  BY <2>3, <2>4, <2>5, <2>6 DEF PlacesFit
  <2>8. ASSUME NEW n \in TrashNames, info'[n] # info[n] PROVE At("files", n) \in P
    <3>1. place[o].dir = "files" /\ n = place[o].name  BY <1>1, <2>2, <2>8
    <3>2. place[o] \in Trashed  BY <1>1, <3>1, PlaceFacts
    <3>3. place[o] = At("files", n)  BY <3>1, <3>2, PlaceFacts
    <3> QED  BY <2>2, <3>3
  <2>9. \A q \in Solid : place'[q] = place[q] \/ place'[q] \in P \cup {Absent}  BY <1>2, <2>3
  <2>10. place["folder"] = NotYet => place'["folder"] = NotYet
    <3>1. "folder" \in FileObjects /\ NotYet.dir = "unmade"  BY PlaceFacts DEF FileObjects
    <3>2. ASSUME place["folder"] = NotYet PROVE "folder" \notin all  BY <2>1, <3>1, <3>2 DEF all
    <3> QED  BY <2>2, <3>1, <3>2
  <2> QED  BY <2>2, <2>7, <2>8, <2>9, <2>10, OtherKeeps
<1> QED  BY <1>5, <1>6, <1>7, <1>8 DEF OtherProgram

LEMMA ExplorerKeeps ==
    ASSUME ExplorerInv, [ExplorerNext]_explorerVars PROVE ExplorerInv' /\ KeptSafe
<1>1. /\ PlacesFit /\ JobFits
      /\ place \in [FileObjects -> {NotYet, Absent} \cup Standing \cup Trashed]
      /\ \A o, q \in FileObjects : o = q \/ place[o] # place[q] \/ place[o] \in {NotYet, Absent}
      /\ DOMAIN info = TrashNames /\ fileOthers \in Nat
      BY DEF ExplorerInv, PlacesFit
<1>2. Solid \subseteq FileObjects /\ \A q \in Solid : q \notin Links
      BY KindsAreApart DEF Solid, FileObjects
<1>3. NoJob.op = "none"  BY DEF NoJob
<1>4. ASSUME UNCHANGED <<place, info, fileOthers>> PROVE PlacesFit' /\ KeptSafe
  <2>1. PlacesFit'
        BY <1>1, <1>4 DEF PlacesFit
  <2> QED  BY <1>1, <1>4, <2>1, NothingMoves
<1>5. ASSUME UNCHANGED <<place, info, fileOthers>>, job'.op = "none" PROVE ExplorerInv' /\ KeptSafe
      BY <1>4, <1>5 DEF ExplorerInv, JobFits
<1>6. ASSUME UNCHANGED <<place, info, fileOthers>>, Idle, UNCHANGED jobVars
      PROVE  ExplorerInv' /\ KeptSafe
  <2>1. job'.op = "none"  BY <1>3, <1>6 DEF Idle, jobVars
  <2> QED  BY <1>5, <1>6, <2>1
<1>7. \A n : DirOf(path) \in {"home", "sub"} /\ At(DirOf(path), n).dir = DirOf(path)
      BY DEF DirOf, At
(* A place of home or sub that a row names.                                  *)
<1>8. ASSUME NEW n, NEW o \in Named(n)
      PROVE  /\ o \in FileObjects /\ place[o] \in Standing /\ n \in FileNames
             /\ place[o] = At(DirOf(path), n) /\ place[o].dir # "files"
  <2>1. o \in FileObjects /\ place[o] = At(DirOf(path), n)  BY DEF Named
  <2>2. place[o].dir = DirOf(path) /\ place[o].name = n  BY <2>1 DEF At
  <2>3. place[o] \in Standing  BY <1>1, <1>7, <2>1, <2>2, PlaceFacts
  <2> QED  BY <1>7, <2>1, <2>2, <2>3, PlaceFacts
<1>9. CASE Idle /\ createFolder
  <2> DEFINE n == unique_name("home", <<"x">>)
  <2>1. /\ place["folder"] = NotYet /\ Free("home", <<"x">>)
        /\ Look("mkdir", <<"x">>, At("home", n))
        BY <1>9 DEF createFolder
  <2>2. ~Exists("home", n) /\ n \in {<<"x">>} \cup {<<"x">> \o <<i>> : i \in 2 .. MaxMade}
        BY <2>1, UniqueName
  <2>3. n \in FileNames
    <3>1. "x" \in Stems /\ \A i \in 2 .. MaxMade : <<"x">> \o <<i>> = <<"x", i>>
          BY NumberedName DEF Stems
    <3> HIDE DEF n
    <3>2. <<"x">> \in FileNames /\ \A i \in 2 .. MaxMade : <<"x", i>> \in FileNames
          BY <3>1 DEF FileNames
    <3> QED  BY <2>2, <3>1, <3>2, Zenon
  <2> HIDE DEF n
  <2>4. At("home", n) \in Standing  BY <2>3 DEF Standing
  <2>5. \A q \in Solid : place[q] # At("home", n)  BY <2>2, NothingThere
  <2> QED  BY <2>1, <2>4, <2>5, LookKeeps
<1>10. CASE Idle /\ renameRow
  <2>1. PICK row \in files, s \in Stems :
          \/ FileFails /\ UNCHANGED <<place, info, jobVars>>
          \/ ~Exists(DirOf(path), <<s>>) /\ Look("rename", row.name, At(DirOf(path), <<s>>))
        BY <1>10 DEF renameRow
  <2>2. CASE FileFails /\ UNCHANGED <<place, info, jobVars>>  BY <1>6, <1>10, <2>2 DEF FileFails
  <2>3. CASE ~Exists(DirOf(path), <<s>>) /\ Look("rename", row.name, At(DirOf(path), <<s>>))
    <3>1. At(DirOf(path), <<s>>) \in Standing  BY <1>7 DEF Standing, FileNames
    <3>2. \A q \in Solid : place[q] # At(DirOf(path), <<s>>)  BY <2>3, NothingThere
    <3> QED  BY <2>3, <3>1, <3>2, LookKeeps
  <2> QED  BY <2>1, <2>2, <2>3
<1>11. CASE Idle /\ deleteRow
  <2>1. PICK row \in files :
          \/ FileFails /\ UNCHANGED <<place, info, jobVars>>
          \/ /\ Named(row.name) # {} /\ Free("files", row.name)
             /\ Look("record", row.name, At("files", unique_name("files", row.name)))
        BY <1>11 DEF deleteRow
  <2>2. CASE FileFails /\ UNCHANGED <<place, info, jobVars>>  BY <1>6, <1>11, <2>2 DEF FileFails
  <2> DEFINE n == unique_name("files", row.name)
  <2>3. CASE /\ Named(row.name) # {} /\ Free("files", row.name)
             /\ Look("record", row.name, At("files", n))
    <3>1. row.name \in FileNames  BY <1>8, <2>3
    <3>2. ~Exists("files", n) /\ n \in {row.name} \cup {row.name \o <<i>> : i \in 2 .. MaxMade}
          BY <2>3, UniqueName
    <3> HIDE DEF n
    <3>3. n \in TrashNames
      <4>1. CASE n = row.name  BY <3>1, <4>1 DEF TrashNames
      <4>2. CASE n # row.name
        <5>1. PICK i \in 2 .. MaxMade : n = row.name \o <<i>>  BY <3>2, <4>2
        <5> QED  BY <3>1, <5>1, NumberedTrash, Zenon
      <4> QED  BY <4>1, <4>2
    <3>4. At("files", n) \in Trashed  BY <3>3 DEF Trashed
    <3>5. \A q \in Solid : place[q] # At("files", n)  BY <3>2, NothingThere
    <3> QED  BY <2>3, <3>4, <3>5, LookKeeps
  <2> QED  BY <2>1, <2>2, <2>3
<1>12. CASE mkdir
  <2>1. job.op = "mkdir" /\ JobEnds /\ info' = info  BY <1>12 DEF mkdir
  <2>2. CASE Fails  BY <1>3, <1>5, <2>1, <2>2 DEF Fails, FileFails, JobEnds
  <2>3. CASE Occupants(job.to) = {} /\ place' = Put("folder", job.to) /\ Succeeds
    <3>1. job.to \in Standing  BY <1>1, <2>1 DEF JobFits
    <3>2. "folder" \in FileObjects /\ job.to.dir # "files"  BY <3>1, PlaceFacts DEF FileObjects
    <3>3. fileOthers' = fileOthers  BY <2>3 DEF Succeeds
    <3>4. place["folder"].dir # "files"  BY <1>1, <2>1, PlaceFacts DEF JobFits
    <3> QED  BY <2>1, <2>3, <3>1, <3>2, <3>3, <3>4, ActKeeps
  <2> QED  BY <1>12, <2>2, <2>3 DEF mkdir
<1>13. CASE os_rename
  <2>1. job.op = "rename" /\ JobEnds /\ info' = info  BY <1>13 DEF os_rename
  <2>2. CASE Fails  BY <1>3, <1>5, <2>1, <2>2 DEF Fails, FileFails, JobEnds
  <2>3. ASSUME NEW o \in Named(job.name), place' = Put(o, job.to), Succeeds
        PROVE  ExplorerInv' /\ KeptSafe
    <3>1. job.to \in Standing  BY <1>1, <2>1 DEF JobFits
    <3>2. o \in FileObjects /\ place[o].dir # "files" /\ job.to.dir # "files"
          BY <1>8, <3>1, PlaceFacts
    <3>3. fileOthers' = fileOthers  BY <2>3 DEF Succeeds
    <3> QED  BY <2>1, <2>3, <3>1, <3>2, <3>3, ActKeeps
  <2> QED  BY <1>13, <2>2, <2>3 DEF os_rename
<1>14. CASE write_text
  <2>1. job.op = "record"  BY <1>14 DEF write_text
  <2>2. CASE JobEnds /\ Fails /\ UNCHANGED info
        BY <1>3, <1>5, <2>2 DEF Fails, FileFails, JobEnds
  <2>3. CASE /\ info' = [info EXCEPT ![job.to.name] =
                           IF Named(job.name) \cap Links # {} THEN Elsewhere
                           ELSE At(DirOf(path), job.name)]
             /\ job' = [job EXCEPT !.op = "move"]
             /\ UNCHANGED <<place, listVars, disturbed, fileOthers>>
    <3>1. /\ job.to \in Trashed /\ \A q \in Solid : place[q] = job.to => job.to \in disturbed
          BY <1>1, <2>1 DEF JobFits
    <3>2. job.to.name \in TrashNames /\ job.to = At("files", job.to.name)  BY <3>1, PlaceFacts
    <3>3. /\ DOMAIN info' = TrashNames
          /\ \A n \in TrashNames : n # job.to.name => info'[n] = info[n]
          /\ info'[job.to.name] = IF Named(job.name) \cap Links # {} THEN Elsewhere ELSE Source
          BY <1>1, <2>3, <3>2 DEF Source
    <3>4. path' = path /\ place' = place /\ disturbed' = disturbed /\ fileOthers' = fileOthers
          BY <2>3 DEF listVars
    <3>5. /\ job'.to = job.to /\ job'.name = job.name /\ job'.op = "move"
          /\ job' = [op |-> job'.op, name |-> job'.name, to |-> job'.to]
      <4>1. job = [op |-> job.op, name |-> job.name, to |-> job.to]  BY <1>1, <2>1 DEF JobFits
      <4> DEFINE n == job.name
                 to == job.to
      <4>2. job = [op |-> "record", name |-> n, to |-> to] /\ job' = [job EXCEPT !.op = "move"]
            BY <2>1, <2>3, <4>1
      <4>3. n = job.name /\ to = job.to  OBVIOUS
      <4> HIDE DEF n, to
      <4>4. job' = [op |-> "move", name |-> n, to |-> to]  BY <4>2
      <4> QED  BY <4>3, <4>4
    <3>6. Source' = Source  BY <3>4, <3>5 DEF Source
    <3>7. ASSUME Named(job.name) \cap Links # {} PROVE \A q \in Solid : place[q] # Source
      <4>1. PICK l \in Named(job.name) : l \in Links  BY <3>7
      <4>2. l \in FileObjects /\ place[l] = Source /\ place[l] \in Standing
            BY <1>8 DEF Source
      <4>3. place[l] # NotYet /\ place[l] # Absent  BY <4>2, PlaceFacts
      <4>4. \A q \in Solid : q # l /\ q \in FileObjects  BY <1>2, <4>1
      <4> QED  BY <1>1, <4>2, <4>3, <4>4
    <3>8. PlacesFit'
          BY <1>1, <3>3, <3>4 DEF PlacesFit
    <3>9. info'[job.to.name] = Source \/ \A q \in Solid : place[q] # Source
          BY <3>3, <3>7
    <3>10. JobFits'
           BY <3>1, <3>4, <3>5, <3>6, <3>9 DEF JobFits
    <3>11. ASSUME NEW q \in Solid, place[q].dir = "files", place[q] \notin disturbed
           PROVE  info'[place[q].name] = info[place[q].name]
      <4>1. place[q] \in Trashed  BY <1>1, <1>2, <3>11, PlaceFacts
      <4>2. place[q] = At("files", place[q].name) /\ place[q].name \in TrashNames
            BY <3>11, <4>1, PlaceFacts
      <4>3. place[q].name # job.to.name  BY <3>1, <3>2, <3>11, <4>2
      <4> QED  BY <3>3, <4>2, <4>3
    <3>12. KeptSafe  BY <3>4, <3>11 DEF KeptSafe, Solid
    <3> QED  BY <3>8, <3>10, <3>12 DEF ExplorerInv
  <2> QED  BY <1>14, <2>2, <2>3 DEF write_text
<1>15. CASE shutil_move
  <2>1. job.op = "move" /\ JobEnds /\ info' = info  BY <1>15 DEF shutil_move
  <2>2. CASE Fails  BY <1>3, <1>5, <2>1, <2>2 DEF Fails, FileFails, JobEnds
  <2>3. job.to \in Trashed  BY <1>1, <2>1 DEF JobFits
  <2>4. ASSUME NEW o \in Named(job.name), NEW to, Succeeds, place' = Put(o, to),
               \/ to = job.to
               \/ to = At("sub", job.name) /\ Occupants(to) = {}
        PROVE  ExplorerInv' /\ KeptSafe
    <3>1. /\ o \in FileObjects /\ place[o].dir # "files" /\ job.name \in FileNames
          /\ place[o] = Source
          BY <1>8 DEF Source
    <3>2. fileOthers' = fileOthers  BY <2>4 DEF Succeeds
    <3>3. CASE to = job.to  BY <2>1, <2>3, <2>4, <3>1, <3>2, <3>3, ActKeeps
    <3>4. CASE to = At("sub", job.name) /\ Occupants(to) = {}
      <4>1. to \in Standing /\ to.dir # "files"  BY <3>1, <3>4 DEF Standing, At
      <4>2. \A q \in Solid : place[q] # to  BY <1>2, <3>4 DEF Occupants
      <4> QED  BY <2>1, <2>4, <3>1, <3>2, <4>1, <4>2, ActKeeps
    <3> QED  BY <2>4, <3>3, <3>4
  <2>5. CASE ~Fails
    <3>1. PICK o \in Named(job.name) :
             LET inside == "folder" \in Occupants(job.to)
                 to == IF inside THEN At("sub", job.name) ELSE job.to
             IN  /\ inside \/ o = "folder" => Occupants(to) = {}
                 /\ place' = Put(o, to) /\ Succeeds
          BY <1>15, <2>5 DEF shutil_move
    <3>2. CASE "folder" \in Occupants(job.to)
      <4>1. Occupants(At("sub", job.name)) = {} /\ place' = Put(o, At("sub", job.name)) /\ Succeeds
            BY <3>1, <3>2
      <4> QED  BY <2>4, <4>1
    <3>3. CASE "folder" \notin Occupants(job.to)
      <4>1. place' = Put(o, job.to) /\ Succeeds  BY <3>1, <3>3
      <4> QED  BY <2>4, <4>1
    <3> QED  BY <3>2, <3>3
  <2> QED  BY <2>2, <2>5
<1>16. CASE Idle /\ (reload \/ openRow \/ goUp \/ goBack \/ goForward)
  <2>1. UNCHANGED <<place, info, jobVars, fileOthers>>
        BY <1>16 DEF reload, openRow, goUp, goBack, goForward, navigate, Show
  <2> QED  BY <1>6, <1>16, <2>1
<1>17. CASE UNCHANGED explorerVars
  <2>1. UNCHANGED <<place, info, job, disturbed, path, fileOthers>>  BY <1>17 DEF explorerVars
  <2>2. JobFits'
        BY <1>1, <2>1 DEF JobFits, Source
  <2> QED  BY <1>4, <2>1, <2>2 DEF ExplorerInv
<1> QED  BY <1>9, <1>10, <1>11, <1>12, <1>13, <1>14, <1>15, <1>16, <1>17, OtherProgramKeeps
         DEF ExplorerNext

(* For any files and links, whatever another program does between any two    *)
(* system calls and whichever step fails: Explorer overwrites nothing but    *)
(* what that program put under the very name it is about to take, and what   *)
(* it puts in the trash has and keeps its record (files.rename,              *)
(* move_to_trash, unique_name).                                              *)
THEOREM FilesAreKept == ExplorerSpec => NothingIsLost
<1>1. ExplorerInit => ExplorerInv
  <2> SUFFICES ASSUME ExplorerInit PROVE ExplorerInv  OBVIOUS
  <2>1. /\ place \in [FileObjects -> {NotYet} \cup {At("home", <<s>>) : s \in Stems}]
        /\ \A o, q \in FileObjects : o = q \/ place[o] = NotYet \/ place[o] # place[q]
        /\ info = [n \in TrashNames |-> NotYet] /\ job = NoJob /\ fileOthers = 0
        BY DEF ExplorerInit
  <2>2. {At("home", <<s>>) : s \in Stems} \subseteq Standing
    <3>1. ASSUME NEW s \in Stems PROVE At("home", <<s>>) \in Standing  BY DEF Standing, FileNames
    <3> QED  BY <3>1
  <2>3. place \in [FileObjects -> {NotYet, Absent} \cup Standing \cup Trashed]  BY <2>1, <2>2
  <2>4. DOMAIN info = TrashNames  BY <2>1
  <2>5. job.op = "none"  BY <2>1 DEF NoJob
  <2> QED  BY <2>1, <2>3, <2>4, <2>5 DEF ExplorerInv, PlacesFit, JobFits
<1>2. ExplorerInv /\ [ExplorerNext]_explorerVars => ExplorerInv'  BY ExplorerKeeps
<1>3. ExplorerInv /\ [ExplorerNext]_explorerVars =>
       [fileOthers' = fileOthers =>
        \A o \in PlainFiles \cup {"folder"} :
          /\ place'[o] = Absent => place[o] = Absent \/ (place[o] = job.to /\ job.to \in disturbed)
          /\ place[o].dir # "files" /\ place'[o].dir = "files" =>
                info[place'[o].name] = place[o] \/ {place[o], place'[o]} \cap disturbed # {}
          /\ place[o].dir = "files" /\ place[o] \notin disturbed =>
                place'[o] = place[o] /\ info'[place[o].name] = info[place[o].name]
       ]_explorerVars
      BY ExplorerKeeps DEF KeptSafe
<1> QED  BY <1>1, <1>2, <1>3, PTL DEF ExplorerSpec, NothingIsLost

-----------------------------------------------------------------------------
(* What the clipboard's history keeps.                                       *)

ClipKeys == {<<"text", t>> : t \in ClipTexts} \cup {<<"clip", n>> : n \in Nat}
Clips == [key : ClipKeys, pinned : BOOLEAN]
Items(h) == {h[i] : i \in 1 .. Len(h)}
Distinct(h) == \A i, j \in 1 .. Len(h) : h[i].key = h[j].key => i = j
PinKeys(h) == {e.key : e \in {x \in Items(h) : x.pinned}}

(* The file, too, holds no key twice and no more than fit.                   *)
ClipInv ==
    /\ clips \in Seq(Clips) /\ Distinct(clips) /\ Len(clips) <= Limit
    /\ kept \in Seq(ClipKeys) /\ Len(kept) <= Limit
    /\ \A i, j \in 1 .. Len(kept) : kept[i] = kept[j] => i = j
    /\ PinKeys(clips) = {kept[i] : i \in 1 .. Len(kept)}
    /\ images \in Nat

LEMMA KeyOfClip == \A e \in Clips : e.key \in ClipKeys  BY DEF Clips

LEMMA ClipAppended ==
    ASSUME NEW h \in Seq(Clips), NEW e \in Clips, Distinct(h), \A x \in Items(h) : x.key # e.key
    PROVE  /\ Append(h, e) \in Seq(Clips) /\ Len(Append(h, e)) = Len(h) + 1
           /\ Distinct(Append(h, e)) /\ Items(Append(h, e)) = Items(h) \cup {e}
<1> DEFINE g == Append(h, e)
<1>1. /\ g \in Seq(Clips) /\ Len(g) = Len(h) + 1 /\ Len(h) \in Nat
      /\ \A i \in 1 .. Len(h) : g[i] = h[i]
      /\ g[Len(h) + 1] = e
      BY AppendProperties, LenProperties
<1> HIDE DEF g
<1>2. \A i \in 1 .. Len(g) : i \in 1 .. Len(h) \/ i = Len(h) + 1  BY <1>1
<1>3. \A i \in 1 .. Len(h) : g[i].key # e.key  BY <1>1 DEF Items
<1>4. Distinct(g)
  <2>1. SUFFICES ASSUME NEW i \in 1 .. Len(g), NEW j \in 1 .. Len(g), g[i].key = g[j].key
                 PROVE  i = j
        BY DEF Distinct
  <2> QED  BY <1>1, <1>2, <1>3, <2>1 DEF Distinct
<1>5. Items(g) = Items(h) \cup {e}
  <2>1. \A x \in Items(g) : x \in Items(h) \/ x = e  BY <1>1, <1>2 DEF Items
  <2>2. \A x \in Items(h) : x \in Items(g)  BY <1>1 DEF Items
  <2>3. e \in Items(g)  BY <1>1 DEF Items
  <2> QED  BY <2>1, <2>2, <2>3
<1> QED  BY <1>1, <1>4, <1>5 DEF g

LEMMA ClipOnTop ==
    ASSUME NEW h \in Seq(Clips), NEW e \in Clips, Distinct(h), \A x \in Items(h) : x.key # e.key
    PROVE  /\ <<e>> \o h \in Seq(Clips) /\ Len(<<e>> \o h) = Len(h) + 1
           /\ Distinct(<<e>> \o h) /\ Items(<<e>> \o h) = Items(h) \cup {e}
<1> DEFINE g == <<e>> \o h
<1>1. <<e>> \in Seq(Clips) /\ Len(<<e>>) = 1 /\ <<e>>[1] = e  BY OneElement
<1>2. /\ g \in Seq(Clips) /\ Len(g) = 1 + Len(h) /\ Len(h) \in Nat
      /\ \A i \in 1 .. 1 + Len(h) : g[i] = IF i <= 1 THEN <<e>>[i] ELSE h[i - 1]
      BY <1>1, ConcatProperties, LenProperties
<1> HIDE DEF g
<1>3. Len(g) = Len(h) + 1 /\ g[1] = e /\ \A i \in 1 .. Len(h) : g[i + 1] = h[i]
      BY <1>1, <1>2
<1>4. \A i \in 1 .. Len(g) : i = 1 \/ \E j \in 1 .. Len(h) : i = j + 1
  <2>1. TAKE i \in 1 .. Len(g)
  <2>2. i = 1 \/ (i - 1 \in 1 .. Len(h) /\ i = (i - 1) + 1)  BY <1>2, <1>3
  <2> QED  BY <2>2
<1>5. \A i \in 1 .. Len(h) : h[i].key # e.key  BY DEF Items
<1>6. Distinct(g)
  <2>1. SUFFICES ASSUME NEW i \in 1 .. Len(g), NEW j \in 1 .. Len(g), g[i].key = g[j].key
                 PROVE  i = j
        BY DEF Distinct
  <2>2. CASE i = 1
    <3>1. CASE j = 1  BY <2>2, <3>1
    <3>2. CASE j # 1
      <4>1. PICK m \in 1 .. Len(h) : j = m + 1  BY <1>4, <3>2
      <4> QED  BY <1>3, <1>5, <2>1, <2>2, <4>1
    <3> QED  BY <3>1, <3>2
  <2>3. CASE i # 1
    <3>1. PICK k \in 1 .. Len(h) : i = k + 1  BY <1>4, <2>3
    <3>2. CASE j = 1  BY <1>3, <1>5, <2>1, <3>1, <3>2
    <3>3. CASE j # 1
      <4>1. PICK m \in 1 .. Len(h) : j = m + 1  BY <1>4, <3>3
      <4>2. h[k].key = h[m].key  BY <1>3, <2>1, <3>1, <4>1
      <4>3. k = m  BY <4>2 DEF Distinct
      <4> QED  BY <3>1, <4>1, <4>3
    <3> QED  BY <3>2, <3>3
  <2> QED  BY <2>2, <2>3
<1>7. Items(g) = Items(h) \cup {e}
  <2>1. \A x \in Items(g) : x \in Items(h) \/ x = e
    <3>1. TAKE x \in Items(g)
    <3>2. PICK i \in 1 .. Len(g) : x = g[i]  BY DEF Items
    <3>3. CASE i = 1  BY <1>3, <3>2, <3>3
    <3>4. CASE i # 1
      <4>1. PICK j \in 1 .. Len(h) : i = j + 1  BY <1>4, <3>4
      <4>2. x = h[j]  BY <1>3, <3>2, <4>1
      <4> QED  BY <4>2 DEF Items
    <3> QED  BY <3>3, <3>4
  <2>2. \A x \in Items(h) : x \in Items(g)
    <3>1. \A i \in 1 .. Len(h) : i + 1 \in 1 .. Len(g)  BY <1>2, <1>3
    <3> QED  BY <1>3, <3>1 DEF Items
  <2>3. e \in Items(g)
    <3>1. 1 \in 1 .. Len(g)  BY <1>2, <1>3
    <3> QED  BY <1>3, <3>1 DEF Items
  <2> QED  BY <2>1, <2>2, <2>3
<1> QED  BY <1>2, <1>3, <1>6, <1>7 DEF g

LEMMA ClipRemoved ==
    ASSUME NEW h \in Seq(Clips), NEW i \in 1 .. Len(h), Distinct(h)
    PROVE  /\ RemoveAt(h, i) \in Seq(Clips) /\ Len(RemoveAt(h, i)) = Len(h) - 1
           /\ Distinct(RemoveAt(h, i)) /\ Items(RemoveAt(h, i)) = Items(h) \ {h[i]}
           /\ \A x \in Items(RemoveAt(h, i)) : x.key # h[i].key
<1> DEFINE g == RemoveAt(h, i)
<1>1. /\ g \in Seq(Clips) /\ Len(g) = Len(h) - 1
      /\ \A j \in 1 .. i - 1 : g[j] = h[j]
      /\ \A j \in i .. Len(h) - 1 : g[j] = h[j + 1]
      BY WithoutOne, Zenon DEF RemoveAt
<1>2. Len(h) \in Nat  BY LenProperties
<1> HIDE DEF g
(* Where an element of the rest was. *)
<1> DEFINE was(j) == IF j < i THEN j ELSE j + 1
<1>3. \A j \in 1 .. Len(g) : /\ was(j) \in 1 .. Len(h) /\ was(j) # i /\ g[j] = h[was(j)]
      BY <1>1, <1>2
<1>4. \A j, k \in 1 .. Len(g) : was(j) = was(k) => j = k  BY <1>1, <1>2
<1>5. \A k \in 1 .. Len(h) : k # i => \E j \in 1 .. Len(g) : was(j) = k
  <2>1. TAKE k \in 1 .. Len(h)
  <2>2. k < i => k \in 1 .. Len(g) /\ was(k) = k  BY <1>1, <1>2
  <2>3. k > i => k - 1 \in 1 .. Len(g) /\ was(k - 1) = k  BY <1>1, <1>2
  <2> HIDE DEF was
  <2> QED  BY <2>2, <2>3
<1> HIDE DEF was
<1>6. Distinct(g)
  <2>1. SUFFICES ASSUME NEW j \in 1 .. Len(g), NEW k \in 1 .. Len(g), g[j].key = g[k].key
                 PROVE  j = k
        BY DEF Distinct
  <2>2. was(j) = was(k)  BY <1>3, <2>1 DEF Distinct
  <2> QED  BY <1>4, <2>2
<1>7. \A j \in 1 .. Len(g) : g[j].key # h[i].key  BY <1>3 DEF Distinct
<1>8. Items(g) = Items(h) \ {h[i]}
  <2>1. \A x \in Items(g) : x \in Items(h) /\ x # h[i]  BY <1>3, <1>7 DEF Items
  <2>2. \A x \in Items(h) : x # h[i] => x \in Items(g)
    <3>1. TAKE x \in Items(h)
    <3>2. PICK k \in 1 .. Len(h) : x = h[k]  BY DEF Items
    <3>3. SUFFICES ASSUME x # h[i] PROVE x \in Items(g)  OBVIOUS
    <3>4. PICK j \in 1 .. Len(g) : was(j) = k  BY <1>5, <3>2, <3>3
    <3>5. g[j] = x  BY <1>3, <3>2, <3>4
    <3> QED  BY <3>5 DEF Items
  <2> QED  BY <2>1, <2>2
<1>9. \A x \in Items(g) : x.key # h[i].key  BY <1>7 DEF Items
<1> QED  BY <1>1, <1>6, <1>8, <1>9 DEF g

(* The pinned entries, as far as the history was read.                       *)
UpTo(g, h, n) ==
    g = [i \in 0 .. n |-> IF i = 0 THEN <<>>
                          ELSE IF h[i].pinned THEN Append(g[i - 1], h[i]) ELSE g[i - 1]]

LEMMA UpToExists == ASSUME NEW h, NEW n \in Nat PROVE \E g : UpTo(g, h, n)
<1> DEFINE T == {k \in Nat : \E g : UpTo(g, h, k)}
<1>1. 0 \in T
  <2>1. UpTo([i \in 0 .. 0 |-> <<>>], h, 0)  BY DEF UpTo
  <2> QED  BY <2>1
<1>2. ASSUME NEW k \in 0 .. n - 1, k \in T PROVE k + 1 \in T
  <2>1. PICK g : UpTo(g, h, k)  BY <1>2
  <2> DEFINE last == IF h[k + 1].pinned THEN Append(g[k], h[k + 1]) ELSE g[k]
             f == [i \in 0 .. k + 1 |-> IF i = k + 1 THEN last ELSE g[i]]
  <2>2. \A i \in 0 .. k : f[i] = g[i]  OBVIOUS
  <2>3. f[k + 1] = last  OBVIOUS
  <2>4. \A i \in 0 .. k : g[i] = IF i = 0 THEN <<>>
                          ELSE IF h[i].pinned THEN Append(g[i - 1], h[i]) ELSE g[i - 1]
    BY <2>1 DEF UpTo
  <2>5. \A i \in 0 .. k + 1 : f[i] = IF i = 0 THEN <<>>
                          ELSE IF h[i].pinned THEN Append(f[i - 1], h[i]) ELSE f[i - 1]
    <3>1. TAKE i \in 0 .. k + 1
    <3>2. CASE i = k + 1
      <4>1. f[i - 1] = g[k]  BY <2>2, <3>2
      <4> HIDE DEF f
      <4> QED  BY <2>3, <3>2, <4>1
    <3>3. CASE i \in 1 .. k
      <4>1. f[i] = g[i] /\ f[i - 1] = g[i - 1]  BY <2>2, <3>3
      <4> HIDE DEF f, last
      <4> QED  BY <2>4, <3>3, <4>1
    <3>4. CASE i = 0  BY <2>2, <2>4, <3>4
    <3> QED  BY <3>2, <3>3, <3>4
  <2>6. UpTo(f, h, k + 1)
    <3>1. f = [i \in 0 .. k + 1 |-> f[i]]  OBVIOUS
    <3> HIDE DEF f, last
    <3> QED  BY <2>5, <3>1 DEF UpTo
  <2> QED  BY <2>6
<1> HIDE DEF T
<1>3. 0 .. n \subseteq T  BY <1>1, <1>2, InductiveSet
<1> QED  BY <1>3 DEF T

(* What Pinned keeps: every pinned entry, none twice, and nothing else.      *)
LEMMA PinnedFacts ==
    ASSUME NEW h \in Seq(Clips), Distinct(h)
    PROVE  /\ Pinned(h) \in Seq(Clips) /\ Len(Pinned(h)) <= Len(h) /\ Distinct(Pinned(h))
           /\ Items(Pinned(h)) = {x \in Items(h) : x.pinned}
<1>1. Len(h) \in Nat  BY LenProperties
<1> DEFINE g == CHOOSE f : UpTo(f, h, Len(h))
<1>2. UpTo(g, h, Len(h))  BY <1>1, UpToExists
<1>3. Pinned(h) = g[Len(h)]  BY DEF Pinned, UpTo
<1> HIDE DEF g
<1>4. \A i \in 0 .. Len(h) : g[i] = IF i = 0 THEN <<>>
                          ELSE IF h[i].pinned THEN Append(g[i - 1], h[i]) ELSE g[i - 1]
      BY <1>2 DEF UpTo
<1> DEFINE Sound(k) ==
             /\ g[k] \in Seq(Clips) /\ Len(g[k]) <= k /\ Distinct(g[k])
             /\ Items(g[k]) = {x \in {h[i] : i \in 1 .. k} : x.pinned}
           T == {k \in 0 .. Len(h) : Sound(k)}
<1>5. 0 \in T
  <2>1. g[0] = <<>>  BY <1>1, <1>4
  <2>2. <<>> \in Seq(Clips) /\ Len(<<>>) = 0  BY EmptySeq
  <2>3. Distinct(<<>>) /\ Items(<<>>) = {}  BY <2>2 DEF Distinct, Items
  <2>4. {x \in {h[i] : i \in 1 .. 0} : x.pinned} = {}  OBVIOUS
  <2>5. Sound(0)  BY <2>1, <2>2, <2>3, <2>4
  <2> QED  BY <1>1, <2>5
<1>6. ASSUME NEW k \in 0 .. Len(h) - 1, k \in T PROVE k + 1 \in T
  <2>1. /\ g[k] \in Seq(Clips) /\ Len(g[k]) <= k /\ Distinct(g[k])
        /\ Items(g[k]) = {x \in {h[i] : i \in 1 .. k} : x.pinned}
        BY <1>6
  <2>2. /\ k + 1 \in 1 .. Len(h) /\ k + 1 \in 0 .. Len(h) /\ (k + 1) - 1 = k
        /\ k + 1 # 0 /\ 1 .. k + 1 = 1 .. k \cup {k + 1}
        BY <1>1
  <2>3. g[k + 1] = IF h[k + 1].pinned THEN Append(g[k], h[k + 1]) ELSE g[k]
        BY <1>4, <2>2
  <2>4. h[k + 1] \in Clips  BY <2>2, ElementOfSeq
  <2>5. {h[i] : i \in 1 .. k + 1} = {h[i] : i \in 1 .. k} \cup {h[k + 1]}  BY <2>2
  <2>6. Len(g[k]) \in Nat  BY <2>1, LenProperties
  <2>7. CASE h[k + 1].pinned
    <3>1. \A x \in Items(g[k]) : x.key # h[k + 1].key
      <4>1. ASSUME NEW i \in 1 .. k PROVE h[i].key # h[k + 1].key
        <5>1. i \in 1 .. Len(h) /\ i # k + 1  BY <2>2
        <5> QED  BY <2>2, <5>1 DEF Distinct
      <4> QED  BY <2>1, <4>1
    <3>2. g[k + 1] = Append(g[k], h[k + 1])  BY <2>3, <2>7
    <3>3. /\ g[k + 1] \in Seq(Clips) /\ Len(g[k + 1]) = Len(g[k]) + 1 /\ Distinct(g[k + 1])
          /\ Items(g[k + 1]) = Items(g[k]) \cup {h[k + 1]}
          BY <2>1, <2>4, <3>1, <3>2, ClipAppended
    <3>4. Len(g[k + 1]) <= k + 1  BY <2>1, <2>6, <3>3
    <3>5. Items(g[k + 1]) = {x \in {h[i] : i \in 1 .. k + 1} : x.pinned}
          BY <2>1, <2>5, <2>7, <3>3
    <3> QED  BY <2>2, <3>3, <3>4, <3>5
  <2>8. CASE ~h[k + 1].pinned
    <3>1. g[k + 1] = g[k]  BY <2>3, <2>8
    <3>2. Len(g[k + 1]) <= k + 1  BY <2>1, <2>6, <3>1
    <3>3. Items(g[k + 1]) = {x \in {h[i] : i \in 1 .. k + 1} : x.pinned}
          BY <2>1, <2>5, <2>8, <3>1
    <3> QED  BY <2>1, <2>2, <3>1, <3>2, <3>3
  <2> QED  BY <2>7, <2>8
<1> HIDE DEF T
<1>7. 0 .. Len(h) \subseteq T  BY <1>1, <1>5, <1>6, InductiveSet
<1>8. Len(h) \in T  BY <1>1, <1>7
<1>9. Sound(Len(h))  BY <1>8 DEF T
<1> QED  BY <1>3, <1>9 DEF Items

(* The keys that are written to the file.                                    *)
LEMMA SavedKeys ==
    ASSUME NEW h \in Seq(Clips), Distinct(h), Len(h) <= Limit
    PROVE  /\ PinnedKeys(h) \in Seq(ClipKeys) /\ Len(PinnedKeys(h)) <= Limit
           /\ \A i, j \in 1 .. Len(PinnedKeys(h)) : PinnedKeys(h)[i] = PinnedKeys(h)[j] => i = j
           /\ PinKeys(h) = {PinnedKeys(h)[i] : i \in 1 .. Len(PinnedKeys(h))}
<1> DEFINE q == Pinned(h)
           f == [i \in 1 .. Len(q) |-> q[i].key]
<1>1. /\ q \in Seq(Clips) /\ Len(q) <= Len(h) /\ Distinct(q)
      /\ Items(q) = {x \in Items(h) : x.pinned}
      BY PinnedFacts
<1> HIDE DEF q
<1>2. Len(q) \in Nat /\ DOMAIN q = 1 .. Len(q) /\ Len(h) \in Nat  BY <1>1, LenProperties
<1>3. PinnedKeys(h) = f  BY <1>2, Zenon DEF PinnedKeys, q
<1>4. \A i \in 1 .. Len(q) : f[i] = q[i].key /\ f[i] \in ClipKeys
      BY <1>1, ElementOfSeq, KeyOfClip
<1>5. f \in [1 .. Len(q) -> ClipKeys]  BY <1>4
<1>6. f \in Seq(ClipKeys) /\ Len(f) = Len(q)
  <2> HIDE DEF f
  <2> QED  BY <1>2, <1>5, SeqDef, LenProperties
<1> HIDE DEF f
<1>7. Len(f) <= Limit  BY <1>1, <1>2, <1>6, LimitIsNat
<1>8. \A i, j \in 1 .. Len(f) : f[i] = f[j] => i = j  BY <1>1, <1>4, <1>6 DEF Distinct
<1>9. PinKeys(h) = {f[i] : i \in 1 .. Len(f)}
  <2>1. PinKeys(h) = {e.key : e \in Items(q)}  BY <1>1 DEF PinKeys
  <2>2. Items(q) = {q[i] : i \in 1 .. Len(q)}  BY DEF Items
  <2> QED  BY <1>4, <1>6, <2>1, <2>2
<1> QED  BY <1>3, <1>6, <1>7, <1>8, <1>9

(* A history that was one too long for a moment: the oldest entry that is    *)
(* not pinned goes.                                                          *)
LEMMA TrimFacts ==
    ASSUME NEW h \in Seq(Clips), Distinct(h), Len(h) <= Limit + 1,
           NEW e \in Items(h), ~e.pinned
    PROVE  /\ Trim(h) \in Seq(Clips) /\ Len(Trim(h)) <= Limit /\ Distinct(Trim(h))
           /\ PinKeys(Trim(h)) = PinKeys(h)
<1>1. Len(h) \in Nat /\ DOMAIN h = 1 .. Len(h) /\ Limit \in Nat  BY LenProperties, LimitIsNat
<1>2. CASE Len(h) <= Limit
  <2>1. Trim(h) = h  BY <1>2, Zenon DEF Trim
  <2> QED  BY <1>2, <2>1
<1>3. CASE ~(Len(h) <= Limit)
  <2>1. PICK k \in 1 .. Len(h) : ~h[k].pinned  BY DEF Items
  <2> DEFINE T == {n \in Nat : n < Len(h) /\ ~h[Len(h) - n].pinned}
             oldest(i) == ~h[i].pinned /\ \A j \in i + 1 .. Len(h) : h[j].pinned
             i == CHOOSE m \in DOMAIN h : ~h[m].pinned /\ \A j \in m + 1 .. Len(h) : h[j].pinned
  <2>2. \E m \in DOMAIN h : oldest(m)
    <3>1. T # {}
      <4>1. Len(h) - k \in Nat /\ Len(h) - k < Len(h) /\ Len(h) - (Len(h) - k) = k  BY <1>1
      <4>2. Len(h) - k \in T  BY <2>1, <4>1
      <4> QED  BY <4>2
    <3>2. PICK n \in T : \A m \in T : n <= m
      <4>1. T \subseteq Nat  OBVIOUS
      <4> HIDE DEF T
      <4> QED  BY <3>1, <4>1, LeastOf
    <3>3. Len(h) - n \in 1 .. Len(h) /\ ~h[Len(h) - n].pinned  BY <1>1
    <3>4. ASSUME NEW j \in Len(h) - n + 1 .. Len(h) PROVE h[j].pinned
      <4>1. Len(h) - j \in Nat /\ Len(h) - j < n /\ Len(h) - j < Len(h) /\ Len(h) - (Len(h) - j) = j
            BY <1>1
      <4>2. Len(h) - j \notin T  BY <3>2, <4>1
      <4> QED  BY <4>1, <4>2
    <3> QED  BY <1>1, <3>3, <3>4
  <2>3. i \in 1 .. Len(h) /\ ~h[i].pinned  BY <1>1, <2>2
  <2>4. Trim(h) = RemoveAt(h, i)  BY <1>1, <1>3, <2>1, Zenon DEF Trim
  <2> HIDE DEF i
  <2>5. /\ Trim(h) \in Seq(Clips) /\ Len(Trim(h)) = Len(h) - 1 /\ Distinct(Trim(h))
        /\ Items(Trim(h)) = Items(h) \ {h[i]}
    <3> DEFINE rest == RemoveAt(h, i)
    <3>1. /\ rest \in Seq(Clips) /\ Len(rest) = Len(h) - 1 /\ Distinct(rest)
          /\ Items(rest) = Items(h) \ {h[i]}
          BY <2>3, ClipRemoved, Zenon
    <3> QED  BY <2>4, <3>1, Zenon
  <2>6. PinKeys(Trim(h)) = PinKeys(h)
    <3>1. {x \in Items(Trim(h)) : x.pinned} = {x \in Items(h) : x.pinned}  BY <2>3, <2>5
    <3> QED  BY <3>1, Zenon DEF PinKeys
  <2>7. Len(Trim(h)) <= Limit  BY <1>1, <2>5
  <2> QED  BY <2>5, <2>6, <2>7
<1> QED  BY <1>2, <1>3

Fits(h) == h \in Seq(Clips) /\ Distinct(h) /\ Len(h) <= Limit

(* A copy moves to the top what is there, or pushes out what is not pinned.  *)
LEMMA AddedFacts ==
    ASSUME NEW h, Fits(h), NEW k \in ClipKeys
    PROVE  Fits(Added(h, k)) /\ PinKeys(Added(h, k)) = PinKeys(h)
<1>1. /\ h \in Seq(Clips) /\ Distinct(h) /\ Len(h) <= Limit
      /\ Len(h) \in Nat /\ DOMAIN h = 1 .. Len(h) /\ Limit \in Nat
      BY LenProperties, LimitIsNat DEF Fits
<1>2. CASE \E i \in DOMAIN h : h[i].key = k
  <2> DEFINE i == CHOOSE i \in DOMAIN h : h[i].key = k
             rest == RemoveAt(h, i)
  <2>1. i \in 1 .. Len(h)  BY <1>1, <1>2
  <2>2. Added(h, k) = <<h[i]>> \o rest  BY <1>2, Zenon DEF Added
  <2> HIDE DEF i
  <2>3. /\ rest \in Seq(Clips) /\ Len(rest) = Len(h) - 1 /\ Distinct(rest)
        /\ Items(rest) = Items(h) \ {h[i]} /\ \A x \in Items(rest) : x.key # h[i].key
        BY <1>1, <2>1, ClipRemoved, Zenon
  <2> HIDE DEF rest
  <2>4. h[i] \in Clips /\ h[i] \in Items(h)  BY <1>1, <2>1, ElementOfSeq DEF Items
  <2>5. /\ Added(h, k) \in Seq(Clips) /\ Len(Added(h, k)) = Len(rest) + 1
        /\ Distinct(Added(h, k)) /\ Items(Added(h, k)) = Items(rest) \cup {h[i]}
        BY <2>2, <2>3, <2>4, ClipOnTop
  <2>6. Items(Added(h, k)) = Items(h)  BY <2>3, <2>4, <2>5
  <2>7. Len(Added(h, k)) <= Limit  BY <1>1, <2>3, <2>5
  <2> QED  BY <2>5, <2>6, <2>7 DEF Fits, PinKeys
<1>3. CASE ~\E i \in DOMAIN h : h[i].key = k
  <2> DEFINE e == [key |-> k, pinned |-> FALSE]
             g == <<e>> \o h
  <2>1. e \in Clips /\ e.key = k /\ ~e.pinned  BY DEF Clips
  <2>2. Added(h, k) = Trim(g)  BY <1>3, Zenon DEF Added
  <2> HIDE DEF e
  <2>3. \A x \in Items(h) : x.key # e.key  BY <1>1, <1>3, <2>1 DEF Items
  <2>4. /\ g \in Seq(Clips) /\ Len(g) = Len(h) + 1
        /\ Distinct(g) /\ Items(g) = Items(h) \cup {e}
        BY <1>1, <2>1, <2>3, ClipOnTop
  <2> HIDE DEF g
  <2>5. Len(g) <= Limit + 1 /\ e \in Items(g)  BY <1>1, <2>4
  <2>6. /\ Trim(g) \in Seq(Clips) /\ Len(Trim(g)) <= Limit /\ Distinct(Trim(g))
        /\ PinKeys(Trim(g)) = PinKeys(g)
        BY <2>1, <2>4, <2>5, TrimFacts
  <2>7. PinKeys(g) = PinKeys(h)
    <3>1. {x \in Items(g) : x.pinned} = {x \in Items(h) : x.pinned}  BY <2>1, <2>4
    <3> QED  BY <3>1, Zenon DEF PinKeys
  <2> QED  BY <2>2, <2>6, <2>7 DEF Fits
<1> QED  BY <1>2, <1>3

LEMMA CapturedFacts ==
    ASSUME NEW h, Fits(h), NEW c, images \in Nat
    PROVE  Fits(Captured(h, c)) /\ PinKeys(Captured(h, c)) = PinKeys(h)
<1>1. Image(images + 1) \in ClipKeys  BY DEF ClipKeys, Image
<1>2. c \in ClipTexts => <<"text", c>> \in ClipKeys  BY DEF ClipKeys
<1>3. \/ Captured(h, c) = h
      \/ Captured(h, c) = add_image(h, images + 1)
      \/ c \in ClipTexts /\ Captured(h, c) = add_text(h, c)
      BY DEF Captured
<1>4. add_image(h, images + 1) = Added(h, Image(images + 1))  BY DEF add_image
<1>5. add_text(h, c) = h \/ add_text(h, c) = Added(h, <<"text", c>>)  BY DEF add_text
<1> QED  BY <1>1, <1>2, <1>3, <1>4, <1>5, AddedFacts, Zenon

(* What the file brings back.                                                *)
LEMMA LoadedFacts ==
    ASSUME ClipInv PROVE Fits(_load_pinned) /\ PinKeys(_load_pinned) = PinKeys(clips)
<1>1. /\ kept \in Seq(ClipKeys) /\ Len(kept) <= Limit /\ Len(kept) \in Nat /\ Limit \in Nat
      /\ \A i, j \in 1 .. Len(kept) : kept[i] = kept[j] => i = j
      /\ PinKeys(clips) = {kept[i] : i \in 1 .. Len(kept)}
      BY LenProperties, LimitIsNat DEF ClipInv
<1> DEFINE h == [i \in 1 .. Len(kept) |-> [key |-> kept[i], pinned |-> TRUE]]
<1>2. _load_pinned = h
  <2>1. ~(Len(kept) > Limit)  BY <1>1
  <2> QED  BY <2>1, Zenon DEF _load_pinned
<1>3. \A i \in 1 .. Len(kept) : h[i] \in Clips /\ h[i].key = kept[i] /\ h[i].pinned
  <2>1. \A i \in 1 .. Len(kept) : kept[i] \in ClipKeys  BY <1>1, ElementOfSeq
  <2> QED  BY <2>1 DEF Clips
<1>4. h \in [1 .. Len(kept) -> Clips]  BY <1>3
<1> HIDE DEF h
<1>5. h \in Seq(Clips) /\ Len(h) = Len(kept)  BY <1>1, <1>4, SeqDef, LenProperties
<1>6. Fits(h)  BY <1>1, <1>3, <1>5 DEF Fits, Distinct
<1>7. PinKeys(h) = {kept[i] : i \in 1 .. Len(kept)}
  <2>1. {x \in Items(h) : x.pinned} = {h[i] : i \in 1 .. Len(kept)}  BY <1>3, <1>5 DEF Items
  <2> QED  BY <1>3, <2>1 DEF PinKeys
<1> QED  BY <1>1, <1>2, <1>6, <1>7

LEMMA ClipKeeps == ASSUME ClipInv, [ClipNext]_clipVars PROVE ClipInv'
<1>1. Fits(clips) /\ images \in Nat  BY DEF ClipInv, Fits
<1>2. clips \in Seq(Clips) /\ Len(clips) \in Nat /\ DOMAIN clips = 1 .. Len(clips) /\ Distinct(clips)
      BY <1>1, LenProperties DEF Fits
(* The file is as it was, and so is the set of what is pinned.               *)
<1>3. ASSUME Fits(clips'), PinKeys(clips') = PinKeys(clips), kept' = kept, images' \in Nat
      PROVE  ClipInv'
  <2>1. PinKeys(clips)' = PinKeys(clips')  BY DEF PinKeys, Items
  <2>2. Distinct(clips)'  BY <1>3 DEF Fits, Distinct
  <2> QED  BY <1>3, <2>1, <2>2 DEF ClipInv, Fits
(* The file is written anew.                                                 *)
<1>4. ASSUME Fits(clips'), kept' = PinnedKeys(clips'), images' = images PROVE ClipInv'
  <2>1. PinKeys(clips)' = PinKeys(clips')  BY DEF PinKeys, Items
  <2>2. Distinct(clips)'  BY <1>4 DEF Fits, Distinct
  <2>3. /\ PinnedKeys(clips') \in Seq(ClipKeys) /\ Len(PinnedKeys(clips')) <= Limit
        /\ \A i, j \in 1 .. Len(PinnedKeys(clips')) :
              PinnedKeys(clips')[i] = PinnedKeys(clips')[j] => i = j
        /\ PinKeys(clips') = {PinnedKeys(clips')[i] : i \in 1 .. Len(PinnedKeys(clips'))}
        BY <1>4, SavedKeys DEF Fits
  <2>4. images' \in Nat  BY <1>1, <1>4
  <2> QED  BY <1>4, <2>1, <2>2, <2>3, <2>4 DEF ClipInv, Fits
<1>5. ASSUME NEW c, Copy(c) PROVE ClipInv'
  <2>1. clips' = Captured(clips, c) /\ kept' = kept /\ images' = FilesWritten(c)
        BY <1>5 DEF Copy
  <2>2. images' \in Nat  BY <1>1, <2>1 DEF FilesWritten
  <2> QED  BY <1>1, <1>3, <2>1, <2>2, CapturedFacts
<1>6. CASE CopyText \/ CopyImage \/ applyRow
      BY <1>5, <1>6 DEF CopyText, CopyImage, applyRow
<1>7. CASE pinRow
  <2>1. PICK i \in 1 .. Len(clips) : /\ clips' = toggle_pin(clips, i) /\ kept' = PinnedKeys(clips')
                                     /\ images' = images
        BY <1>2, <1>7 DEF pinRow
  <2> DEFINE e == [clips[i] EXCEPT !.pinned = ~@]
  <2>2. clips' = [clips EXCEPT ![i] = e]  BY <2>1 DEF toggle_pin
  <2>3. e \in Clips /\ e.key = clips[i].key
    <3>1. clips[i] \in [key : ClipKeys, pinned : BOOLEAN]  BY <1>2, ElementOfSeq DEF Clips
    <3> QED  BY <3>1 DEF Clips
  <2> HIDE DEF e
  <2>4. /\ clips' \in Seq(Clips) /\ Len(clips') = Len(clips)
        /\ \A j \in 1 .. Len(clips) : clips'[j] = IF j = i THEN e ELSE clips[j]
        BY <1>2, <2>2, <2>3, ExceptSeq
  <2>5. \A j \in 1 .. Len(clips) : clips'[j].key = clips[j].key  BY <2>3, <2>4
  <2>6. Fits(clips')  BY <1>1, <2>4, <2>5 DEF Fits, Distinct
  <2> QED  BY <1>4, <2>1, <2>6
<1>8. CASE deleteClip
  <2>1. PICK i \in 1 .. Len(clips) :
           /\ clips' = RemoveAt(clips, i) /\ images' = images
           /\ kept' = IF clips[i].pinned THEN PinnedKeys(clips') ELSE kept
        BY <1>2, <1>8 DEF deleteClip, remove
  <2>2. /\ clips' \in Seq(Clips) /\ Len(clips') = Len(clips) - 1 /\ Distinct(clips')
        /\ Items(clips') = Items(clips) \ {clips[i]}
        BY <1>2, <2>1, ClipRemoved, Zenon
  <2>3. Fits(clips')
    <3>1. Len(clips') <= Limit  BY <1>1, <1>2, <2>2, LimitIsNat DEF Fits
    <3> QED  BY <2>2, <3>1 DEF Fits
  <2>4. CASE clips[i].pinned  BY <1>4, <2>1, <2>3, <2>4
  <2>5. CASE ~clips[i].pinned
    <3>1. {x \in Items(clips') : x.pinned} = {x \in Items(clips) : x.pinned}  BY <2>2, <2>5
    <3>2. PinKeys(clips') = PinKeys(clips)  BY <3>1, Zenon DEF PinKeys
    <3> QED  BY <1>1, <1>3, <2>1, <2>3, <2>5, <3>2
  <2> QED  BY <2>4, <2>5
<1>9. CASE clearAll
  <2>1. clips' = Pinned(clips) /\ kept' = kept /\ images' = images  BY <1>9 DEF clearAll
  <2>2. /\ clips' \in Seq(Clips) /\ Len(clips') <= Len(clips) /\ Distinct(clips')
        /\ Items(clips') = {x \in Items(clips) : x.pinned}
        BY <1>2, <2>1, PinnedFacts
  <2>3. Fits(clips')
    <3>1. Len(clips') \in Nat  BY <2>2, LenProperties
    <3>2. Len(clips') <= Limit  BY <1>1, <1>2, <2>2, <3>1, LimitIsNat DEF Fits
    <3> QED  BY <2>2, <3>2 DEF Fits
  <2>4. {x \in Items(clips') : x.pinned} = {x \in Items(clips) : x.pinned}  BY <2>2
  <2>5. PinKeys(clips') = PinKeys(clips)  BY <2>4, Zenon DEF PinKeys
  <2> QED  BY <1>1, <1>3, <2>1, <2>3, <2>5
<1>10. CASE SwitchRecording
  <2>1. UNCHANGED <<clips, kept, images>>  BY <1>10 DEF SwitchRecording
  <2> QED  BY <1>1, <1>3, <2>1
<1>11. CASE ClipRestart
  <2>1. PICK c : clips' = Captured(_load_pinned, c)  BY <1>11 DEF ClipRestart
  <2>2. kept' = kept /\ images' = images  BY <1>11 DEF ClipRestart
  <2>3. Fits(clips') /\ PinKeys(clips') = PinKeys(clips)
        BY <1>1, <2>1, LoadedFacts, CapturedFacts
  <2> QED  BY <1>1, <1>3, <2>2, <2>3
<1>12. CASE UNCHANGED clipVars
  <2>1. UNCHANGED <<clips, kept, images>>  BY <1>12 DEF clipVars
  <2> QED  BY <1>1, <1>3, <2>1
<1> QED  BY <1>6, <1>7, <1>8, <1>9, <1>10, <1>11, <1>12 DEF ClipNext

(* For any texts and any limit, however often the session begins anew: the   *)
(* history holds nothing twice and no more than fits, and the file would     *)
(* bring back exactly what is pinned (History.add, _trim, toggle_pin,        *)
(* _load_pinned).                                                            *)
THEOREM PinsSurvive == ClipSpec => []PinsArePersistent
<1>1. ClipInit => ClipInv
  <2> SUFFICES ASSUME ClipInit PROVE ClipInv  OBVIOUS
  <2>1. clips = <<>> /\ kept = <<>> /\ images = 0  BY DEF ClipInit
  <2>2. /\ <<>> \in Seq(Clips) /\ <<>> \in Seq(ClipKeys) /\ Len(<<>>) = 0 /\ 0 <= Limit
        /\ 1 .. 0 = {} /\ 0 \in Nat
        BY EmptySeq, LimitIsNat
  <2>3. Distinct(clips) /\ PinKeys(clips) = {}  BY <2>1, <2>2 DEF Distinct, PinKeys, Items
  <2> QED  BY <2>1, <2>2, <2>3 DEF ClipInv
<1>2. ClipInv /\ [ClipNext]_clipVars => ClipInv'  BY ClipKeeps
<1>3. ClipInv => PinsArePersistent
  <2> SUFFICES ASSUME ClipInv PROVE PinsArePersistent  OBVIOUS
  <2>1. /\ clips \in Seq(Clips) /\ Distinct(clips) /\ Len(clips) <= Limit
        /\ PinKeys(clips) = {kept[i] : i \in 1 .. Len(kept)} /\ kept \in Seq(ClipKeys)
        BY DEF ClipInv
  <2>2. DOMAIN clips = 1 .. Len(clips) /\ DOMAIN kept = 1 .. Len(kept)  BY <2>1, LenProperties
  <2>3. IsInjective([i \in DOMAIN clips |-> clips[i].key])
        BY <2>1, <2>2 DEF Distinct, IsInjective
  <2> DEFINE q == Pinned(clips)
  <2>4. q \in Seq(Clips) /\ Items(q) = {x \in Items(clips) : x.pinned}  BY <2>1, PinnedFacts
  <2> HIDE DEF q
  <2>5. DOMAIN q = 1 .. Len(q)  BY <2>4, LenProperties
  <2>6. Keys(q) = {e.key : e \in Items(q)}  BY <2>5 DEF Keys, Items
  <2>7. Keys(q) = PinKeys(clips)  BY <2>4, <2>6 DEF PinKeys
  <2> QED  BY <2>1, <2>2, <2>3, <2>7 DEF PinsArePersistent, q
<1> QED  BY <1>1, <1>2, <1>3, PTL DEF ClipSpec

-----------------------------------------------------------------------------
(* The entries of a session's start, for every set of entries and contents.  *)

Rows == [entry : Entries, dir : _autostart_dirs, enabled : BOOLEAN]
StartupInv ==
    /\ autostart \in [_autostart_dirs -> [Entries -> Seq(EntryLines)]]
    /\ listed \subseteq Rows

LEMMA MinIsLeast ==
    ASSUME NEW S, S \subseteq Nat, S # {}
    PROVE  Min(S) \in S /\ \A k \in S : Min(S) <= k
<1>1. PICK n \in S : \A k \in S : n <= k  BY LeastOf
<1> QED  BY <1>1 DEF Min

(* A line put between what comes before it and has no such line, and the rest. *)
OneHides(r, enabled) ==
    /\ r \in Seq(EntryLines)
    /\ \E m \in 1 .. Len(r) : Hides(r) = {m} /\ r[m] = HiddenLine(enabled)

LEMMA HidesBetween ==
    ASSUME NEW p \in Seq(EntryLines), NEW q \in Seq(EntryLines), NEW enabled \in BOOLEAN,
           \A i \in 1 .. Len(p) : p[i].kind # "Hidden",
           \A i \in 1 .. Len(q) : q[i].kind # "Hidden"
    PROVE  OneHides(p \o <<HiddenLine(enabled)>> \o q, enabled)
<1> DEFINE h == HiddenLine(enabled)
           r == p \o <<h>> \o q
           m == Len(p) + 1
<1>1. h \in EntryLines /\ h.kind = "Hidden"  BY DEF HiddenLine, EntryLines
<1> HIDE DEF h
<1>2. /\ r \in Seq(EntryLines) /\ Len(r) = m + Len(q) /\ Len(p) \in Nat /\ Len(q) \in Nat
      /\ \A i \in 1 .. Len(p) : r[i] = p[i]
      /\ r[m] = h
      /\ \A i \in 1 .. Len(q) : r[m + i] = q[i]
  <2>1. p \o <<h>> \in Seq(EntryLines) /\ Len(p \o <<h>>) = m
    BY <1>1
  <2>2. \A i \in 1 .. m : (p \o <<h>>)[i] = IF i = m THEN h ELSE p[i]  BY <1>1
  <2> DEFINE ph == p \o <<h>>
  <2> HIDE DEF ph
  <2>3. ph \o q \in Seq(EntryLines) /\ Len(ph \o q) = m + Len(q)  BY <2>1 DEF ph
  <2>4. /\ \A i \in 1 .. m : (ph \o q)[i] = ph[i]
        /\ \A i \in 1 .. Len(q) : (ph \o q)[m + i] = q[i]
    BY <2>1 DEF ph
  <2> QED  BY <2>1, <2>2, <2>3, <2>4 DEF ph
<1> HIDE DEF r
<1>3. ASSUME NEW i \in 1 .. Len(r), i # m PROVE r[i].kind # "Hidden"
  <2>1. CASE i < m
    <3>1. i \in 1 .. Len(p)  BY <1>2, <2>1
    <3> QED  BY <1>2, <3>1
  <2>2. CASE i > m
    <3>1. i - m \in 1 .. Len(q) /\ m + (i - m) = i  BY <1>2, <1>3, <2>2
    <3> QED  BY ZenonT(30), <1>2, <3>1
  <2> QED  BY <1>2, <1>3, <2>1, <2>2
<1>4. m \in 1 .. Len(r) /\ DOMAIN r = 1 .. Len(r)  BY <1>2
<1>5. Hides(r) = {m}  BY <1>1, <1>2, <1>3, <1>4 DEF Hides
<1> HIDE DEF m
<1>6. OneHides(r, enabled)  BY <1>2, <1>4, <1>5 DEF OneHides, h
<1> QED  BY <1>6 DEF r, h

(* Whatever an entry says, its copy says what was asked for, once. *)
LEMMA RewrittenHides ==
    ASSUME NEW lines \in Seq(EntryLines), NEW enabled \in BOOLEAN
    PROVE  OneHides(Rewritten(lines, enabled), enabled)
<1> DEFINE hides == Hides(lines)
           h == HiddenLine(enabled)
           none == <<>>
<1>1. DOMAIN lines = 1 .. Len(lines) /\ Len(lines) \in Nat  OBVIOUS
<1>2. hides = {i \in 1 .. Len(lines) : lines[i].kind = "Hidden"}  BY <1>1 DEF Hides
<1>3. h \in EntryLines  BY DEF HiddenLine, EntryLines
<1> HIDE DEF hides
<1>4. CASE hides = {}
  <2>1. none \in Seq(EntryLines) /\ \A i \in 1 .. Len(none) : none[i].kind # "Hidden"  OBVIOUS
  <2>2. \A i \in 1 .. Len(lines) : lines[i].kind # "Hidden"  BY <1>2, <1>4
  <2> HIDE DEF none
  <2>3. OneHides(lines \o <<HiddenLine(enabled)>> \o none, enabled)
    BY <2>1, <2>2, HidesBetween
  <2> HIDE DEF h
  <2>4. lines \o <<h>> \o none = Append(lines, h)
    <3>1. lines \o <<h>> = Append(lines, h)  BY <1>1, <1>3
    <3>2. Append(lines, h) \o none = Append(lines, h)  BY <1>1, <1>3 DEF none
    <3> QED  BY <3>1, <3>2
  <2>5. Rewritten(lines, enabled) = Append(lines, h)  BY <1>4 DEF Rewritten, h, hides
  <2> QED  BY <2>3, <2>4, <2>5 DEF h
<1>5. CASE hides # {}
  <2> DEFINE m == Min(hides)
             p == SubSeq(lines, 1, m - 1)
             rest == SubSeq(lines, m + 1, Len(lines))
             K == {"group", "Name"}
             q == Only(K, rest)
  <2>1. m \in 1 .. Len(lines) /\ \A k \in hides : m <= k
    <3>1. hides \subseteq Nat /\ hides \subseteq 1 .. Len(lines)  BY <1>2
    <3>2. m \in hides /\ \A k \in hides : m <= k  BY <1>5, <3>1, MinIsLeast
    <3> QED  BY <3>1, <3>2
  <2>2. Rewritten(lines, enabled) = p \o <<h>> \o q  BY <1>5 DEF Rewritten, hides
  <2> HIDE DEF m
  <2>4. /\ p \in Seq(EntryLines) /\ Len(p) = m - 1
        /\ \A i \in 1 .. m - 1 : p[i] = lines[i]
    <3> DEFINE k == m - 1
    <3>1. k \in 0 .. Len(lines)  BY <1>1, <2>1
    <3> HIDE DEF k, m
    <3>2. /\ SubSeq(lines, 1, k) \in Seq(EntryLines) /\ Len(SubSeq(lines, 1, k)) = k
          /\ \A i \in 1 .. k : SubSeq(lines, 1, k)[i] = lines[i]
      BY <1>1, <3>1
    <3> QED  BY <3>2 DEF k
  <2>5. rest \in Seq(EntryLines)
    <3> DEFINE n == Len(lines)
    <3>1. n \in Nat /\ m \in 1 .. n /\ lines \in Seq(EntryLines) /\ Len(lines) = n
      BY <1>1, <2>1
    <3> HIDE DEF m, n
    <3>2. SubSeq(lines, m + 1, n) \in Seq(EntryLines)  BY <3>1
    <3> QED  BY <3>2 DEF n
  <2> HIDE DEF p, rest
  <2>6. ASSUME NEW i \in 1 .. Len(p) PROVE p[i].kind # "Hidden"
    <3>1. i \in 1 .. Len(lines) /\ i < m /\ p[i] = lines[i]  BY <1>1, <2>1, <2>4
    <3>2. i \notin hides  BY <2>1, <3>1
    <3> QED  BY <1>2, <3>1, <3>2
  <2>7. q \in Seq({l \in EntryLines : l.kind \in K})  BY <2>5, OnlyThose
  <2>8. q \in Seq(EntryLines) /\ \A i \in 1 .. Len(q) : q[i].kind # "Hidden"
    <3> HIDE DEF q
    <3>1. \A i \in 1 .. Len(q) : q[i] \in {l \in EntryLines : l.kind \in K}  BY <2>7
    <3>2. q \in Seq(EntryLines)  BY <2>7, <3>1
    <3> QED  BY <3>1, <3>2
  <2> HIDE DEF q, h
  <2>9. OneHides(p \o <<HiddenLine(enabled)>> \o q, enabled)
    BY <2>4, <2>6, <2>8, HidesBetween
  <2> QED  BY <2>2, <2>9 DEF h
<1> QED  BY <1>4, <1>5

(* What is read of such a copy. *)
LEMMA HidesAsAsked ==
    ASSUME NEW r, NEW enabled \in BOOLEAN, OneHides(r, enabled)
    PROVE  _desktop_values(r).hidden = (InEntryGroup(r, Min(Hides(r))) /\ ~enabled)
<1>1. PICK m \in 1 .. Len(r) : Hides(r) = {m} /\ r[m] = HiddenLine(enabled)  BY DEF OneHides
<1>2. Min({m}) = m  BY DEF Min
<1>3. (r[m].value = "true") = ~enabled  BY <1>1 DEF HiddenLine
<1> DEFINE inside == {i \in Hides(r) : InEntryGroup(r, i)}
<1>4. _desktop_values(r).hidden = (inside # {} /\ r[Min(inside)].value = "true")
  BY DEF _desktop_values
<1>5. CASE InEntryGroup(r, m)
  <2>1. inside = {m}  BY <1>1, <1>5
  <2> HIDE DEF inside
  <2> QED  BY <1>1, <1>2, <1>3, <1>4, <1>5, <2>1
<1>6. CASE ~InEntryGroup(r, m)
  <2>1. inside = {}  BY <1>1, <1>6
  <2> HIDE DEF inside
  <2> QED  BY <1>1, <1>2, <1>4, <1>6, <2>1
<1> QED  BY <1>5, <1>6

(* The list names entries there are, and of two copies the user's. *)
LEMMA ListedRows ==
    ASSUME NEW found PROVE startup(found) \subseteq Rows
<1>1. \A lines : _desktop_values(lines).hidden \in BOOLEAN  BY DEF _desktop_values
<1>2. ASSUME NEW row \in startup(found) PROVE row \in Rows
  <2>1. PICK dir \in {"user", "system"}, e \in Entries :
           row = [entry |-> e, dir |-> dir, enabled |-> ~_desktop_values(found[dir][e]).hidden]
    BY <1>2 DEF startup
  <2>2. ASSUME NEW x PROVE (~x) \in BOOLEAN  OBVIOUS
  <2> QED  BY <2>1, <2>2 DEF Rows, _autostart_dirs
<1> QED  BY <1>2

LEMMA UsersCopyWins ==
    ASSUME NEW found, NEW e \in Entries, found["user"][e] # NoEntry,
           NEW row \in startup(found), row.entry = e
    PROVE  IF _desktop_values(found["user"][e]).named
           THEN row.enabled = ~_desktop_values(found["user"][e]).hidden
           ELSE row.dir = "system"
BY DEF startup

LEMMA StartupSteps == ASSUME StartupInv, [StartupNext]_startupVars
                      PROVE StartupInv' /\ (TogglesTake => TogglesTake')
<1>1. CASE refreshStartup
  <2>1. StartupInv'  BY <1>1, ListedRows DEF refreshStartup, StartupInv
  <2>2. lastToggle'.answer # "ok"  BY <1>1 DEF refreshStartup, NoToggle
  <2> QED  BY <2>1, <2>2 DEF TogglesTake
<1>2. ASSUME NEW row \in listed, toggleStartup(row) PROVE StartupInv' /\ TogglesTake'
  <2> DEFINE enabled == ~row.enabled
             lines == autostart[row.dir][row.entry]
  <2>1. /\ row.entry \in Entries /\ row.dir \in _autostart_dirs /\ enabled \in BOOLEAN
        /\ listed' \subseteq Rows /\ lines \in Seq(EntryLines)
    BY <1>2, ListedRows DEF StartupInv, Rows, toggleStartup
  <2>2. CASE UNCHANGED autostart /\ lastToggle'.answer # "ok"
    BY <2>1, <2>2 DEF StartupInv, TogglesTake
  <2>3. CASE /\ lines # NoEntry
             /\ lastToggle' = [entry |-> row.entry, wanted |-> enabled, answer |-> "ok"]
             /\ autostart' = [autostart EXCEPT !["user"][row.entry] = Rewritten(lines, enabled)]
    <3> DEFINE new == Rewritten(lines, enabled)
    <3> HIDE DEF enabled, lines
    <3>1. OneHides(new, enabled)  BY <2>1, RewrittenHides
    <3> HIDE DEF new
    <3>2. "user" \in _autostart_dirs /\ new \in Seq(EntryLines) /\ new # NoEntry
      BY <3>1 DEF _autostart_dirs, OneHides, NoEntry
    <3>3. /\ autostart' \in [_autostart_dirs -> [Entries -> Seq(EntryLines)]]
          /\ autostart'["user"][row.entry] = new
      BY <2>1, <2>3, <3>2 DEF StartupInv, new
    <3>4. StartupInv'  BY <2>1, <3>3 DEF StartupInv
    <3>5. listed' = startup(autostart')  BY <1>2 DEF toggleStartup
    <3>6. _desktop_values(new).hidden = (InEntryGroup(new, Min(Hides(new))) /\ ~enabled)
      BY <2>1, <3>1, HidesAsAsked
    <3>7. ASSUME NEW r \in listed', r.entry = row.entry
          PROVE  \/ r.enabled = enabled
                 \/ ~enabled /\ ~InEntryGroup(new, Min(Hides(new)))
                 \/ r.dir = "system" /\ ~_desktop_values(new).named
      <4>1. IF _desktop_values(new).named
            THEN r.enabled = ~_desktop_values(new).hidden ELSE r.dir = "system"
        BY <2>1, <3>2, <3>3, <3>5, <3>7, UsersCopyWins
      <4> QED  BY <2>1, <3>6, <4>1
    <3>8. lastToggle'.entry = row.entry /\ lastToggle'.wanted = enabled  BY <2>3
    <3>9. TogglesTake'  BY <3>3, <3>7, <3>8 DEF TogglesTake
    <3> QED  BY <3>4, <3>9
  <2> QED  BY <1>2, <2>2, <2>3 DEF toggleStartup, set_startup_enabled
<1>3. ASSUME NEW dir \in _autostart_dirs, NEW e \in Entries, OtherWrites(dir, e)
      PROVE StartupInv' /\ TogglesTake'
  <2>1. PICK lines \in Contents \cup {NoEntry} : autostart' = [autostart EXCEPT ![dir][e] = lines]
    BY <1>3 DEF OtherWrites
  <2>2. lines \in Seq(EntryLines)
    <3>1. NoEntry \in Seq(EntryLines)  BY DEF NoEntry
    <3> QED  BY <3>1, StartupAssumption
  <2>3. StartupInv'  BY <1>3, <2>1, <2>2 DEF StartupInv, OtherWrites
  <2>4. lastToggle'.answer # "ok"  BY <1>3 DEF OtherWrites, NoToggle
  <2> QED  BY <2>3, <2>4 DEF TogglesTake
<1>4. CASE UNCHANGED startupVars
  BY <1>4 DEF startupVars, StartupInv, TogglesTake
<1> QED  BY <1>1, <1>2, <1>3, <1>4 DEF StartupNext

(* For any entries, of any groups and lines: a toggle that was told "ok" is    *)
(* what the list shows and the next session reads, whoever else writes the    *)
(* directories, but for turning off an entry whose Hidden line is outside     *)
(* [Desktop Entry], and for a copy without a name (StartupModel.toggle).      *)
THEOREM TogglesAreTaken == StartupSpec => []TogglesTake
<1>1. StartupInit => StartupInv /\ TogglesTake
  <2> SUFFICES ASSUME StartupInit PROVE StartupInv /\ TogglesTake  OBVIOUS
  <2>1. PICK e \in Entries, lines \in Contents :
          autostart = [dir \in _autostart_dirs |-> [f \in Entries |->
                         IF dir = "system" /\ f = e THEN lines ELSE NoEntry]]
    BY DEF StartupInit
  <2>2. lines \in Seq(EntryLines) /\ NoEntry \in Seq(EntryLines)
    BY StartupAssumption DEF NoEntry
  <2>3. StartupInv  BY <2>1, <2>2 DEF StartupInv, StartupInit
  <2>4. TogglesTake  BY DEF StartupInit, TogglesTake, NoToggle
  <2> QED  BY <2>3, <2>4
<1> QED  BY <1>1, StartupSteps, PTL DEF StartupSpec

-----------------------------------------------------------------------------
(* What is broken among the devices, and what is shown of it.                *)

DeviceRecords == [source : Sources, name : Nat, working : BOOLEAN]
(* Of one source, no two devices have one name; of two in one category, one  *)
(* is sorted before the other.                                               *)
OneEach(S) == \A d, e \in S : d.source = e.source /\ d.name = e.name => d = e
Ordered(S) == \A d, e \in S : d # e => SortsBefore(d, e) \/ SortsBefore(e, d)
SortedList(s) == \A i, j \in DOMAIN s : i < j => SortsBefore(s[i], s[j])

LEMMA SameCategory ==
    ASSUME NEW a \in Sources, NEW b \in Sources, CategoryOf[a] = CategoryOf[b], a # b
    PROVE  (a = "pci-net" /\ b # "pci-net") \/ (b = "pci-net" /\ a # "pci-net")
<1>1. CASE a = "pci-net"  BY <1>1
<1>2. CASE b = "pci-net"  BY <1>2
<1>3. CASE a # "pci-net" /\ b # "pci-net"
  <2>1. \A c \in Sources \ {"pci-net"} :
          CategoryOf[c] = CASE c = "net" -> "network"
                            [] c = "usb" -> "usb" [] c = "block" -> "disks"
                            [] c = "sound" -> "sound" [] c = "camera" -> "cameras"
                            [] c = "display" -> "displays" [] c = "input" -> "input"
                            [] c = "printer" -> "printers" [] c = "cpu" -> "processors"
                            [] c = "memory" -> "memory" [] c = "board" -> "board"
    BY DEF CategoryOf, Sources
  <2> QED  BY <1>3, <2>1 DEF Sources
<1> QED  BY <1>1, <1>2, <1>3

LEMMA OneCategory ==
    ASSUME NEW S \in SUBSET DeviceRecords, OneEach(S), NEW c,
           \A d \in S : CategoryOf[d.source] = c
    PROVE  Ordered(S)
<1>1. SUFFICES ASSUME NEW d \in S, NEW e \in S, d # e PROVE SortsBefore(d, e) \/ SortsBefore(e, d)
  BY DEF Ordered
<1>2. d.name \in Nat /\ e.name \in Nat /\ d.source \in Sources /\ e.source \in Sources
  BY DEF DeviceRecords
<1>3. CASE d.name # e.name
  <2>1. d.name < e.name \/ e.name < d.name  BY <1>2, <1>3
  <2> QED  BY <2>1 DEF SortsBefore
<1>4. CASE d.name = e.name
  <2>1. d.source # e.source  BY <1>1, <1>4 DEF OneEach
  <2>2. CategoryOf[d.source] = CategoryOf[e.source]  OBVIOUS
  <2> QED  BY <1>2, <1>4, <2>1, <2>2, SameCategory DEF SortsBefore
<1> QED  BY <1>3, <1>4

LEMMA FirstOfThem ==
    ASSUME NEW S \in SUBSET DeviceRecords, S # {}, Ordered(S)
    PROVE  \E m \in S : \A d \in S : d # m => SortsBefore(m, d)
<1> DEFINE names == {d.name : d \in S}
<1>1. names \subseteq Nat /\ names # {}  BY DEF DeviceRecords
<1>2. PICK a \in names : \A k \in names : a <= k
  <2> HIDE DEF names
  <2> QED  BY <1>1, LeastOf
<1>3. \A d \in S : d.name \in Nat /\ a <= d.name  BY <1>1, <1>2
<1>4. PICK m \in S : m.name = a /\ (m.source = "pci-net" \/ \A d \in S : d.name = a => d.source # "pci-net")
  BY <1>2
<1>5. ASSUME NEW d \in S, d # m PROVE SortsBefore(m, d)
  <2>1. CASE d.name # a
    <3>1. m.name < d.name  BY <1>1, <1>3, <1>4, <2>1
    <3> QED  BY <3>1 DEF SortsBefore
  <2>2. CASE d.name = a
    <3>1. ~(d.name < m.name) /\ ~(m.name < d.name)  BY <1>1, <1>4, <2>2
    <3>2. ~SortsBefore(d, m)  BY <1>4, <2>2, <3>1 DEF SortsBefore
    <3> QED  BY <1>5, <3>2 DEF Ordered
  <2> QED  BY <2>1, <2>2
<1> QED  BY <1>5

LEMMA SortedExists ==
    ASSUME NEW S \in SUBSET DeviceRecords, IsFiniteSet(S), Ordered(S)
    PROVE  \E s \in [1 .. Cardinality(S) -> S] : SortedList(s)
<1> DEFINE Sortable(R, n) == IsFiniteSet(R) /\ Cardinality(R) = n =>
                                \E s \in [1 .. n -> R] : SortedList(s)
           T == {n \in Nat : \A R \in SUBSET S : Sortable(R, n)}
<1>1. Cardinality(S) \in Nat  BY FS_CardinalityType
<1>2. 0 \in T
  <2>1. ASSUME NEW R \in SUBSET S PROVE \E s \in [1 .. 0 -> R] : SortedList(s)
    <3>1. [i \in 1 .. 0 |-> i] \in [1 .. 0 -> R] /\ SortedList([i \in 1 .. 0 |-> i])
      BY DEF SortedList
    <3> QED  BY <3>1
  <2> QED  BY <2>1
<1>3. ASSUME NEW n \in 0 .. Cardinality(S) - 1, n \in T PROVE n + 1 \in T
  <2>0. n \in Nat  BY <1>1
  <2>1. ASSUME NEW R \in SUBSET S, IsFiniteSet(R), Cardinality(R) = n + 1
        PROVE  \E s \in [1 .. n + 1 -> R] : SortedList(s)
    <3>1. R # {} /\ Ordered(R)
      <4>1. R # {}  BY <2>0, <2>1, FS_EmptySet
      <4> QED  BY <4>1 DEF Ordered
    <3>2. PICK m \in R : \A d \in R : d # m => SortsBefore(m, d)  BY <3>1, FirstOfThem
    <3> DEFINE Q == R \ {m}
    <3>3. IsFiniteSet(Q) /\ Cardinality(Q) = n
      <4>1. IsFiniteSet(Q) /\ Cardinality(Q) = Cardinality(R) - 1  BY <2>1, FS_RemoveElement
      <4> QED  BY <2>0, <2>1, <4>1
    <3>4. PICK s \in [1 .. n -> Q] : SortedList(s)
      <4> HIDE DEF Q
      <4>1. Q \in SUBSET S  BY DEF Q
      <4> QED  BY <1>3, <3>3, <4>1
    <3> DEFINE u == [i \in 1 .. n + 1 |-> IF i = 1 THEN m ELSE s[i - 1]]
    <3>5. u[1] = m /\ \A i \in 2 .. n + 1 : i - 1 \in 1 .. n /\ u[i] = s[i - 1]  BY <2>0
    <3>6. u \in [1 .. n + 1 -> R] /\ DOMAIN u = 1 .. n + 1 /\ DOMAIN s = 1 .. n  BY <2>0
    <3> HIDE DEF u
    <3>7. ASSUME NEW i \in 1 .. n + 1, NEW j \in 1 .. n + 1, i < j
          PROVE  SortsBefore(u[i], u[j])
      <4>1. j \in 2 .. n + 1  BY <2>0, <3>7
      <4>2. u[j] \in Q /\ u[j] = s[j - 1]  BY <3>5, <4>1
      <4>3. CASE i = 1  BY <3>2, <3>5, <4>2, <4>3
      <4>4. CASE i # 1
        <5>1. i \in 2 .. n + 1 /\ i - 1 < j - 1  BY <2>0, <3>7, <4>4
        <5>2. u[i] = s[i - 1] /\ i - 1 \in DOMAIN s /\ j - 1 \in DOMAIN s
          BY <3>5, <3>6, <4>1, <5>1
        <5> QED  BY <3>4, <4>2, <5>1, <5>2 DEF SortedList
      <4> QED  BY <4>3, <4>4
    <3>8. SortedList(u)  BY <3>6, <3>7 DEF SortedList
    <3> QED  BY <3>6, <3>8
  <2> QED  BY <2>0, <2>1
<1> HIDE DEF T
<1>4. 0 .. Cardinality(S) \subseteq T  BY <1>1, <1>2, <1>3, InductiveSet
<1>5. Cardinality(S) \in T  BY <1>1, <1>4
<1> QED  BY <1>5 DEF T

(* The list of a category's devices has all of them.                         *)
LEMMA MembersAre ==
    ASSUME NEW node, NEW S \in SUBSET DeviceRecords, node.devices = S, IsFiniteSet(S), Ordered(S)
    PROVE  /\ Members(node) \in Seq(S)
           /\ \A d \in S : \E i \in DOMAIN Members(node) : Members(node)[i] = d
<1> DEFINE n == Cardinality(S)
           s == Members(node)
<1>1. n \in Nat  BY FS_CardinalityType
<1>2. s \in [1 .. n -> S] /\ SortedList(s)
  <2>1. \E t \in [1 .. n -> S] : SortedList(t)  BY SortedExists
  <2> QED  BY <2>1, Zenon DEF Members, SortedList
<1> HIDE DEF n, s
<1>3. s \in Injection(1 .. n, S)
  <2>1. ASSUME NEW i \in 1 .. n, NEW j \in 1 .. n, i < j PROVE s[i] # s[j]
    <3>1. SortsBefore(s[i], s[j])  BY <1>2, <2>1 DEF SortedList
    <3>2. s[i].name \in Nat  BY <1>2 DEF DeviceRecords
    <3>3. ~(s[i].name < s[i].name)  BY <3>2
    <3> QED  BY <3>1, <3>3 DEF SortsBefore
  <2>2. ASSUME NEW i \in 1 .. n, NEW j \in 1 .. n, s[i] = s[j] PROVE i = j
    <3>1. ~(i < j) /\ ~(j < i)  BY <2>1, <2>2
    <3> QED  BY <1>1, <3>1
  <2> QED  BY <1>2, <2>2 DEF Injection, IsInjective
<1>4. Cardinality(1 .. n) = n  BY <1>1, FS_Interval
<1>5. s \in Surjection(1 .. n, S)  BY <1>3, <1>4, FS_Injection DEF n
<1>6. \A d \in S : \E i \in 1 .. n : s[i] = d  BY <1>5 DEF Surjection
<1>7. s \in Seq(S) /\ DOMAIN s = 1 .. n  BY <1>1, <1>2
<1> QED  BY <1>6, <1>7 DEF s

(* What the readers list is one record for each unit they show.              *)
Shape(u) == Device(u, IF u[1] \in {"pci-net", "usb", "net", "printer"} THEN hardware[u] = "bound" ELSE TRUE)

LEMMA DevicesAre ==
    ASSUME hardware \in [Units -> UnitStates]
    PROVE  devices \subseteq DeviceRecords /\ IsFiniteSet(devices) /\ OneEach(devices)
<1> DEFINE shapes == {Shape(u) : u \in Units}
<1>1. devices \subseteq shapes
  <2>1. pci_devices \subseteq shapes  BY DEF pci_devices, Shape
  <2>2. usb_devices \subseteq shapes  BY DEF usb_devices, Shape
  <2>3. network_devices \subseteq shapes  BY DEF network_devices, Shape
  <2>4. printers \subseteq shapes  BY DEF printers, Shape
  <2>5. ASSUME NEW c, c \notin {"pci-net", "usb", "net", "printer"} PROVE Working(c) \subseteq shapes
    BY <2>5 DEF Working, Shape
  <2>6. /\ block_devices \subseteq shapes /\ sound_cards \subseteq shapes /\ cameras \subseteq shapes
        /\ displays \subseteq shapes /\ input_devices \subseteq shapes /\ processors \subseteq shapes
        /\ memory \subseteq shapes /\ board \subseteq shapes
    BY <2>5 DEF block_devices, sound_cards, cameras, displays, input_devices, processors, memory, board
  <2> HIDE DEF shapes
  <2> QED  BY <2>1, <2>2, <2>3, <2>4, <2>6 DEF devices
<1>2. ASSUME NEW u \in Units
      PROVE  Shape(u) \in DeviceRecords /\ Shape(u).source = u[1] /\ Shape(u).name = u[2]
             /\ u = <<u[1], u[2]>>
  <2>1. u \in Sources \X Nat  BY UnitsAreNamed
  <2>2. u[1] \in Sources /\ u[2] \in Nat /\ u = <<u[1], u[2]>>  BY <2>1
  <2> QED  BY <2>2 DEF Shape, Device, DeviceRecords
<1>3. OneEach(shapes)
  <2>1. ASSUME NEW u \in Units, NEW v \in Units, Shape(u).source = Shape(v).source,
               Shape(u).name = Shape(v).name
        PROVE  u = v
    BY <1>2, <2>1
  <2> QED  BY <2>1 DEF OneEach
<1>4. IsFiniteSet(shapes)
  <2> DEFINE f == [u \in Units |-> Shape(u)]
  <2>1. f \in Surjection(Units, shapes)  BY DEF Surjection
  <2> HIDE DEF f, shapes
  <2> QED  BY <2>1, FS_Surjection, UnitsAreNamed
<1>5. shapes \subseteq DeviceRecords  BY <1>2
<1> HIDE DEF shapes
<1>6. IsFiniteSet(devices)  BY <1>1, <1>4, FS_Subset
<1> QED  BY <1>1, <1>3, <1>5, <1>6 DEF OneEach

CategoryNames == {CATEGORY_ORDER[i] : i \in 1 .. 11}
Nodes == [category : CategoryNames, devices : SUBSET DeviceRecords,
          reason : {"", "none found", "not visible"}]

LEMMA CategoriesInOrder ==
    /\ DOMAIN CATEGORY_ORDER = 1 .. 11
    /\ \A i, j \in 1 .. 11 : CATEGORY_ORDER[i] = CATEGORY_ORDER[j] => i = j
<1>1. \A i \in 1 .. 11 :
        CATEGORY_ORDER[i] = CASE i = 1 -> "processors" [] i = 2 -> "memory" [] i = 3 -> "board"
                              [] i = 4 -> "disks" [] i = 5 -> "network" [] i = 6 -> "sound"
                              [] i = 7 -> "usb" [] i = 8 -> "cameras" [] i = 9 -> "input"
                              [] i = 10 -> "displays" [] i = 11 -> "printers"
  BY DEF CATEGORY_ORDER
<1>2. DOMAIN CATEGORY_ORDER = 1 .. 11  BY DEF CATEGORY_ORDER
<1>3. \A i, j \in 1 .. 11 : CATEGORY_ORDER[i] = CATEGORY_ORDER[j] => i = j  BY <1>1
<1> QED  BY <1>2, <1>3

(* A tree: each category once, with devices that are there and are of it.    *)
TreeOf(t, S) ==
    /\ t \in Seq(Nodes)
    /\ \A i \in DOMAIN t : t[i].devices \subseteq S
                           /\ \A d \in t[i].devices : CategoryOf[d.source] = t[i].category
    /\ \A i, j \in DOMAIN t : t[i].category = t[j].category => i = j

LEMMA TreeIs ==
    ASSUME hardware \in [Units -> UnitStates]
    PROVE  TreeOf(Tree, devices)
<1> DEFINE One(c) == IF InCategory(c) # {} \/ c \in _ALWAYS_SHOWN THEN <<Node(c)>> ELSE <<>>
           s == [i \in DOMAIN CATEGORY_ORDER |-> One(CATEGORY_ORDER[i])]
<1>1. devices \subseteq DeviceRecords  BY DevicesAre
<1>2. ASSUME NEW c \in CategoryNames
      PROVE  /\ Node(c) \in Nodes /\ Node(c).category = c /\ Node(c).devices \subseteq devices
             /\ \A d \in Node(c).devices : CategoryOf[d.source] = c
  <2>1. InCategory(c) \subseteq devices /\ \A d \in InCategory(c) : CategoryOf[d.source] = c
    BY DEF InCategory
  <2>2. (IF InCategory(c) = {} THEN _reason(c) ELSE "") \in {"", "none found", "not visible"}
    BY DEF _reason
  <2> QED  BY <1>1, <2>1, <2>2 DEF Node, Nodes
<1>3. ASSUME NEW c \in CategoryNames
      PROVE  One(c) \in Seq(Nodes) /\ \A x \in DOMAIN One(c) : x = 1 /\ One(c)[x] = Node(c)
  BY <1>2
<1> HIDE DEF One
<1>4. /\ s \in Seq(Seq(Nodes)) /\ DOMAIN s = 1 .. 11 /\ Len(s) = 11
      /\ \A i \in 1 .. 11 : s[i] = One(CATEGORY_ORDER[i]) /\ CATEGORY_ORDER[i] \in CategoryNames
  <2>1. \A i \in 1 .. 11 : CATEGORY_ORDER[i] \in CategoryNames  BY DEF CategoryNames
  <2>2. s \in [1 .. 11 -> Seq(Nodes)]  BY <1>3, <2>1, CategoriesInOrder
  <2> QED  BY <2>1, <2>2, CategoriesInOrder
<1>5. Tree = FlattenSeq(s)  BY DEF Tree, One
<1> HIDE DEF s
<1>6. ASSUME NEW i \in DOMAIN s, NEW x \in DOMAIN s[i] PROVE x = 1 /\ s[i][x] = Node(CATEGORY_ORDER[i])
  <2>1. s[i] = One(CATEGORY_ORDER[i]) /\ CATEGORY_ORDER[i] \in CategoryNames  BY <1>4
  <2> QED  BY <1>3, <2>1
<1>7. OnePlace(s)
  <2>1. SUFFICES ASSUME NEW i \in DOMAIN s, NEW h \in DOMAIN s, NEW x \in DOMAIN s[i],
                        NEW y \in DOMAIN s[h], s[i][x] = s[h][y]
                 PROVE  i = h /\ x = y
    BY DEF OnePlace
  <2>2. x = 1 /\ y = 1 /\ Node(CATEGORY_ORDER[i]) = Node(CATEGORY_ORDER[h])  BY <1>6, <2>1
  <2>3. CATEGORY_ORDER[i] = CATEGORY_ORDER[h]  BY <1>2, <1>4, <2>2
  <2> QED  BY <1>4, <2>2, <2>3, CategoriesInOrder
<1>8. Tree \in Seq(Nodes) /\ Gathered(Tree, s, 11) /\ EachOnce(Tree)
  BY <1>4, <1>5, <1>7, FlattenGathers
<1>9. ASSUME NEW j \in DOMAIN Tree PROVE \E i \in 1 .. 11 : Tree[j] = Node(CATEGORY_ORDER[i])
  <2>1. PICK i \in 1 .. 11 : \E x \in DOMAIN s[i] : Tree[j] = s[i][x]  BY <1>8 DEF Gathered
  <2>2. i \in DOMAIN s  BY <1>4
  <2> QED  BY <1>6, <2>1, <2>2
<1>10. ASSUME NEW j \in DOMAIN Tree
       PROVE  /\ Tree[j] = Node(Tree[j].category) /\ Tree[j].devices \subseteq devices
              /\ \A d \in Tree[j].devices : CategoryOf[d.source] = Tree[j].category
  <2>1. PICK i \in 1 .. 11 : Tree[j] = Node(CATEGORY_ORDER[i])  BY <1>9
  <2> QED  BY <1>2, <1>4, <2>1
<1>11. \A i, j \in DOMAIN Tree : Tree[i].category = Tree[j].category => i = j
  BY <1>8, <1>10 DEF EachOnce
<1> QED  BY <1>8, <1>10, <1>11 DEF TreeOf

(* A tree of devices that can be sorted and counted, as every enumeration     *)
(* leaves it.                                                                 *)
SoundTree(t) == \E S \in SUBSET DeviceRecords : IsFiniteSet(S) /\ OneEach(S) /\ TreeOf(t, S)

LEMMA SoundTreeFacts ==
    ASSUME NEW t, SoundTree(t), NEW i \in DOMAIN t
    PROVE  /\ t[i] \in Nodes /\ t[i].devices \in SUBSET DeviceRecords
           /\ IsFiniteSet(t[i].devices) /\ Ordered(t[i].devices)
<1>1. PICK S \in SUBSET DeviceRecords : IsFiniteSet(S) /\ OneEach(S) /\ TreeOf(t, S)  BY DEF SoundTree
<1>2. /\ t[i] \in Nodes /\ t[i].devices \in SUBSET S
      /\ \A d \in t[i].devices : CategoryOf[d.source] = t[i].category
  BY <1>1 DEF TreeOf
<1>3. IsFiniteSet(t[i].devices)  BY <1>1, <1>2, FS_Subset
<1>4. OneEach(t[i].devices)  BY <1>1, <1>2 DEF OneEach
<1>5. Ordered(t[i].devices)
  <2> DEFINE R == t[i].devices
             c == t[i].category
  <2>1. R \in SUBSET DeviceRecords /\ OneEach(R) /\ \A d \in R : CategoryOf[d.source] = c
    BY <1>2, <1>4
  <2> HIDE DEF R, c
  <2>2. Ordered(R)  BY <2>1, OneCategory
  <2> QED  BY <2>2 DEF R
<1> QED  BY <1>2, <1>3, <1>5

RowRecords == [kind : {"category"}, category : CategoryNames]
              \cup [kind : {"device"}, category : CategoryNames, device : DeviceRecords]

(* Every device of an open category has a row.                                *)
LEMMA RowsShow ==
    ASSUME NEW t, SoundTree(t), NEW open, NEW i \in DOMAIN t, NEW d \in t[i].devices,
           t[i].category \in open
    PROVE  \E j \in DOMAIN _flatten(t, open) :
              _flatten(t, open)[j].kind = "device" /\ _flatten(t, open)[j].device = d
<1> DEFINE s == [h \in DOMAIN t |-> NodeRows(t[h], open)]
<1>1. ASSUME NEW h \in DOMAIN t
      PROVE  /\ NodeRows(t[h], open) \in Seq(RowRecords)
             /\ t[h].category \in open =>
                  \A e \in t[h].devices : \E x \in DOMAIN NodeRows(t[h], open) :
                     NodeRows(t[h], open)[x].kind = "device" /\ NodeRows(t[h], open)[x].device = e
  <2> DEFINE S == t[h].devices
             c == t[h].category
             m == Members(t[h])
             first == <<[kind |-> "category", category |-> c]>>
             listed2 == [x \in DOMAIN m |-> [kind |-> "device", category |-> c, device |-> m[x]]]
             rest == IF c \notin open THEN <<>> ELSE listed2
  <2>1. t[h] \in Nodes /\ S \in SUBSET DeviceRecords /\ IsFiniteSet(S) /\ Ordered(S)
    BY SoundTreeFacts
  <2>2. m \in Seq(S) /\ \A e \in S : \E x \in DOMAIN m : m[x] = e
    <3> HIDE DEF S
    <3>1. t[h].devices = S  BY DEF S
    <3> QED  BY <2>1, <3>1, MembersAre
  <2>3. c \in CategoryNames  BY <2>1 DEF Nodes
  <2> HIDE DEF S, c, m
  <2>4. first \in Seq(RowRecords) /\ Len(first) = 1
    <3>1. [kind |-> "category", category |-> c] \in RowRecords  BY <2>3 DEF RowRecords
    <3> QED  BY <3>1
  <2>5. listed2 \in Seq(RowRecords) /\ Len(listed2) = Len(m)
    <3>1. \A x \in 1 .. Len(m) : m[x] \in DeviceRecords  BY <2>1, <2>2
    <3>2. \A x \in 1 .. Len(m) : [kind |-> "device", category |-> c, device |-> m[x]] \in RowRecords
      BY <2>3, <3>1 DEF RowRecords
    <3> QED  BY <2>2, <3>2
  <2>6. rest \in Seq(RowRecords)  BY <2>5
  <2>7. NodeRows(t[h], open) = first \o rest  BY DEF NodeRows, S, c, m
  <2> HIDE DEF first
  <2>8. first \o rest \in Seq(RowRecords)
    <3> HIDE DEF rest
    <3> QED  BY <2>4, <2>6, ConcatProperties
  <2>9. ASSUME c \in open, NEW e \in S
        PROVE  \E x \in DOMAIN (first \o rest) :
                  (first \o rest)[x].kind = "device" /\ (first \o rest)[x].device = e
    <3>1. rest = listed2  BY <2>9
    <3>2. PICK x \in DOMAIN m : m[x] = e  BY <2>2
    <3>3. x \in 1 .. Len(m) /\ x \in Nat /\ Len(m) \in Nat  BY <2>2
    <3>4. listed2[x].kind = "device" /\ listed2[x].device = e  BY <3>2
    <3> HIDE DEF rest, listed2
    <3>5. /\ Len(first \o rest) = 1 + Len(m)
          /\ \A y \in 1 .. 1 + Len(m) : (first \o rest)[y] = IF y <= 1 THEN first[y] ELSE rest[y - 1]
      <4>1. /\ Len(first \o rest) = Len(first) + Len(rest)
            /\ \A y \in 1 .. Len(first) + Len(rest) :
                  (first \o rest)[y] = IF y <= Len(first) THEN first[y] ELSE rest[y - Len(first)]
        BY <2>4, <2>6, ConcatProperties
      <4>2. Len(rest) = Len(m) /\ Len(first) = 1  BY <2>4, <2>5, <3>1
      <4> QED  BY <4>1, <4>2
    <3>6. /\ x + 1 \in 1 .. 1 + Len(m) /\ ~(x + 1 <= 1) /\ (x + 1) - 1 = x
      BY <3>3
    <3>7. (first \o rest)[x + 1] = rest[x]  BY <3>5, <3>6
    <3>8. x + 1 \in DOMAIN (first \o rest)  BY <2>8, <3>5, <3>6
    <3> QED  BY <3>1, <3>4, <3>7, <3>8
  <2> HIDE DEF rest
  <2> QED  BY <2>7, <2>8, <2>9 DEF S, c
<1>2. s \in Seq(Seq(RowRecords)) /\ DOMAIN s = DOMAIN t
  <2>1. t \in Seq(Nodes)  BY DEF SoundTree, TreeOf
  <2>2. Len(t) \in Nat /\ DOMAIN t = 1 .. Len(t)  BY <2>1
  <2>3. s \in [1 .. Len(t) -> Seq(RowRecords)]  BY <1>1, <2>2
  <2> QED  BY <2>2, <2>3
<1>3. _flatten(t, open) = FlattenSeq(s)  BY DEF _flatten
<1>4. s[i] = NodeRows(t[i], open)  OBVIOUS
<1>5. PICK x \in DOMAIN s[i] : s[i][x].kind = "device" /\ s[i][x].device = d  BY <1>1, <1>4
<1> HIDE DEF s
<1>6. Gathered(FlattenSeq(s), s, Len(s)) /\ i \in 1 .. Len(s)  BY <1>2, FlattenGathers
<1>7. PICK j \in DOMAIN FlattenSeq(s) : FlattenSeq(s)[j] = s[i][x]  BY <1>6 DEF Gathered
<1> QED  BY <1>3, <1>5, <1>7

(* The devices that do not work are counted once each.                        *)
LEMMA BrokenAreCounted ==
    ASSUME NEW t, SoundTree(t)
    PROVE  Cardinality(BrokenIn(t)) = Cardinality(UNION {Broken(t[i]) : i \in DOMAIN t})
<1> DEFINE all == UNION {Broken(t[i]) : i \in DOMAIN t}
           pairs == BrokenIn(t)
           f == [p \in pairs |-> p[2]]
<1>1. PICK S \in SUBSET DeviceRecords : IsFiniteSet(S) /\ OneEach(S) /\ TreeOf(t, S)  BY DEF SoundTree
<1>2. \A i \in DOMAIN t : \A d \in Broken(t[i]) :
          d \in S /\ CategoryOf[d.source] = t[i].category
  BY <1>1 DEF TreeOf, Broken
<1>3. IsFiniteSet(all)
  <2>1. all \in SUBSET S  BY <1>2
  <2> QED  BY <1>1, <2>1, FS_Subset
<1>4. \A p \in pairs : p = <<p[1], p[2]>> /\ p[1] \in DOMAIN t /\ p[2] \in Broken(t[p[1]])
  BY DEF BrokenIn
<1>5. \A i \in DOMAIN t : \A d \in Broken(t[i]) : <<i, d>> \in pairs  BY DEF BrokenIn
<1> HIDE DEF pairs
<1>6. ASSUME NEW p \in pairs, NEW q \in pairs, p[2] = q[2] PROVE p = q
  <2>1. t[p[1]].category = t[q[1]].category  BY <1>2, <1>4, <1>6
  <2>2. p[1] = q[1]  BY <1>1, <1>4, <2>1 DEF TreeOf
  <2> QED  BY <1>4, <1>6, <2>2
<1>7. f \in [pairs -> all]  BY <1>4
<1>8. f \in Injection(pairs, all)  BY <1>6, <1>7 DEF Injection, IsInjective
<1>9. f \in Surjection(pairs, all)
  <2>1. ASSUME NEW d \in all PROVE \E p \in pairs : f[p] = d
    <3>1. PICK i \in DOMAIN t : d \in Broken(t[i])  OBVIOUS
    <3>2. <<i, d>> \in pairs  BY <1>5, <3>1
    <3>3. f[<<i, d>>] = d  BY <3>2
    <3> QED  BY <3>2, <3>3
  <2> HIDE DEF f, all
  <2> QED  BY <1>7, <2>1 DEF Surjection
<1> HIDE DEF f, all
<1>10. Cardinality(pairs) = Cardinality(all)  BY <1>3, <1>8, <1>9, FS_Injection
<1> QED  BY <1>10 DEF pairs, all

DevicesInv ==
    /\ hardware \in [Units -> UnitStates]
    /\ SoundTree(tree)
    /\ deviceRows = _flatten(tree, expanded)
    /\ problems = Cardinality(BrokenIn(tree))
    /\ \A p \in BrokenIn(tree) : tree[p[1]].category \in expanded \cup closed

LEMMA EmptyTree == SoundTree(<<>>) /\ Cardinality(BrokenIn(<<>>)) = 0 /\ BrokenIn(<<>>) = {}
                   /\ \A open : _flatten(<<>>, open) = <<>>
<1>1. <<>> \in Seq(Nodes) /\ DOMAIN <<>> = {} /\ Len(<<>>) = 0  OBVIOUS
<1>2. TreeOf(<<>>, {})  BY <1>1 DEF TreeOf
<1>3. SoundTree(<<>>)  BY <1>2, FS_EmptySet DEF SoundTree, OneEach
<1>4. BrokenIn(<<>>) = {}  BY <1>1 DEF BrokenIn
<1>5. ASSUME NEW open PROVE _flatten(<<>>, open) = <<>>
  <2>1. [i \in DOMAIN <<>> |-> NodeRows(<<>>[i], open)] = <<>>  BY <1>1
  <2> QED  BY <1>1, <2>1 DEF _flatten, FlattenSeq
<1> QED  BY <1>3, <1>4, <1>5, FS_EmptySet

LEMMA EnumeratedSteps ==
    ASSUME DevicesInv, Enumerated, UNCHANGED hardware
    PROVE  DevicesInv'
<1>1. SoundTree(Tree)
  <2>1. hardware \in [Units -> UnitStates]  BY DEF DevicesInv
  <2>2. devices \in SUBSET DeviceRecords /\ IsFiniteSet(devices) /\ OneEach(devices)
    BY <2>1, DevicesAre
  <2>3. TreeOf(Tree, devices)  BY <2>1, TreeIs
  <2> QED  BY <2>2, <2>3 DEF SoundTree
<1>2. tree' = Tree  BY DEF Enumerated
<1>3. SoundTree(tree')  BY <1>1, <1>2
<1>4. deviceRows' = _flatten(tree', expanded') /\ problems' = Cardinality(BrokenIn(tree'))
  BY DEF Enumerated
<1>5. \A p \in BrokenIn(tree') : tree'[p[1]].category \in expanded'  BY DEF Enumerated
<1>6. hardware' \in [Units -> UnitStates]  BY DEF DevicesInv
<1> QED  BY <1>3, <1>4, <1>5, <1>6 DEF DevicesInv

LEMMA DevicesSteps == DevicesInv /\ [DevicesNext]_deviceVars => DevicesInv'
<1> SUFFICES ASSUME DevicesInv, [DevicesNext]_deviceVars PROVE DevicesInv'  OBVIOUS
<1>1. CASE refreshDevices  BY <1>1, EnumeratedSteps DEF refreshDevices
<1>2. CASE rescan  BY <1>2, EnumeratedSteps DEF rescan
<1>3. ASSUME NEW index \in DOMAIN deviceRows, toggleDevices(index) PROVE DevicesInv'
  <2> DEFINE c == deviceRows[index].category
  <2>1. UNCHANGED <<hardware, tree, problems>> /\ deviceRows' = _flatten(tree, expanded')
    BY <1>3 DEF toggleDevices
  <2>2. /\ expanded' = IF c \in expanded THEN expanded \ {c} ELSE expanded \cup {c}
        /\ closed' = IF c \in expanded THEN closed \cup {c} ELSE closed \ {c}
    BY <1>3 DEF toggleDevices
  <2> HIDE DEF c
  <2>3. expanded \cup closed \subseteq expanded' \cup closed'  BY <2>2
  <2> QED  BY <2>1, <2>3 DEF DevicesInv
<1>4. ASSUME NEW unit \in Units, Plug(unit) PROVE DevicesInv'
  <2>1. PICK state \in UnitStates : hardware' = [hardware EXCEPT ![unit] = state]  BY <1>4 DEF Plug
  <2>2. hardware' \in [Units -> UnitStates]  BY <2>1 DEF DevicesInv
  <2> QED  BY <1>4, <2>2 DEF Plug, DevicesInv
<1>5. CASE UNCHANGED deviceVars  BY <1>5 DEF deviceVars, DevicesInv
<1> QED  BY <1>1, <1>2, <1>3, <1>4, <1>5 DEF DevicesNext

(* For any units: however the hardware changes and the categories are opened, *)
(* closed and enumerated again, the header counts the devices of the tree     *)
(* that do not work, once each, and every one of them has a row or is in a    *)
(* category the user closed after it was found (DeviceModel.refresh, toggle). *)
THEOREM BrokenIsShown == DevicesSpec => []BrokenIsSeen
<1>1. DevicesInit => DevicesInv
  <2> SUFFICES ASSUME DevicesInit PROVE DevicesInv  OBVIOUS
  <2>1. hardware \in [Units -> UnitStates]  BY DEF DevicesInit, UnitStates
  <2>2. tree = <<>> /\ deviceRows = <<>> /\ problems = 0  BY DEF DevicesInit
  <2> QED  BY <2>1, <2>2, EmptyTree DEF DevicesInv
<1>2. DevicesInv => BrokenIsSeen
  <2> SUFFICES ASSUME DevicesInv PROVE BrokenIsSeen  OBVIOUS
  <2> DEFINE broken == UNION {Broken(tree[i]) : i \in DOMAIN tree}
  <2>1. problems = Cardinality(broken)  BY BrokenAreCounted DEF DevicesInv
  <2>2. ASSUME NEW d \in broken
        PROVE  \/ \E i \in DOMAIN deviceRows : deviceRows[i].kind = "device" /\ deviceRows[i].device = d
               \/ CategoryOf[d.source] \in closed
    <3>1. PICK i \in DOMAIN tree : d \in Broken(tree[i])  OBVIOUS
    <3>2. d \in tree[i].devices  BY <3>1 DEF Broken
    <3>3. CategoryOf[d.source] = tree[i].category  BY <3>2 DEF DevicesInv, SoundTree, TreeOf
    <3>4. tree[i].category \in expanded \cup closed
      <4>1. <<i, d>> \in BrokenIn(tree)  BY <3>1 DEF BrokenIn
      <4> QED  BY <4>1 DEF DevicesInv
    <3>5. CASE tree[i].category \in expanded
      <4>1. SoundTree(tree) /\ deviceRows = _flatten(tree, expanded)  BY DEF DevicesInv
      <4> QED  BY <3>2, <3>5, <4>1, RowsShow
    <3> QED  BY <3>3, <3>4, <3>5
  <2> HIDE DEF broken
  <2> QED  BY <2>1, <2>2 DEF BrokenIsSeen, broken
<1> QED  BY <1>1, <1>2, DevicesSteps, PTL DEF DevicesSpec
=============================================================================
