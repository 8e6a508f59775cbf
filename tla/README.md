# Zaldros in TLA+

Models, model-checking runs and proofs for Zaldros, a desktop environment written in Python and Qt: a
D-Bus backend of its own (`src/backend`), the shell (`src/shell`) and three office programs over
LibreOffice (`src/apps`). Every definition is a translation of that code; PROJECT.json says for each one
which lines it stands for.

    tlc  -workers 2 -config MCApps.cfg MCApps.tla
    tlapm WriterProofs.tla

## 1. Inventory

Zaldros has no server of its own. Each program is one process with one GUI thread; what makes it hard is
that the thread talks to the rest of the system by *synchronous* exchanges (D-Bus calls, LibreOffice
calls, files), between which services change, answer late or die, while Qt timers, socket notifiers and
user actions are queued behind the running slot.

| Component | State it keeps | Operations and interactions | What is hard | What makes it correct |
|---|---|---|---|---|
| D-Bus connection (`backend/connection.py`) | serial, parked messages, handler list, reference-counted match rules, owner watch, closed flag | `call`, `subscribe`, `cancel`, `dispatch`, `close`; the socket to the daemon | everything a call reads that is not its reply is parked; timeouts and late replies; handlers that call and subscribe; names that change owner; a message that does not parse ends the call that reads it, and only an error or the end of the socket closes it | signals once and in order; the daemon holds the rule of every subscriber; a binding follows the owner of its name |
| D-Bus wire format (`wire.py`) | none | marshal, unmarshal | alignment, nested containers, limits | round trip |
| Bus wrapper (`bus.py`) | the connection, time of the next attempt, failure text, owned-name cache | `connection`, `call`, `subscribe`, `has_service`, `export` | lazy reconnect without the old subscriptions; stale cache | at most one attempt per delay; no answer from a dead connection's cache |
| Backend facade, event bridge (`facade.py`, `qtbridge.py`, `reading.py`) | watched domains, dirty set, scheduler flag; timer and notifiers | `watch`, `_mark`, `flush`, `_readable`; feeds `SystemState` | changes during a flush, parked signals without a notifier, a daemon that restarts | an announced change reaches the tray |
| Update check (`updates.py`, `updatecheck.py`) | generation, deadline, timer, status, reading; per worker its stop event, bus, transaction | `start`, `cancel`, `_receive`, `_expired`; worker thread with `_transaction` twice; PackageKit | cancel and timeout against a late completion, PackageKit dying at any point, silence | one worker, final verdicts, complete readings, an end |
| Object server and service (`service.py`) | exported objects | method dispatch, replies, errors | values that cannot be sent, changes without a signal | a client's reading is current, or its refresh is on the way |
| Notification server (`notifications.py`, `NotificationCenter`) | last identifier, live notifications, do not disturb | `Notify`, `CloseNotification`, expiry, actions | identifiers clients invent, a counter that restarts | the counter gives no number twice; only who names a number replaces it |
| Status facets (`power.py`, `network.py`, `bluetooth.py`, `display.py`, ...) | none, or one cached path | reads and writes of one service | partial answers | unavailable is never shown as a value |
| Administration facets (`accounts.py`, `auth.py`, `firewall.py`, ...) | none | one request each | refusals | errors are mapped, not swallowed |
| Processes and task manager (`processes.py`, `taskmanager.py`) | previous counters by pid, smoothing | sample, end, kill | reused pids, processes that vanish while read | a share never exceeds what the process in the row used |
| Terminal (`terminal.py`, `TerminalModel`) | screen grid, saved screen, cursor, modes; pty fd, pid, notifiers, tabs | parse, resize, start, read, write, close | escape sequences split over reads, resize on either screen, fd and pid reuse | what an application drew stays out of the shell's; a tab never reads or signals another's |
| System state (`SystemState`, `system.py`, `hostinfo.py`) | readings | refresh, tray and flyout values | start-up against subscription | shown readings are current or announced |
| Clipboard history (`clipboard.py`, `ClipboardModel`) | bounded entries, pins | add, pin, remove, use, persist | the bound with pins; our own copies come back | a pinned entry stays; the newest copy is there |
| Screen capture, game bar, portal (`capture.py`, `portal.py`, `GameBar`) | recorder process, portal session | portal requests with nested event loops, start, stop | clicks inside the portal's wait, responses before the connection to their signal | the panel loses a recorder only in that wait; what it reports is on the disk |
| File manager (`files.py`, `FilesModel`) | listing, history, clipboard, trash | copy, move, rename, trash, restore | names taken between look and system call; failure halfway | only a lost race overwrites; the trash can restore |
| Preferences (`prefs.py`) | one JSON file | read, merge, atomic replace | several processes | no process undoes another's change |
| Settings pages and controls (`settingscontrols.py`, `settingspages.py`) | last written and read value | write, read back, report | the write succeeds and the value differs | what is shown was read |
| Shell application, QML, presentation (`app.py`, `weather.py`, `icons.py`, ...) | presentation only | drawing, look-up | - | - |
| Writer (`apps/writer`) | readings, drafts, selection, formats, modified mark; two timers | type, split, merge, append, style, format, save, export, close | every engine call fails before or after its effect; timers behind slots; dialogs | no text is lost in silence; the modified mark and shown format are honest |
| Sheets (`apps/sheets`) | cell cache, selection | commit, save, reload | dependents of a changed cell | the grid shows what the engine holds |
| Slides (`apps/slides`) | slide list, current index | add, remove, move, edit, present | engine calls that raise after they took effect; indexes against a changing list | the pane is the deck unless an exception went unheard |
| Task switcher (KWin script, tab box) | none; KWin's stacking order | cycle forward, cycle back | raising a window changes the order that is cycled | every window is reached |
| Image build and verification (`build/iso`) | trees, receipts | fetch, verify, install, self-test | - | - |
| Development tools (`tools`) | none | reports, generators | - | - |
| Theme, assets, documentation, CI | none | - | - | - |

The hazards of these components, at the line where they bite and with the property that catches each,
are in PROJECT.json.

## 2. Modules

| Module | Models | Composition |
|---|---|---|
| `SignalStream` | what a connection promises about daemon-originated messages | abstract specification |
| `BusConnection` | `Connection`, the daemon, the peers | refines `SignalStream` |
| `Wire` | `wire.py` and the half of `connection.py` that cuts the socket's bytes into messages | part of `MCDesktop` |
| `ServiceBus` | `ObjectServer` of `service.py`, `Bus` of `bus.py`, the storage facet that asks over it | part of `MCDesktop`; a connection keeps order, as `BusConnection` shows |
| `UpdateCheck` | the GUI object, its workers, `_transaction`, PackageKit | each worker's bus is a `SignalStream`: a FIFO that only `dispatch()` consumes |
| `BackendEvents` | two `Bus` objects, facade, bridge, `SystemState` | one bus exchange is a step; a call parks the signals it reads, as `BusConnection` does |
| `Writer` | `DocumentModel`, `Document`, the dialogs of `Writer.qml` | part of `MCApps` |
| `TerminalScreen` | `Screen`: grid, cursor, scroll region, scrollback, alternate screen, resize | part of `MCApps` |
| `TerminalFeed` | `Screen.feed` and the decoder: escape sequences and UTF-8 over reads cut anywhere | part of `MCApps` |
| `TerminalStyle` | `_sgr`, `_extended_colour`, the runs of `lines` | part of `MCApps` |
| `TerminalSessions` | `PtySession`, `Pane`, `Tab`, `TerminalModel` | part of `MCApps` |
| `Preferences` | `prefs.py` and the rows that write it | part of `MCDesktop` |
| `Clipboard` | `clipboard.History`, its file, `ClipboardModel` | part of `MCDesktop` |
| `Notifications` | `NotificationServer` and its policy | part of `MCDesktop` |
| `Explorer` | `files.py`, `FileModel` | part of `MCDesktop` |
| `GameBar` | `GameBarModel`, `capture.py`, `portal.session` | part of `MCDesktop` |
| `Facets` | what the facets read of the machine and the calls each write makes | constant-level; extended by `Settings` |
| `Settings` | the registry of `settingscontrols.py` and `SettingsControls` | part of `MCDesktop` |
| `Processes` | the sampler of `processes.py`, `ProcessModel` | part of `MCDesktop` |
| `Startup` | autostart entries, `StartupModel` | part of `MCDesktop` |
| `Devices` | `devices.py`, `DeviceModel` | part of `MCDesktop` |
| `Sheets` | `GridModel`, `SheetGrid.qml`, the formula bar | part of `MCApps` |
| `Slides` | `DeckModel`, the notes editor | part of `MCApps` |
| `Queues` | `Only(kinds, queue)`: the members of some kinds, in order | extended by `BusConnection`, `ServiceBus`, `TerminalScreen` and others |
| `QueueProofs` | the lemmas about `Only`, about joined lists and about sequences | extended by the six modules that reason about queues |
| `BusConnectionProofs` | types, match rules and reference counts of `BusConnection`; that it implements `SignalStream`; whom handlers of well-known names hear | extends it and `QueueProofs` |
| `BackendProofs` | `BackendEvents`, `TerminalSessions`, `TerminalScreen`, `TerminalStyle`, `TerminalFeed` | extends them and `QueueProofs` |
| `UpdateCheckProofs` | `UpdateCheck` | extends it |
| `WriterProofs` | `Writer` | extends it and `QueueProofs` |
| `DesktopProofs` | `Preferences`, `Sheets`, `ServiceBus` | extends them and `QueueProofs` |
| `ShellProofs` | `GameBar`, `Notifications`, `Processes`, `Slides`, `Explorer`, `Clipboard`, `Startup`, `Devices` | extends them and `QueueProofs` |
| `SettingsProofs` | `Settings` over `Facets` | extends it and `QueueProofs` |
| `MC...` | constants and symmetry for TLC, and the parts side by side | |

`MCApps` and `MCDesktop` hold parts that share no state in the code either: different processes, or
different models of the shell that meet only in QML. The first state picks `part`, the one part that
runs; the others keep an initial state. So the state space is the sum of the parts, not their product,
and each property speaks of the variables of its own part. Where two components do interact, they are
in one module (`ServiceBus`: server, daemon and client; `Settings` over `Facets`; `TerminalSessions`:
tabs, ptys and children). Both extend their parts, so a theorem and the run speak of one definition; only
`Wire` is instantiated, because names of its are names of other parts too.

### BusConnection

`serial`, `parked`, `handlers`, `users` (`_match_users`), `watching` (`_watching_owners`) and `closed` are the
attributes of `Connection`. The Python stack is explicit: `op` is the API operation in progress with the
stage its chain of calls has reached (`subscribe` is up to three calls: `watch`, `lookup`, `match`;
`cancel` up to two: `release`, `unwatching`), and `disp` is the `dispatch()` frame with the message being
delivered and the handlers still to run. A handler body is any sequence of API operations, so calls
nest in dispatch as they do in the code. A match rule is named by the sender it selects; paths,
interfaces and members are left out, and the rule with sender `BusName` is the owner watch's own
`OWNER_CHANGED_RULE`, which a handler may share.

A call is `Send`, any number of `Park` steps, and one of `TakeReply`, `CallTimesOut`, `CallReadsGarbled`,
`CallHitsEnd`; `Complete` then does what the caller does with the result or the exception. The socket and
the receive buffer are one queue, `wire`; when the connection closes, the prefix that had already been
buffered stays readable. The daemon (external) serves `inbox` in order, keeps its match rules as a
multiset, routes signals by them, and stops at any time.

Not in the model: a handler whose body calls `dispatch()` again on the same connection, threads that share
one connection (the code gives each thread its own), and the authentication of a new socket.

`SignalStream` is the abstract specification: one queue of signals and one of method calls, each element
taken once, at the head, by `dispatch()` and never within a synchronous call; a disconnection loses a suffix.
The refinement mapping in `BusConnection` reads the two queues off `parked`, the deferred calls and
`wire`.

### UpdateCheck

The GUI variables are the properties of the class `UpdateCheck`; `posted` is Qt's queue of `_completed`
signals from the worker. Each worker walks through the stages of `_transaction` for `RefreshCache` and then
for `GetUpdates`. `late` says that the deadline has passed: the clock itself is left out, and the early
Qt timer that re-arms itself (`_expired`) is there because `Expired` may run with `late` false.
PackageKit starts, stops, emits packages, succeeds, fails and stays silent as it likes. `named` and
`owned` are history: what the present transaction announced, and which process it belongs to.

### ServiceBus and Wire

`ServiceBus` has the exported objects and their properties on one side, `Bus` on the other and the daemon
between them: `inbox` and `socket` are the two directions, `parked` what a call read on its way to its
reply. `presence` (`cache`) is the memory of `has_service` with its five seconds, `link` the connection with
its number, `retrying` the delay after a failure. The view is the reading of the storage facet; `heard`
and `link` record which subscriptions it was made under, which is what its promise depends on.

What fails is in the model as it fails in the code. A `NameHasOwner` that times out or is garbled is
remembered as a "no" for five seconds (`presence.failed`). A subscription has two requests that can fail: without
the match rule its signals never come (`hears`), without the answer of `GetNameOwner` it has no owner to
compare with until the name changes hands (`unresolved`); the facade records the domain as watched either
way. `Unsendable` are values that do not marshal as the property's type: a `Set` to one assigns it and
answers with an error, and a reply that would contain one is never sent. `SetProperty` announces its change
or, with `emit=False`, does not. `silent` are the slots whose last change no signal announced, and they are all that
`ChangeIsTold` leaves out.

`Wire` keeps a byte as the number or character it belongs to and its place in it, so alignment, lengths and
cuts are exact while byte order and the width of integers are not represented. The messages of the run
cover every padding the types ask for, an empty array, nested variants and structs, and two messages that
`_read_message` refuses.

### Terminal

A cell of `TerminalScreen` is blank, the shell's or the application's; a sequence is one action with its
count, and sizes are a few columns by rows. The window is resized at any time: while an application has the
screen the main grid behind keeps its old size, and comes back with it, so rows and columns of a grid need
not be the screen's. `TerminalFeed` reads chunks and produces pieces; a sequence's
meaning is not its subject. In `TerminalSessions` a new pty gets any number that is free, which includes
the lowest, the one the kernel gives; `close()` and `_reap()` block the GUI thread in `waitpid`: `job` is what
it is in the middle of.

### Machine-facing parts

`Explorer` has one step per system call: an operation looks (`exists()`, `unique_name`, the trash's names),
and `job` is what it has still to do (`mkdir`, the rename, the info file, the move). Another program makes,
renames, removes and trashes between any two of these steps; `disturbed` are the places it came to since the
look. `Preferences` splits a save into reading, merging, writing a temporary file and renaming it, with a
power cut at any step; edits by hand come between two saves. `GameBar` nests handshakes: `waits` is the stack of event loops, and every
button can be clicked inside one. `Settings` serves a click call by call while services refuse, vanish, or
finish an accepted job later; `Facets` says which calls a write makes, in which order, and how their results
are combined; `meant` is what the row stood for when its writer looked. `Processes` gives a pid to process
after process and compares what the row claims with what the process in it used. `Devices` lets hardware,
driver and the tool that lists it come and go. `Startup` reads and writes files of any shape, and
`Notifications` takes any `replaces_id`.

### Sheets, Slides

`Sheets` has the engine's cells, the cache, and the two open inputs with the cell each is about; `landed`
records for which cell the last edit was typed and which one it changed, and whether it came from a formula bar
that Escape had cut loose. The engine may refuse a text, or take it and fail to say what it made of it: `unread`
are the cells whose last reading back failed. The grid has one column more in the engine than on screen because
Tab moves there. `Slides` has the engine's deck, the pane and the notes editor. A call of the engine may raise
before or after it took effect, and so may a reading: `refresh` and the handlers of `DeckModel` know `EngineError`
alone, so anything else ends the slot with the pane as it was (`unheard`).

### BackendEvents

`todo` is the rest of the running slot, one exchange per item, so services change in the middle of a
refresh. For each bus there are the connection, the domains whose rules it holds, the domains with a
signal in the socket or in the parked queue, and the notifier. `shown` are the versions the tray shows. The
model covers the lost connection, the retry, and the reconnection that comes without the old rules.

### Writer

`engine` is the text, formats and styles that LibreOffice holds (external), `read` the last reading back
(`_paragraphs`), `drafts` what was typed and not confirmed, and `todo` the stages left of the running slot:
flush (write each draft, read back), the command, the move of the selection, store or export. A stage that
fails ends the slot, as `return False` does. Each engine call may raise before or after it took effect.
The replacement of a paragraph's text keeps its common prefix and suffix (`replace_paragraph_text`), so
typing inside bold text is distinguished from typing around it. `dialog`, `leaving` and `window` are the
states of `Writer.qml`.

Left out: syntax and page counts, zoom, the start of the LibreOffice process, and all character
attributes but one (`bold` stands for each; `ApplyFormat` treats them alike).

## 3. Runs

| Run | Question | Instance | Result |
|---|---|---|---|
| `bus_connection` | do the reference counts, the handlers and the daemon's rules agree (`MatchInstalled`, `UsersAreCounted`), and does the connection implement its stream (`StreamImplemented`)? | one name, two processes, two handlers, one of which holds the watch's own rule; 3 requests, 2 subscriptions, 2 messages, 1 fault | holds, 1.7 million states |
| `bus_owners` | does a subscription to a name hear exactly the process that owned the name (`HeardFromOwner`)? | 6 requests, no fault, a second handler that admits other senders | holds, 1.6 million states |
| `bus_stale_owner` | is a binding always the present owner? | 6 requests, no fault | violated, see 6 |
| `update_check` | complete readings (`CompleteReading`), losses noticed (`OwnerLossNoticed`), final verdicts (`VerdictIsFinal`), an end for the window and for the worker (`ObservationEnds`, `CheckEnds`) | 2 checks, 2 packages, 2 PackageKit processes | holds, 379 000 states |
| `backend_events` | is any announced change lost on its way (`ChangeNotLost`), is a marked domain read (`DirtyIsRead`)? | 3 domains on 2 buses, 3 changes, 1 daemon restart | holds, 152 000 states |
| `backend_start` | is the start-up value ever stuck? | 1 change | violated, see 6 |
| `backend_parked` | is what was received shown? | 2 changes | violated, see 6 |
| `applications` | what each of the seven parts promises, see below | sizes 1x1, 1x2, 2x1, one row of scrollback; 5 bytes in reads of at most 2; 2 groups, 2 cells; 3 shells in 2 tabs; Writer: 2 paragraphs of 2 characters, 3 edits, 2 engine failures; Sheets: 2 rows, 2 edits; Slides: 3 slides, 3 edits | holds, 1.33 million states |
| `terminal_resize` | does an application's output stay out of the shell's screen and scrollback? | the screen of `applications` | violated, see 6 |
| `writer_readback` | does a save write what the editors show? | 2 edits, 1 failure | violated, see 6 |
| `sheets_grid` | does the grid show what the engine holds? | 2 rows, 2 edits | violated, see 6 |
| `desktop` | the promise of each part over the machine, see below | see `MCDesktop` | holds, 833 000 states |

What `applications` and `desktop` ask of each part:

| Part | Property | Says |
|---|---|---|
| screen | `ScreenFits`, `ShellScreenIsClean` | an application's screen has the window's size, the regions and the scrollback their limits; nothing an application drew is on the shell's screen |
| screen | `MixedOnlyByResize`, `RowsNeverVanish` | sizes part, and an application's rows get into the scrollback, only through a resize behind or under an application; a resize that cuts no row loses none |
| feed, style | `SplitReadsAreWhole`, `StylesAreExact` | cutting the stream into reads changes nothing; runs show the style each cell was written in |
| sessions | `WatchersMatch`, `NoShellLeftBehind`, `EndedIsNotSignalled` | each notifier, shell and signal belongs to its tab |
| writer | `NothingUnsaved`, `CloseLosesNothing`, `DraftIsTold`, `FormatIsCurrent`, `DraftConfirmed` | drafts, modified mark, shown format and closing under failures |
| sheets | `EditsLandWhereTyped` | what was typed for one cell lands in another only from a formula bar that Escape has cut loose |
| slides | `PaneIsTheDeck` | pane, status and notes editor are the engine's deck, unless an exception was heard by nobody; the next reading mends that |
| prefs | `OnlyTheSwitchChanges` | a save leaves the old file or a whole one that differs in the clicked switch only |
| clipboard | `PinsArePersistent` | the bound holds, no content is listed twice, the pinned entries are those the file brings back |
| notifications | `OnlyWhoNamesItReplaces` | whatever numbers clients name, who names none takes nobody's notification, and the counter gives no number twice |
| explorer | `NothingIsLost` | a file is overwritten, or a record in the trash wrong, only where another program came to the very name between look and system call |
| gamebar | `CaptureIsHonest` | the panel lets go of a running recorder only inside a nested handshake; after a stop the file it names is on the disk and no earlier one |
| settings | `AnswerIsHonest` | a row that answers without a reason did what it said |
| settings | `OnlyWhatIsNamed` | a click changes what the row stood for when its writer looked, to what was asked for, and nothing else but a VPN of the same name |
| processes | `SharesAreEarned` | a share is shown exactly for a pid held at both samples; it is what the process used, or, if the pid changed hands, between nothing and that |
| startup | `TogglesTake` | a toggle that was told "ok" is what the next session reads, for files of any shape, but for a `Hidden` in another group |
| devices | `BrokenIsSeen` | the count of problems is that of the tree, and each is visible unless its category was closed |
| wire | `RoundTrip` | each message arrives as sent, once, in order, however the stream is cut |
| services | `RememberedIsTrue` | `has_service` does not contradict the daemon once its watch is on, but for a "no" that stands for a failed question |
| services | `ChangeIsTold` | a reading is current or its refresh is on the way, but for the slots that changed without a signal |

**Bounds.** Three requests are enough for a subscription to a well-known name to complete, or for one to time
out and a second to start over its late reply; six let one subscription be cancelled and another be made
while owner changes of the first are parked. Two processes let a name go away and come back to either.
Two checks are what a stale completion needs; two PackageKit processes let one die before, between and
after the two transactions of a worker and another answer instead. One restart of a daemon and three
changes let a change fall before, within and after a refresh. In Writer, two rows and two characters are the
least for which split, merge, prefix, suffix and mixed formats differ; three edits let a failed command be
followed by another and a save, and two failures let the recovery from one fail too.

The terminal's three sizes make a resize lose columns, win columns, lose rows and win rows, on either screen;
one row of scrollback is its limit at once; five bytes hold a whole CSI or OSC sequence or a character with
something cut on both sides; three shells are what the reuse of a descriptor and a pid needs. Three slides and
three edits let a slide be added, fail to be read, and be selected or removed. In `desktop`: two clipboard
entries with three texts make the trim meet pins; two profiles of one name, a touchpad that is two devices and
two screens are what "only what is named" can get wrong; two clicks let a job of the first end within the
second; two births and two clock ticks let a pid be reused between two samples; two service changes and one
fault, a dropped connection or a spell in which calls fail, let a reading be stale under each kind of
subscription; two levels of handshakes let a click run within the portal's wait; one step of another program
is enough for each race of `Explorer`; the files of `Startup` have the entry's group first, last or alone,
with and without a name, and with `Hidden` lines in either group. All bounds are constants with names that
start with `Max`, or sizes such as `Limit`; they limit only how much happens, never in which order.

**One boundary.** Besides bounds, one constant keeps a passing run on the side of the code where the promise
holds: `Links` is empty in the run of `Explorer`, because a relative link in the trash can be overwritten (section 6).

**Deadlock.** UpdateCheck, the applications and the desktop stop by design (the window closes, the checks,
bytes or clicks are used up), so these runs do not look for deadlocks. The others do: in `BusConnection`
and `BackendEvents` the user, the daemon or the event loop can always take a step.

## 4. Fairness

`BusConnection`, the applications and the desktop state no fairness: their properties are safety.

`UpdateCheck!GuiSpec` assumes that time passes, that a due timer fires and that a queued signal is delivered:
the GUI thread never waits for a worker. `ObservationEnds` needs nothing else. `CheckEnds` adds, in its own
hypothesis, that each worker thread is scheduled (`WorkerFairness`); it assumes nothing of PackageKit. That
is justified because every wait of the worker has a timeout: requests are one step that may fail, and
the worker waits for signals in slices (`dispatch(0.05)`), between which it looks at its deadline and its stop event.
`dispatch()` itself looks at neither: it goes on while bytes arrive (`connection.py:301`). The model bounds
what PackageKit emits in a transaction, which is the assumption that it pauses.

`BackendEvents!FairSpec` assumes that a running slot goes on (each exchange has a timeout), that an armed timer
fires and that a notifier fires while its socket holds data. It does not assume that a parked message
wakes anything, which is what `backend_parked` shows.

## 5. Proofs

Eight modules hold theorems. Each argument is an inductive invariant; what the runs check is a consequence.

`BusConnectionProofs` proves for all names, processes, handlers, subscriptions and bounds that satisfy the
two assumptions in `BusConnection`:

- `TypeCorrect`: `Spec => []TypeOK`. `TypeInv` strengthens `TypeOK` by the shape of the operation in
  progress (which handler and stage go together) and by the well-formed requests in `inbox`.
- `MatchesHeld`: `Spec => []MatchInstalled`. The statement is about the client's counters and the
  daemon's rules, which are changed by different actors, so the invariant `MatchInv` follows a request
  through both queues: requests and answers on their way are not ahead of the client's serial, and requests
  travel in increasing order (`SerialsPast`); the request under the awaited serial is the one the operation
  sent (`RequestAwaited`); an answered `AddMatch` means the
  rule is there and nothing is on its way (`ReplyMeansInstalled`); `RemoveMatch` travels only for rules
  without users (`RemovedUnused`); and a counted rule is installed and no removal of it is queued
  (`Installed`). Because requests are served in order, a late removal can never follow a newer
  installation unseen. `MatchInv` holds on a closed connection too; only `MatchInstalled` asks for an open one.
- `CountsAreExact`: `Spec => []UsersAreCounted`, from the same types. Between operations only the
  sum has to be right; `Counted` and `WatchedFor` say for each stage of `subscribe()` and `unsubscribe()` which
  use has been taken and whether the watch stands, so that a chain of calls that fails anywhere comes back to
  the sum. `Numbered` is there for `_deliver`, which rewrites all entries at once: no two of them become one.

It also proves `StreamRefined`: `Spec => StreamImplemented`, step by step: every step of the connection
that touches a queue is a step of `SignalStream` or a stutter under the mapping. `FrameInv` says what of
the message being delivered is still in the queue, and the `Only` lemmas carry parking (the queue is
cut in two and the signals of the first part are kept) and dispatch (the head is taken) to the
abstract queue.

Last, it proves `OwnersAreHeard`: `Spec => HeardFromOwner`. A handler's entry is right only once the owner
changes in the queue are applied, so `OwnerInv` is about the future of the queue: subscriptions are ordered
by their ids; while the daemon sends owner changes, it has sent them all since the watch began
(`Watched`); an entry that was resolved settles to the present owner when the queue is dispatched (`Settled`,
`Heard`); the awaited answer of `GetNameOwner` names the present owner, or an owner change follows it
(`Answered`). `FullInv` joins it to `TypeInv`, `MatchInv` and `UsersInv`: the counts and the installed rules show
that the owner watch is in the daemon whenever an entry for a well-known name exists. Owners that were
named while another watch was on are excluded (`StaleOwners`): that is the finding of `bus_stale_owner`.

`QueueProofs` proves what `Only` keeps of a queue, of two queues joined, of a prefix, of what it kept itself.
`Only` is a recursive function over the length of the queue. The library's induction theorems
take an operator and cannot be used here, so the induction goes through the least counterexample: a set of
natural numbers that has a member has a least one (`WFMin`), and a set that contains 0 and every
successor contains all numbers up to a bound (`InductiveSet`). `WithoutOne` says what is left of a queue, and in
which places, when one entry is taken out of it.

`BackendProofs` proves, for five parts that share no state:

- *The facade's events.* `NoChangeIsLost`: `Spec => []ChangeNotLost` for any domains and bounds. The statement
  already names every place where a change can be (the socket, the parked signals, the dirty set, a reading
  that is due) and is inductive once two facts join it in `EventInv`: the types, with a `todo` that only holds
  readings of domains, and that a closed connection holds no match rules. The work is in the slots that queue
  several readings at once (`Snapshots`, `Wanted`), which the lemmas about them carry.
- *Terminal sessions*, for any number of shells and tabs, if `MaxSessions` is a natural number.
  `NotifiersMatch`: `SessionsSpec => []WatchersMatch`, which is inductive: two open sessions with one
  descriptor would need two entries under one number. `ShellsAreHeld`: `SessionsSpec => []NoShellLeftBehind`.
  By `HeldInv` a child that is not collected is in a pane, and while its tab is being closed also in the list
  of panes still to close, so the tab goes without it only then. `NoStaleSignal`: `SessionsSpec =>
  []EndedIsNotSignalled`. `SessionInv` says what the GUI thread is waiting for, and that a session whose end
  was read is about to lose its number or has lost it.
- *The terminal's screen*, for any sizes, scrollback limit and counts that satisfy `ScreenAssumption` (sizes
  are positive, the rest are natural numbers), with resizes at any time. `GridsFit`: `ScreenSpec =>
  []ScreenFits`, `ShellsAreClean`: `ScreenSpec => []ShellScreenIsClean`, `MixedOnlyThen`: `ScreenSpec =>
  MixedOnlyByResize` and `RowsAreKept`: `ScreenSpec => RowsNeverVanish`. `Sound` says that the grid that is
  shown has a row and holds only what may be inked there, which is the shell's on the main screen and anything
  while the main grid is put away; that an application's grid has the screen's size; and that the grid put
  away is the shell's, of any number of rows of any length, since the window changes behind it. Each sequence
  keeps it (`ScreensStaySound`); those that repeat (insert and delete lines, the rows a resize takes away) go
  by induction over the repetitions (`Steps`). Most steps keep the sizes and put nothing of an application
  into the scrollback (`MostStepsFollow`); what is left is the resize, the switch of screens and the reset
  (`ResizeSteps`, `SwitchSteps`, `ResetSteps`). For a resize the repetition carries more: no turn of the loop
  takes an inked row (`Shrinking`, `ShrunkTo`), and the limit then cuts the scrollback from its old end
  (`ResizedKeeps`).
- *The terminal's styles*, for lines of any length and any groups that satisfy `GroupsAssumption` (one number
  that is not 38 or 48, or one of these with mode and all of its numbers). `StylesAreTrue`: `StyleSpec =>
  []StylesAreExact`. What `_sgr` computes is a recursive function on the positions of the sequence, so each of
  these functions is shown to exist and to agree with the one of a longer sequence (`SgrExists`, `ReadsMore`).
  By `ReadsAs` every 38 or 48 that was read has its numbers inside the sequence and none waits for more; only
  then does a further group change nothing that was read (`ReadSame`), and is itself read whole
  (`ReadsGroup`). The runs go by cases of one cell more: it joins the last run or begins one (`RunGoesOn`,
  `RunBegins`).
- *The terminal's parser*, for any bytes, size of a read and length of the stream, if `FeedAssumption` holds:
  the size is a natural number, and no byte is the mark that stands after the last one. `ReadsAreWhole`:
  `FeedSpec => []SplitReadsAreWhole`, for the UTF-8 streams of `Utf8`. `Parse` is recursive on what is left of
  a chunk, so first there is such a function (`ParsersExist`, `ParsersAgree`, `ParseIs`). Then `ReadsJoin`:
  reading `r` and after it `c` handles what reading `r \o c` does, by induction on `r`, one turn of the loop
  at a time. A turn that ends inside `r` ends there too when more has arrived (`TurnSettles`: runs, escape
  sequences and titles are found again, and the cut is not within a character), and `SettledJoins` goes on
  behind it; a turn that waits gives everything back (`HeldJoins`). The case of its own is text that reaches
  the end of `r`: it becomes one run with the text of `c`, which is decoded in two parts (`DecodedConcat`),
  unless the last byte begins a character, and then that byte is held over and read with `c` (`TextContinues`,
  `TextRunJoins`).

`WriterProofs` proves for every document, text, style and bound:

- `SaveInvariant`, `ModifiedIsHonest`, `ClosingIsSafe`: without the modified mark the file equals the engine
  and no draft waits, and the window closes only then, or when the user chose to discard. Neither is
  inductive: storing must happen without drafts (`FlushedFirst`), storing must be the last stage of a slot
  that no dialog overlaps (`SlotShape`), and nothing runs after the window is closed (`ClosedIsQuiet`).
- `DraftsAreTold`: `Spec => []DraftIsTold`, from `FlushedFirst`: only the flush finds drafts, and it goes on
  or ends with an error.
- `DocumentsStay`: `Spec => []WriterTypes`: the engine and what was read of it hold at least one paragraph,
  and what waits in `todo` are commands for paragraphs. Splits, merges and pasted lines are sequences cut and
  joined, which is where the lemmas about queues come in.
- `DraftsAreKept`: `Spec => DraftConfirmed`, from these types: a draft is given up only by a reading back, and
  the flush has replaced the paragraph by its common prefix, the middle, and its common suffix
  (`WrittenText`), which are together the text that was typed.
- `FormatsAreCurrent`: `Spec => []FormatIsCurrent`. A flush that fails may have changed the engine and reads
  nothing back, so the proof needs that no format is shown while a draft waits (`Unformatted`); a split or
  merge moves the row and keeps the selection, so it needs that there is none then (`MovesUnselected`).

`UpdateCheckProofs` proves for every set of packages and every number of checks and PackageKit processes:

- `ReadingsAreComplete`: `Spec => []CompleteReading`, and `LossesAreNoticed`: `Spec => []OwnerLossNoticed`, both
  under `Named`, which says that the string that stands for "no reading" is not a package. `Inv` joins the
  types with `PostedInv` and `ShownInv` (what is queued or shown was complete when it was posted),
  `FutureInv` (a check that did not start has no trace) and `WorkerInv(g)`, one conjunct per stretch of
  `_transaction`: what the worker holds before it asks, that a `Finished` in the queue is preceded by every
  package that was named, that a process that left after the subscription is known or in the queue before
  anything its successor says. The order of the queue carries the proof, so each worker step has its lemma
  (`DeliverKeeps`, `StopsKeeps`, ...).
- `VerdictsAreFinal`: `Spec => VerdictIsFinal`, from the generation counter alone.

`DesktopProofs` proves, for the parts that share no state:

- *Preferences.* `SavesAreWhole`: `Spec => OnlyTheSwitchChanges`, if `UnknownKey` is not a switch. `SavingInv`
  says what a save in progress has read and merged so far, whoever writes.
- *Sheets.* `EditsLand`: `GridSpec => []EditsLandWhereTyped` for every grid and everything that can be typed,
  with Escape in the formula bar and failures of the engine. `EditInv` says that a bar that is still bound is
  bound to the selected cell (`BarFollows`), and the open editor's draft to its cell.
- *A service and its client*, for any tree of objects, any questions and bounds that satisfy
  `QuestionsAssumption` (only the facade's own reading asks `GetManagedObjects`; a value set is one of
  `PropertyValues`, sendable or not). `MemoryIsTrue`: `ServiceSpec => []RememberedIsTrue` and `ViewIsTold`:
  `ServiceSpec => []ChangeIsTold`. What is true now depends on messages that are still under way, so
  `ServiceInv` speaks of `Dispatched`, what `dispatch()` will make of the pending signals: it leaves the
  subscriptions bound to the present owner (`Bound`). A connection that is closed, or has no subscriptions,
  has nothing pending (`Silence`); a question's serial is its own on its connection (`Numbered`); what was
  read with the subscriptions on was read on an earlier connection or under the present ones (`Marked`); and
  the answer under way is the tree as it is, or a signal marks the domain (`AnswerIsTold`). The service's
  steps are proved through one lemma, `ActsKeep`: a step sends at most one signal, announces what it did, and
  answers with the objects as they are.

`ShellProofs` proves, for eight more parts, the promise that `desktop` checks of each:

- *Game bar.* `CapturesAreHonest`: `BarSpec => CaptureIsHonest` for any number of files and nested handshakes.
  `BarInv` orders the files by the time they were begun, so what `lastFile` and the status name while a
  recorder is held is that recording or a later file, and follows the one way by which a recorder is lost: a
  handshake that returns with another already there.
- *Notifications.* `SendersAreApart`: `NotifySpec => OnlyWhoNamesItReplaces`, with any numbers named by any
  client and restarts of the server. `Counted` says that the counter is past every number it gave and gave
  none twice.
- *Processes.* `NobodyPaysForAnother`: `TaskSpec => []SharesAreEarned` for any pids, however they are handed
  on. `TaskInv`: the table of the last sample is that of `marks`, and a process that kept its pid has used no
  less since.
- *Slides.* `PanesAreTrue`: `SlidesSpec => []PaneIsTheDeck` for any texts and any number of slides. It is
  inductive once the shape of the deck is known (`DeckInv`): each change of the deck is followed through the
  exception or the reading back that may fail, slide by slide.
- *Explorer.* `FilesAreKept`: `ExplorerSpec => NothingIsLost` for any files and links, if a link is not a file
  (`KindsAreApart`). `JobFits` in `ExplorerInv` carries the look to the system call: nothing stands under the
  wanted name, and the record says where the file stands, unless another program came to one of the two
  places.
- *Clipboard.* `PinsSurvive`: `ClipSpec => []PinsArePersistent` for any texts and any limit in `Nat`.
  `ClipInv` adds that the file holds no key twice and no more than fit. `_trim` takes entries out one by one,
  from the oldest, and the file is the pinned part of the history in order: both are recursive functions of a
  sequence, so what they keep goes through the least prefix that breaks it.
- *Startup.* `TogglesAreTaken`: `StartupSpec => []TogglesTake` for any entries and contents
  (`StartupAssumption`: a content is a sequence of lines). A rewritten copy has exactly one `Hidden` line,
  where the first one was or at the end, and it says what was asked for (`RewrittenHides`, `OneHides`); the
  desktop file's reading depends on the group it is in (`HidesAsAsked`).
- *Devices.* `BrokenIsShown`: `DevicesSpec => []BrokenIsSeen` for any finite set of units whose names are a
  source and a number (`UnitsAreNamed`). `DevicesInv` says that the tree has each category once and nothing
  empty, that the rows are those of the tree under the present expansion, that the count is that of the tree,
  and that a category with a broken device is expanded or was closed by the user. `refresh()` builds the rows
  by joining one list per category, and `FlattenGathers` in `QueueProofs` says what a joined list has
  (`FlattenSeq` is recursive, so it goes through the least prefix that breaks it).

`SettingsProofs` proves, for any screens, profiles, users, applications and devices, any number of clicks and any
changes by others, if the listings are sequences (`ListingsAssumption`):

- `AnswersAreHonest`: `SettingsSpec => []AnswerIsHonest`. First, for every row and every machine it may read,
  `WritesAreAttempted`: the calls of its write set only what the row names (`NamedBy`), to the value that
  grants the request, and together reach all of it, or one thing where one is enough; what they leave out is
  gone (the camera's table of applications). Then `SettingsInv` follows the calls of a click one by one. A
  thing is `Sure` when it was granted, when a job that systemd still has will grant it, or when somebody else
  touched it; each step keeps what is sure (`JobKeeps`, `CallGrants`, `OtherKeeps`), and a call that was taken
  adds what it names. So while no call failed, what is sure and what is still to be called is enough, and when
  nothing is left to call, the answer is honest. That a later job for a unit replaces an earlier one is what
  keeps two clicks from granting each other's requests. The row of hibernation has nothing to call: it is
  honest by the reading that follows.
- `OnlyTheNamedChanges`: `SettingsSpec => OnlyWhatIsNamed`. What a row stands for is defined apart from the
  calls of its write, from the machine at the moment its writer looks (`Meant`: one profile, one user, the
  primary screen, the applications with an entry, the firewall in charge). `StaysWithin` shows row by row that
  the calls set nothing else, but for the profiles of one name when a VPN is switched off (`Namesakes`), and
  `WithinInv` keeps that for the calls still to be made while the machine changes between them.

Only model-checked: `Wire`. It is declared with a recursive operator, which a module with a theorem may not reach.
Liveness under fairness (`ObservationEnds`, `CheckEnds`, `DirtyIsRead`) is out of the proof system's
reach and stays with TLC.

## 6. Where the code and its words differ

Shown by a run (PROJECT.json quotes the text that promises otherwise):

- `bus_stale_owner` (`connection.py:322`, `:367`): an owner change that was parked while one watch ended is
  applied to a subscription of the next watch, which had already bound the newer owner. The subscription
  stays deaf until the name changes hands again.
- `backend_start` (`model.py:182`): the tray's start-up snapshot is taken before the match rules are
  installed; a change in between is announced to nobody.
- `backend_parked` (`qtbridge.py:65`): a signal read during a call is parked, and only new bytes on the socket
  make the bridge dispatch it.
- `writer_readback` (`writer/model.py:310`): a failed reading back does not block a later save, which then
  writes something else than the editors show.
- `sheets_grid` (`sheets/model.py:110`): only the typed cell is read back; cells whose formulas refer to it
  keep their old text.
- `terminal_resize` (`terminal.py:191`): a window made lower while an application has the screen pushes the
  application's rows into the shell's scrollback, which the docstring of `_alternate_screen` excludes (`:373`).

Met while translating, and either modelled as the code does it or kept outside by a constant:

- *Terminal.* The main screen that is put away is not resized with the window and comes back in its old size
  (`MixedOnlyByResize` says that nothing else parts the two). `CSI 1 K` and `CSI 1 J` in the pending-wrap
  column raise `IndexError`, which ends the chunk.
- *Object server.* A `Set` whose value does not fit the property's type assigns first (`service.py:230`); the
  emission raises, and afterwards every `GetAll` and `GetManagedObjects` reply raises out of `process()`,
  although `handle()` says "an error reply, never a dead service".
- *Bus and facets.* After a reconnect the subscriptions are gone while the facade's `_watching` says they are
  installed, and a watch whose subscriptions failed is not tried again either (`facade.py:107`); the storage
  list is not told when its service leaves, and a reading that timed out is an empty tree. `has_service` may
  be five seconds old while the owner watch is not on yet, and a question that timed out is remembered as "not
  there" for as long (`bus.py:135`). `ChangeIsTold` and `RememberedIsTrue` say under which conditions the
  promise holds.
- *Sheets.* The cells' text is bound to `gridModel.cellText()` without a dependency that tells QML to ask
  again (`SheetGrid.qml:6`); Escape in the formula bar breaks the binding of its text (`Sheets.qml:240`),
  which then stays when the selection moves on and is written to whatever cell is selected (`landed.loose` in
  `EditsLandWhereTyped`); a double click elsewhere drops the open edit; Tab leaves the last column; a workbook
  is shown as 40 by 16 cells.
- *Slides.* Errors in `status` are not drawn while the engine lives; `set_text` writes the title before it
  refuses the body, and the pane is not refreshed; exceptions of the engine other than `EngineError`, and all
  of them in `addSlide`, pass the model's handlers, so the pane can be another deck than the engine's although
  `model.py:2` says "never a second copy of the deck" (`unheard` in `PaneIsTheDeck`); any change drops notes
  that are being typed; a successful save leaves an older error in `status`.
- *Office engine.* A `start()` that times out or an `open()` that fails forgets the engine it started: the
  window without a book leaves soffice running (`sheets/app.py:97`; not modelled).
- *Preferences.* Rows of settings that another window changes are not re-read: nothing calls
  `prefs.refresh()`, although `settingscontrols.py:171` says "applied live".
- *Startup.* `toggle` writes at the end of the file, so switching off does nothing in an entry with a later
  group; a copy of the user without a name but with `Hidden=true` does not shadow the system's entry (both in
  `TogglesTake`).
- *Task Manager.* The share of a reused pid is understated; `endTask` signals the pid of the sample, which may
  be another process by then; the disk column is never known.
- *Devices.* The keys `devices.board` looks for are not those it is given, so the board is unnamed; virtual
  network interfaces count as problems; a network card is listed by its bus and by its interface.
- *Clipboard.* Using an image of the history captures it again as a new entry.
- *Notifications.* `CloseNotification` drops the `NotificationClosed` it is given; any `replaces_id` is taken,
  so a client that keeps a number over a restart of the shell replaces another's, and one that names a number
  ahead of the counter loses it to the sender the counter gives it to; nothing builds the server yet.
- *Explorer.* A relative link in the trash points nowhere, `exists()` says the name is free, and the next
  thing of that name overwrites it; the info file records the link's target (`Links`). `FileModel` says
  "nothing is overwritten", but `exists()` and the rename are two calls (`files.py:183`, `:214`), and a
  program that takes the name in between loses its file (`disturbed` in `NothingIsLost`).
- *Game bar.* A second click on Record while the portal asks starts a second recorder, and the first cannot be
  stopped any more (`model.py:1135`); a screenshot during a recording changes the file that is reported; a
  capture through the portal is not moved to the folder of captures.
- *Settings.* `_set_vpn` returns a bare `False` where a pair is unpacked; `set_layout` ignores the result of
  `set_x11_keyboard`; `set_for_kind` is content with one device; mouse rows write touchpads too; automatic
  login reads anyone's and writes only one's own; resolution, refresh rate and scale go to whichever screen is
  primary when they are written; VPN profiles of one name share an active path, so switching one off may end
  the other, although `settingscontrols.py:472` says "one switch per stored profile"; a stopped firewalld
  cannot be started again; the only screen can be switched off; `defaultapps.set_handlers` drops comments.
  `AnswerIsHonest` is stated per row with these exceptions named (`OneIsEnough`).

## 7. Not modelled

- *Image build and tools* (`build/iso`, `tools`): linear scripts without shared state.
- *Task switcher*: one pure function per key press over KWin's stacking order.
- *Presentation* (`app.py`, most QML, weather, icons, theme): drawing and look-up.
- *Within modelled components*: a handler that calls `dispatch()` on its own connection; threads that share
  one; byte order and duplicate dictionary keys on the wire; the arithmetic of single readings; colours,
  wide characters and titles of the terminal; sorting and search of the file list; recorder arguments; page
  counts and highlighting in Writer; rendering in Slides; formulas other than a reference in Sheets.
- *Hazards without a property*: a handler that raises keeps later handlers of the same signal from running
  (`connection.py:335`), and a sender that never pauses (`connection.py:301`), which are modelled as the
  code behaves and contradict nothing that is written down; a reconnect without rules (`bus.py:75`), which is
  what the conditions of `ChangeIsTold` leave out; that no second worker starts (`updatecheck.py:132`), the guard
  of `StartCheck`; a pid that `alive` has reaped (`terminal.py:572`) and two processes that write preferences at once
  (`prefs.py:91`), where the code does what no document excludes; a LibreOffice that starts and refuses
  (`sheets/app.py:97`), not modelled; `IndexError` in the pending wrap (`terminal.py:404`); the
  portal's `Response` before the connection to it (`portal.py:82`), which ends as the timeout that is modelled.
