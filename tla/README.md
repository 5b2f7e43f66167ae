# Verification of the exam system

TLA+ models, TLC runs and TLAPS proofs of the exam system of this repository: a
Windows application that watches a student during an exam (`src/exam_app`), a
privileged client that prepares the machine (`src/client`) with its user
interface (`src/client_ui`), a Go backend (`src/backend`) and the teachers'
React pages (`src/frontend`).

`PROJECT.json` lists components, runs, mutants, hazards, findings and theorems,
and maps each definition to the lines it models.

## 1. The system

| part | state it keeps | operations | talks to |
|---|---|---|---|
| WebSocket thread of the exam application (`exam_app.cpp`) | `g_ws`, `g_ws_connected`, `g_ws_seq`, `g_ws_prev_hash` | dial, open, send login and events, close, reconnect after 5 s | backend, one WebSocket at a time |
| monitor threads of the exam application | last clipboard, drives, firewall status, session state | observe and send events, heartbeat every 5 s | the WebSocket thread, through `ws_send` |
| work upload (`upload_student_work`, `handleUploadWork`) | `g_work_uploaded`, the upload directory | zip, upload; accept one upload per student and run | HTTPS |
| backend connection goroutines (`wshandler.go`) | `clients`, per client role, ids, `Finished` | read, verify the chain, login, event, teacher login | database, `CheatingState`, other clients |
| `CheatingState` (`cheating_engine.go`) | flags, score, last heartbeat, connected, finished, chain | `AddFlag`, `VerifyChain`, `ResetChain`, `Update`, `SaveToDB` | shared by goroutines and checkers, under its mutex |
| heartbeat checker, expiration checker | none of their own | every 5 s: flag silent students; every 10 s: end expired runs | `CheatingState`, database, clients |
| HTTP requests (`handlers.go`) | database rows, files | exams, runs, students, run status, clear of flags, files, work | database; clients, for the end of a run |
| privileged client (`client.cpp`) | account, profile, firewall rules | start an exam, watch the rules and the parent | user interface (pipe), exam application |
| user interface (`client_ui`) | outgoing queue, pipe | join, exchange messages with the client | backend (HTTP), client (pipe) |
| teachers' pages (`frontend`) | students, flags and events shown | load, apply notices | backend (HTTP, WebSocket) |

What is hard about it: a student's application reconnects while the backend may
still be reading its previous connection; every connection has a goroutine of
its own, which queries the database, looks at `clients` and changes the shared
`CheatingState` in separate steps, with few locks; both checkers and the
teachers' requests run at the same time; a save writes a snapshot taken
earlier; requests are sequences of SQL statements without a transaction; notices
are written to sockets with a lock held; the backend keeps everything but the
database in memory; uploads are threads of their own that race with the exits of
the application; preparing a machine is a dozen calls to Windows of which any may
fail and leave the rest behind; the user interface and `client.exe` share a pipe
that breaks; a teacher's page merges an answer and a stream that were asked for
independently; and the path between application and backend is what the message
chain is there to distrust.

What makes each part correct:

- *Message chain*: it accuses nobody whose frames arrived, and whoever interferes
  with frames cannot go back to those that were sent without a flag. (It cannot do
  more: its hash has no key.)
- *Session*: one session per student; a dead session does not lock the student
  out; a student is offline-flagged exactly when it goes offline, once.
- *Flags*: none is lost between memory, database and teachers.
- *End of the exam*: everyone taking part is told, nobody comes in afterwards,
  and nobody is accused for being silent afterwards.
- *Work*: one upload at a time, stored once, confirmed only when stored, and not
  touched after that.
- *Exam and run requests*: a registration that was answered is kept and unique,
  a deletion leaves no row without its parent, a run over its time is closed.
- *Locks*: no goroutine waits for itself through others, none keeps a lock, none
  writes to a closed connection.
- *Machine setup*: success means a prepared machine, failure can be repeated, the
  rules of the exam account are whole or absent.
- *Watch*: the check accepts what was installed, first of all what the setup hands
  over, and of other filters only those it cannot tell from it; a change is heard.
- *User interface*: nothing is prepared without consent; every click is answered.
- *Teacher's page*: what is told while it watches is shown.

## 2. Modules

| module | models | status |
|---|---|---|
| `Transcript` | what the message chain promises, abstractly | refined by `MessageChain` |
| `MessageChain`, `MC-`, `-Proofs` | the exam application's WebSocket thread, the path, the backend's read loops, the chain | checked, proved |
| `StudentSession`, `MC-`, `-Proofs` | everything that changes a student's `CheatingState`, stats row and client on the backend | checked, proved |
| `Submission` | what handing in work promises, abstractly | refined by `WorkUpload` |
| `WorkUpload`, `MC-`, `-Proofs` | the upload threads, the exits of the application, `handleUploadWork` | checked, proved |
| `RunLifecycle`, `MC-`, `-Proofs` | exams, runs, registrations and events as rows, the requests as statements | checked, proved |
| `BackendLocks`, `MC-`, `-Proofs` | `clientsMu`, `cheatingMu`, the mutexes of clients and states, writes that wait | checked, proved |
| `ExamRules` | the filters an exam installs and the check of them; used by the next two | |
| `ExamSetup`, `MC-`, `-Proofs` | `start_exam` of the privileged client, call by call | checked, proved |
| `FirewallWatch`, `MC-` | `rules_monitor_thread`, its reports and the connection they need | checked, proved in `ExamSetupProofs` |
| `ClientUi`, `MC-`, `-Proofs` | `JoinForm`, the main form, the pipe thread, `client.exe` as the form sees it | checked, proved |
| `TeacherMonitor`, `MC-`, `-Proofs` | the live view of a run and the backend steps that feed it | checked, proved |

An `MC` module holds the definitions a small instance needs (sets, symmetry), a
`Proofs` module the theorems.

How they share the system: `MessageChain` and `StudentSession` are two views of
the same connection goroutines, of the frames and of the state; `WorkUpload`,
`FirewallWatch` and `TeacherMonitor` each take of the connection what matters to
them and say so; `BackendLocks` keeps of every handler only its locks, writes and
changes of `clients`. `ExamSetup` ends where the application is started and
`FirewallWatch` begins there: both use the same filters (`ExamRules`).

### MessageChain and Transcript

One student. The application is `appState` with the globals `connected`, `seq`
and `prevHash`; `websocket_thread`'s loop is `Dial`, `OnOpen` (the locked part of
`on_ws_open`), `SendLogin` (the rest of it) and `OnClose`; all the monitors are
`SendEvent`. Because `g_ws_connected` is set before the login is sent, an event
can be the first frame of a connection, and the model has that. Each connection
keeps the frames `sent` on it and how many have left the path (`pos`). The path
may cut the connection at any time; frames on a cut connection may still be read.

Somebody on the path (`Lose`, `Insert`, `Replace`, at most `MaxFaults[c]` times on
connection `c`) may drop the next frame, and put in, before or in place of it, a
frame of his own making: he reads everything, since the application verifies no
certificate (`exam_app.cpp:682`), and he can compute every hash, since it has no key
(`cheating_engine.go:77-80`). So a forged frame (`Forged`) has any number, any kind,
and the hash the backend expects or a wrong one, or it is a repeated one. Left out
are logins he forges for another student, frames he carries over from another
connection, and a path that serves two connections as one.

On the backend, `at[c]` is the place of the goroutine of connection `c`: reading
anonymously or as a member, inside `wsLogin` before and after the search of
`clients`, bound but not back in the read loop, leaving, closed. `Handle` is one
turn of the loop (`VerifyChain` if the client has a `CheatingState`, then the
method); the login goes on in `LoginRefused`, `LoginCheck` and `LoginBind`, and
`FixUp` is the end of the turn. All goroutines share `expectedSeq` and
`lastMsgHash`. Payloads carry message ids, so equal hashes mean equal frames: a
hash is the identity of the frame it was computed from; `mark` tells forged frames
from those that were sent.

`Transcript` says what the backend gets out of this: for each connection, the frames
sent, the frames heard, and whether somebody has interfered or it is flagged. What is
heard starts with a login and grows by the frame that was sent right after the last one
heard, or, where somebody has interfered, by a frame that is none of those sent after
the first; a flag needs a reason and ends it for good. So a forger can go on by
himself, but no frame of the application's is heard behind his without a flag. The
mapping takes as spoiled the connections with a fault, and all of them once two
sessions have overlapped, since then neither the flags nor the frames handled say
anything (finding 1).

### StudentSession

One student of one run, seen from the backend. Every step that reads or writes
shared state on its own is an action of its own: the queries of `wsLogin`
(status, `student_finished` events), the search of `clients`, the assignments of
`StudentID` and `RunID` (`LoginName`) and of `Cheating` (`LoginBind`), and for an
event the checks, the `INSERT` with the read of `flagsBefore`, `Update`, the
comparison, the snapshot, and the write with the notices. Who raises a flag notifies
of it after the save: what is still to be told is `notices`, what has been is `told`.
Statements whose error the code does not look at (the run's status, the count of
finish events, the `UPDATE` of the status) may fail as `Failing` says. The chain is
MessageChain's subject; here it may raise one or two flags on any frame of a
logged-in client. Flags are counted; an `era` numbers the Flags slices (a clear
starts a new one, and so does the first login after a restart), so a snapshot is
an era and a count. Staleness of the heartbeat is one bit, `fresh`.

Beside the connections run the heartbeat checker, the expiration checker (query
and update are separate), the teacher's status and clear requests (update and
`notifyRunEnded`, clear and save are separate) and `Restart`. A failed `INSERT`
ends the event; a failed `UPDATE` of the stats is only logged, as in the code.
Score, details and severities are left out: `AddFlag` changes score and flags
together under the mutex and a clear resets both.

Unlocked reads of `len(Flags)` and of client fields are data races in the Go
code; the values they can return are those at the steps the model separates.

### WorkUpload and Submission

The application: `ReceiveEnd`, the message that ends the exam, and `ConfirmFinish`,
the finish button, start a detached thread; the guard `g_work_uploaded` is
tested and set at the top of `upload_student_work`, and reset on each failure. A
thread zips, posts and waits; the box "already been completed", logging off, and
being killed end all of them, and the logon or unlock task starts the application
anew with a fresh guard. The backend: `handleUploadWork` with the run's status and
the two minutes after its end, the test of the directory, the creation of the file,
the copy, and the answer, each a step. A request goes on when nobody waits for its
answer any more, and may then overlap the next: the directory's `file` is whose
archive it is, a part of one, or a mixture. `Submission` says what the student may
rely on: the directory is empty, then partly written, then holds an archive to its
end, and he is told so (`Open`, `Store`, `Confirm`); only once the application has
given up an answer (`GiveUp`) may another request destroy what was stored and even
confirmed (`Clash`). `WorkUpload` implements it.

### RunLifecycle

A handler is at one statement of one request; the statements are actions
(`FindExisting`, `InsertStudent`, `DeleteRuns`, ...) whose guards are the handler's
position and whose failure most handlers pass over. The exams are there from the
start: their creation is one `INSERT` of an id nobody else has. Rows are records
without values the properties do not tell apart: an exam is its duration, a run its
exam, status and age, a student the run, name and id. `UNIQUE(run_id, name)` holds;
foreign keys are declared but SQLite does not enforce them unless asked, and nobody
asks. `mixed` are the runs and exams that were deleted and inserted into at one time,
or whose deletion had a failed statement: what `NoStrays` makes an exception of. The
expiration checker's query and its updates are separate steps.

### BackendLocks

A goroutine is the list of instructions it has not finished, which the handlers
write in the order of the code: `RLock`, `Lock`, their counterparts, a write to a
socket, a `range` over `clients`, and changes of the map. Locks are Go's: a writer
that waits keeps later readers out, and its `Unlock` lets them all in. A write needs
room in the client's buffers unless the connection is broken. A round of a checker
looks at one state, which is what the order of locks is about. Beside the sessions
there are goroutines (`Daemons`), each of which does any of its `Duties`: a round of
the heartbeat checker, the notices of a run's end, a clear. `Asks` bounds what a
student's connection does once it is logged in: log in again, send an event, be flagged.

### ExamRules, ExamSetup, FirewallWatch

`AddedFilters` is the list of filters `setup_exam_user_wfp` adds for a backend;
`RulesStatus` is `check_rules_intact`: it enumerates the filters of the sublayer in
two layers, wants as many as it expects, and lets each expected one take the first
that is valid for it. `validate_filter` looks at what the code looks at
(`exam_app.cpp:100-146`): of a filter of the IPv4 layer at the action, the address,
protocol and port, and that there is a user, not at other conditions (`more`), nor at
weight, flags and match types (`rest`); of the block of the IPv6 layer at the number
of its conditions alone. In `ExamSetup` every call to Windows is a step that may fail
with the request's code, and the process may end between any two; what was done until
then stays, and the next request finds it. The write of `exam_config.json` may fail
too, and nobody looks (`client.cpp:1586-1587`): the configuration is then `"broken"`
and the request goes on. In `FirewallWatch` the watch reads sublayer and filters in
separate calls while the rules may change, and its reports are sent only over an open
connection; `BACKEND_HOST` is a global that another thread loads.

### ClientUi

`JoinForm` is the chain of steps with one request at a time; the main form is its
controls, the open message boxes (a reply that comes while one is open opens another
above it) and the messages posted to it; the pipe thread connects, greets, flushes the
queue and reads; `client.exe` serves one message after the other, and completes what
it is at when the pipe breaks. The reader waits for bytes in the pipe: a line it has
already taken along with an earlier one (`held`) is read only when more bytes come, as
`tryReadString` (`Client.cs:97-117`) has it, so that a reply is then shown with the
next. The result of a preparation is any that `start_exam` can return. One user
interface is assumed; the pipe would admit more.

### TeacherMonitor

A page has its request, its socket with an inbox, and of what it shows the flags, each
with the numbers of the flags it stands for, and the end of the exam. The
goroutines that tell it are lists of what they have still to do for the student
(save, tell, count, compare), so that the steps of a frame, of the heartbeat
checker and of a clear mix. The run is running until it ends and is not opened again.
The event log, ON and OFF, the countdown, names and scores are left out.
`StudentDetail` merges the notices of one student in the same way and is not
modelled again.

## 3. Runs

| run | instance | shows |
|---|---|---|
| `chain_reconnect` | 2 connections of 2 frames, 1 fault on the first, fairness | `TypeOK`, `AlarmsBounded`, `TamperEvident`, `TranscriptSpec`, `DeadSessionReleased` |
| `chain_two_sessions` | 2 connections of 2 frames | violation of `AtMostOneSession` |
| `session_restart` | 2 connections, 2 frames, 1 clear, 1 status change that may fail, 1 restart | `TypeOK`, `StatsCurrent`, `FlagsTold`, `StoredFlagsKept` |
| `session_live` | 2 connections, 2 frames, 1 heartbeat gap, a count that may fail, a run started and ended, fairness | `OfflineOncePerLogin`, `FinishedStaysQuiet`, `GoneGoesOffline` |
| `upload` | 2 threads, 2 starts of the application, 2 status changes, fairness | `TypeOK`, `Flight`, `SubmitSpec`, `KeptUntouched`, `EndIsActedOn` |
| `runs` | 2 handlers, 1 exam and run, 2 student ids, 1 failure or restart, fairness | `TypeOK`, `OneIdPerName`, `AnsweredIsKept`, `NoStrays`, `OverIsClosed` |
| `locks_order` | 2 sessions of a student, 1 goroutine with every duty | `NoCircularWait`, `IdleHoldsNothing`, `NoWriteAfterClose` |
| `locks_live` | a student, a teacher, the end of the run; clients that stop reading, fairness | `TypeOK`, `Finished` |
| `setup` | 3 requests, 3 hosts, 1 end of the process | `TypeOK`, `ZeroMeansPrepared`, `CleanRunSucceeds`, `RulesWhole`, `PreparedIsIntact` |
| `watch` | 1 change of the rules, 1 lost connection or restart, fairness | `CheckExact`, `ChangeHeard` |
| `ui` | 4 clicks, 2 errors, a pipe that breaks, fairness | `TypeOK`, `ConsentFirst`, `ClickAnswered`, `WaitingEnds` |
| `view` | 1 page, 2 flags, clears, the end of the run | `TypeOK`, `ToldIsShown` |

Each run asks one module everything that is asked of it where one instance is small
enough for that; the session and the locks have two, since what they are asked
under fairness needs a smaller instance.

Why the bounds are enough. Two connections give every overlap of an old and a new
session and of two logins; a third adds only more of the same, since what they share
is one `CheatingState` and a yes-or-no search. Two frames are a login and an event
that is checked against it (and vouches for it), and the fault falls before, between
or behind them, while the next connection is already up; that longer runs of frames
and faults, also on several connections, add up as stated is proved for any number of
them. One clear, one status change and one restart can fall anywhere; `session_live`
has two changes, so that the run is also started and expires. In `StudentSession`,
`MaxFlags` bounds when a flagging frame may be sent, not how many flags exist. Two
upload threads are a first try and another; two starts are the application that ends
in the middle and the one after it; two status changes end the run and open it again.
In `runs` one handler is sent every kind of request and the other those that overlap
most (registrations and deletions of a run): the two whose statements mix; a third
sees no table the two could not leave. In `locks_order` the one goroutine beside the
sessions stands for each of those the backend has, so that every handler that takes
two locks meets a session in every position; `locks_live` adds the teacher to whom
notices are sent, and a goroutine that sends some with `clientsMu` held, so that
somebody queues behind a client that does not read, as a reader (a login) and as a
writer (a connection). Three requests to `start_exam` are one that leaves something
behind, one that does so again with another host, and the one looked at. The filters
that one is altered to include a duplicate, two wider permissions, and two that the
check cannot tell from the exam's. `Failing` has one kind of statement in each session
run, which keeps either within minutes; the proofs have all. Four clicks lead through
the forms with one click too many. Two flags are one that a clear removes and one it
overtakes; one page is enough since pages meet only in a clear.

Deadlock is not checked where the system really stops: at the bounds, when the
application or the process is closed. In each run every property is also checked
against a mutated form of one definition (`...Late`, `...Forgotten` and the like,
next to the definition they stand for), which breaks it.

Fairness. `MessageChain`: the application's own thread sends the login it owes,
and the goroutine of a connection keeps running; a read of a connection that has
ended fails. `StudentSession`: the steps of a handler once a frame is read,
tickers, and the passing of time. Go schedules runnable goroutines and none of
these steps waits for another actor, other than for mutexes held for a few
instructions. (A notice to a client that does not read its socket is the
exception; `BackendLocks` is about it.) No frame, no dial, no request of the
teacher and no restart is ever assumed to happen. `WorkUpload`: threads and
handlers run and answers that were sent arrive, while the process lives.
`RunLifecycle`: the checker's ticker. `BackendLocks`: goroutines run, and a lock
that is free again and again is got in the end, since Go's mutexes hand over to who
has waited longest. Nothing is assumed of clients: no write has a deadline, and TCP
keeps a peer that lives and does not read. That each client reads again or is cut off
(`AllRead`) is the premise of `Finished`, and without it `StallIsLocal` does not hold
(finding 17). `FirewallWatch`: both
threads run, frames arrive. `ClientUi`: the forms' message loop, timer, the pipe
thread and `client.exe` run, requests are answered or fail. `ExamSetup` and
`TeacherMonitor` need none: what they promise are states in which nothing is under way.

### Where the code does not do what it says

The first of these is a run. The others are statements at the end of the modules,
under a heading that says so, which do not hold of the models: the instance that
refutes each is small (two connections, threads or handlers, one or two requests),
and naming the statement as an INVARIANT or PROPERTY of the module's configuration
shows it. No run is kept for them.

1. `AtMostOneSession`: two logins of a student at the same time both pass the
   search of `clients` (`wshandler.go:241-251`), which is over before either sets
   its `StudentID` (`:254`). "student already connected from another session" is
   not said, and the chain of one session then breaks on the frames of the other.
   The chain properties are therefore stated for sessions that do not overlap. That
   this race is the only way to a second session is proved (`SecondSessionNeedsRace`).
2. `DisconnectFlagged`, heartbeat gap: "heartbeat checker will flag"
   (`wshandler.go:121`), but after one gap `Connected` stays clear although
   heartbeats resume, and the end of that connection is not flagged.
3. `DisconnectFlagged`, reopened run: `Finished` of the `CheatingState` survives
   the change back to running and later logins, and the checker passes over it.
4. `NoLoginAfterEnd`: a login that read the status before the end completes after
   `notifyRunEnded`: the application is not told "exam has ended", its
   heartbeats are refused, and it is flagged as disconnected.
5. `FinishIsFinal`: a login that counted no `student_finished` event completes
   after the event was stored: "you have already finished this exam" is not said.

6. `OneUploadPerRun`: the directory is read and the file created without a lock
   (`handlers.go:856`, `:876`): a retry passes while the first handler copies.
7. `ConflictMeansKept`: a failed copy leaves a partial file, and the retry is told
   "work already uploaded for this exam".
8. `OwnExitWaits`: after the end, the refusal of the next heartbeat opens a box that
   ends the application while its upload is in flight.
9. `FinishThenLogOut`: the student is told to finish and then log out, but logging out
   ends the upload.
10. `EditOnlyIdle`, `ClosesOnlyExpired`, `DeletedWithAll`, `RunDeletedWithAll`,
    `DuplicateReturnsExisting`: a check and the statement that relies on it, or several
    deletions, are not one transaction.
11. `IntactMeansConfined`: the check of the rules does not look at whose they are.
12. `TamperedMeansModified`, `MissingMeansMissing`: unmodified rules are reported as
    modified while `BACKEND_HOST` is the default or a name (for a name always, as
    `HandedOverIntact` proves), and an engine that cannot
    be asked as a missing sublayer (`exam_app.cpp:478`).
13. `TamperingTold`: the first check of a start comes before the connection, its report
    is dropped, and the status counts as reported.
14. `ReviewLeadsOn`, `LoadingEnds`, `ReadyStays`, `NameGiven`: forms without a way on,
    a second confirmation after the first, and a test exam that is always refused.
15. `NoFlagsMeansNone`, `FinishedIsShown`: a notice between the answer to the page's
    request and its socket's login is lost to the page.
16. Interference without a flag: "possible proxy/tampering" (`wshandler.go:106`) is not
    said to who rewrites all frames from one on, since the hash has no key
    (`cheating_engine.go:77-80`) and no certificate is verified (`exam_app.cpp:682`).
    This is why `TamperEvident` and `Transcript` speak of frames that arrive as they
    were sent only.
17. `StallIsLocal`: a client that never reads holds up everybody who needs
    `clientsMu`: notices are written with it held (`wshandler.go:437-449`) and no
    write has a deadline (`:46`).
18. `ConfirmedIsThere`: "Your work has been uploaded successfully" is no longer true
    after a request whose answer was lost creates the file anew (`handlers.go:876`).
19. `NeverStray`: a registration or an event that has passed its check when a deletion
    begins, or a deletion with a failed statement, leaves a row without its run,
    although the tables say `REFERENCES`.
20. `ZeroMeansConfigured`: code 0 is returned, and "exam_config.json written" printed
    (`client.cpp:1588`), also when the write has failed (`:1586-1587`).
21. `IntactMeansInstalled`: "All rules intact" is said of filters with further
    conditions, weights and flags (`exam_app.cpp:100-146`), which may block next to
    nothing.
22. Not modelled, but read from the code of the page: the zero time of a run that was
    never started (`structs.go:32`) counts as a start in the year 1, and the page shows
    "Exam Ended" until it is loaded anew; `Connected` of a student who has finished is
    never cleared (`cheating_engine.go:247`), and the page shows "ON".

More limits show in the statements of properties that hold: `StatsCurrent`
and `StoredFlagsKept` except overlapping saves (an older snapshot can be written
last) and failed ones; `StoredFlagsKept` allows that the first login after a
restart replaces the stored flags by none; `StatsCurrent` and `FlagsTold` except a
clear that runs inside a flagging frame, and `FlagsTold` does not say that a flag is
told once: two frames that count before either raises tell each other's flags again.

## 4. Proofs

TLAPS proves, for every value of the constants:

| theorem | states |
|---|---|
| `MessageChainProofs!TypeCorrect` | `Spec => []TypeOK` |
| `MessageChainProofs!AlarmsAreOwed` | `Spec => []AlarmsBounded` |
| `MessageChainProofs!TamperingShows` | `Spec => []TamperEvident` |
| `MessageChainProofs!SecondSessionNeedsRace` | `Spec => OnlyByRace`: `AtMostOneSession` unless two logins raced |
| `MessageChainProofs!ImplementsTranscript` | `Spec => TranscriptSpec` |
| `StudentSessionProofs!TypeCorrect` | `Spec => []TypeOK` |
| `StudentSessionProofs!OfflineFlagsOncePerLogin` | `Spec => []OfflineOncePerLogin` |
| `StudentSessionProofs!QuietOnceFinished` | `Spec => FinishedStaysQuiet` |
| `StudentSessionProofs!StoredFlagsSurvive` | `Spec => StoredFlagsKept` |
| `StudentSessionProofs!FlagsAreTold` | `Spec => []FlagsTold` |
| `StudentSessionProofs!StatsAreCurrent` | `Spec => []StatsCurrent` |
| `WorkUploadProofs!TypeCorrect` | `Spec => []TypeOK` |
| `WorkUploadProofs!OneAtATime` | `Spec => []Flight` |
| `WorkUploadProofs!StoredStays` | `Spec => KeptUntouched` |
| `WorkUploadProofs!ImplementsSubmission` | `Spec => SubmitSpec` |
| `RunLifecycleProofs!TypeCorrect` | `Spec => []TypeOK` |
| `RunLifecycleProofs!OneId` | `Spec => []OneIdPerName` |
| `RunLifecycleProofs!RegistrationKept` | `Spec => []AnsweredIsKept` |
| `RunLifecycleProofs!StraysNeedARace` | `Spec => []NoStrays` |
| `ExamSetupProofs!TypeCorrect` | `Spec => []TypeOK` |
| `ExamSetupProofs!ZeroTold` | `Spec => []ZeroMeansPrepared` |
| `ExamSetupProofs!WholeRules` | `Spec => []RulesWhole` |
| `ExamSetupProofs!CleanSucceeds` | `Spec => []CleanRunSucceeds` |
| `ExamSetupProofs!WatchTypeCorrect` | `Watch!Spec => []Watch!TypeOK`, of `FirewallWatch` |
| `ExamSetupProofs!CheckIsExact` | `Watch!Spec => []CheckExact`, of `FirewallWatch` |
| `ExamSetupProofs!HandedOverIntact` | `Spec => []PreparedIsIntact`, from `ExamSetup` to the check of the application |
| `ClientUiProofs!TypeCorrect` | `Spec => []TypeOK` |
| `ClientUiProofs!ConsentIsFirst` | `Spec => []ConsentFirst` |
| `BackendLocksProofs!LocksTypeCorrect` | `Spec => []TypeOK` |
| `BackendLocksProofs!NoDeadlock` | `Spec => []NoCircularWait` |
| `BackendLocksProofs!LocksReleased` | `Spec => []IdleHoldsNothing` |
| `BackendLocksProofs!WritesBeforeClose` | `Spec => []NoWriteAfterClose` |
| `TeacherMonitorProofs!MonitorTypeCorrect` | `Spec => []TypeOK` |
| `TeacherMonitorProofs!NothingToldIsLost` | `Spec => []ToldIsShown` |

The assumptions are those of the modules, which TLC evaluates: the bounds are natural
numbers, the sets of threads and rows are apart from the strings the models use, and
that one enumeration of the IPv4 layer has room for the exam's five filters
(`CleanSucceeds`, `HandedOverIntact`) or for six (`CheckIsExact`); the code asks for
100. `ExamSetupProofs` instantiates `FirewallWatch` as `Watch`, so that its lemmas
about the filters serve both; the assumptions of `FirewallWatch` are hypotheses there.

*MessageChain.* Neither chain property is inductive. The invariant `IInv` says:
what a frame on a connection is (`SentInv`: its number is its position, its
`prev` the hash of the frame before); where a goroutine with and without a
session can be (`PlaceInv`, `SessionInv`); what the application has still to do
(`AppInv`, `LoginInv`); and for each connection (`ConnInv`) that the frame in
progress was sent on it or forged (`CurOf`), that so were the frames handled, and that
a genuine one follows the one it was sent after unless a flag tells (`TakenOf`,
`GenuineOf`), and how many flags
the connection's faults so far still owe, depending on whether the chain state is
in step with the next frame (`DebtOf`). The last one is the accounting argument:
a fault costs at most two flags at once and, as `VerifyChain` always follows the
frame it read, two more at the next frame.

The refinement of `Transcript` needs `IInv` before and after a step. Most steps change
nothing of the transcript or only interfere (`StaysImplements`, `FlagImplements`,
`LoseImplements`); a flag has its reason by `DebtOf` (`FlaggedSpoiled`). A turn of the
read loop that raises no flag appends a frame (`TurnEffect`, `HearImplements`): if it is
one of those sent after the first, `GenuineOf` after the step makes the last one heard
the one sent before it, and if it is not, somebody has put it there
(`TakenContinues`).

*StudentSession.* `OfflineInv` adds to the property that only a known `CheatingState`
is connected; a login pays for the connection it opens, the checker's flag spends it.
`QuietInv` adds that a client with a `CheatingState` is one in memory, that a
goroutine inside an event or a save has an id, and that a finish or a `notifyRunEnded`
that was seen left the mark in a `CheatingState` that still exists: so the mark cannot
be put on nothing and lost with a new state. `StoredInv` orders snapshots by era, then
by flags: as long as no saves overlapped, at most one goroutine is between its
snapshot and its `UPDATE`, and that snapshot lies between the stored flags and those
in memory (`SavesInOrder`), which only grow within an era (`Grows`). It needs
`QuietInv`, since a save must have a `CheatingState` still in memory. `ToldInv` is why
interleaved frames keep no flag from the teachers: a flag is told, or among the
notices whoever raised it has still to give (`Covered`), or lies behind the count of
some frame that is between its count and its notice, and that frame tells everything
behind its count. `NoticeInv` adds that whoever has a notice to give is between
raising the flag and giving it. `CurrentInv` is why the last save is the right one: as
long as saves do not overlap, either somebody is still to take a snapshot (`SnapDue`)
or what is to be written, or is written, is what memory holds (`WritesCurrent`).

*WorkUpload.* `Flight` is inductive with the types: a thread that passes the guard
finds nobody behind it, and every way out gives it back. `Honest` links what was
answered and told to what was stored. `Untouched` says that, as long as no answer
was given up, at most the one thread that holds the guard has a request at the
backend, so that the test of the directory and the creation cannot be overtaken, and
that what was answered with success is what the directory holds. The refinement needs
both: `Honest` lets `told` grow only after `stored`, and `Untouched` lets a write reach
a directory that is not empty only once an answer was given up.

*RunLifecycle.* `UniqueNames` (the table's constraint holds after every statement)
gives one id per name; a student's row leaves only through a statement of a deletion of
its run. `NoStrays` follows from `StrayInv`: an insertion past its query has its parent
(`There`), one that meets a deletion does so in a run or exam that is `mixed` (`Met`),
and what a statement of a deletion was to remove is gone once it is past, except where
it failed or met an insertion (`Cleared`), so that a run's row goes last.

*ExamSetup.* `Staged` says, for each step of `start_exam`, what has been done by
then for the account that exists; `FiltersOld` that filters of an earlier account
are never those of the current one, since accounts are numbered; `Cleared` that a
request without failures finds no sublayer when it adds one.

*FirewallWatch.* `CheckIsExact` is a fact about the matching loop of
`check_rules_intact` for every set of filters. The loop is a recursive function over
the expected filters; as there are six, it is unrolled (`UnmatchedStages`) instead of
reasoned about by induction. A filter is valid for the i-th expected one just if the
check sees of it what it sees of the i-th installed one (`ValidIsKind`), so that each
stage takes one filter of that kind or none there is (`StageCounts`), and what is left
over agrees, kind by kind, with what is still expected, forwards from the start if the
filters are those that were installed, and backwards from the end if nothing is left
(`CheckCounts`).

*From the setup to the watch.* `HandedOverIntact` relates the two programs' lists of
filters where one ends and the other begins. The check passes over whose a filter is,
so that it ends alike for any account (`UnmatchedAnyAccount`); for an address the
installed filters are counted as in `CheckCounts`; for a name the first filter permits
address 0, which no expected filter does, and is left over after each of the six stages
(`NameRefused`). `Prepared` leaves the configuration to what `start_exam` can know of
it: of this request, or broken.

*ClientUi.* `ConsentInv`: a confirmation is in the queue, on the pipe or being
served only when the student agreed on this connection (`NoneWithout`), and before
the greeting the pipe carries nothing (`QuietBefore`), so that nothing of a broken
connection is taken over.

*BackendLocks.* What a goroutine holds is no variable of its own and is read off what
it has still to do. `Path(g, h, s, k)` says that the instructions `s` lead from
holding `h` to holding `k`, each being one that may be executed with what is held by
then (`StepOK`: a lock is taken at most once, an outer one only with none held, a
client is written to under its mutex and from within a loop that has it to visit, a
map is left under the write lock before the connection is closed). Paths compose, so
that each script of the code is looked at once, and loops and refusals, which put
other instructions in the place of one, keep the path. `LockInv` says that each
goroutine's list is a path from what it holds to holding nothing (`Finishing`) and
that what they hold is what the locks say (`Owning`, `Queues`) and what the map says
(`Looping`, `Living`). `NoCircularWait` follows in two levels: who has a lock for
itself waits for none, who waits for `clientsMu` or `cheatingMu` holds none, and who
reads under one of them waits at most for a client's or a state's mutex. So a chain of
waits leads from a late reader to the writer that waits before it, to a reader, to the
holder of a mutex, and ends.

*TeacherMonitor.* `Awaited`: what a settled page is owed (a flag raised while it
watched, or the end, which is number 0) is shown, is in its inbox, or is what a
goroutine is still to tell, by a notice in its list or by the comparison of the flags
with an earlier count. `Shapes` adds that whatever counts flags comes last in a list,
so that nothing to be told is dropped with the rest of it; `Unsettled` that a page
that is not settled is owed nothing yet.

The type invariant of `FirewallWatch` is proved and not checked by a run.

Model-checked only: liveness, since fairness and ENABLED are out of the prover's reach
(`DeadSessionReleased`, `GoneGoesOffline`, `EndIsActedOn`, `OverIsClosed`, `Finished`,
`ChangeHeard`, `ClickAnswered`, `WaitingEnds`).

## 5. Not modelled

- *Start, routes and log output of the backend, the certificate generator*: no state
  of their own.
- *Teachers' pages other than the live view*: each sends one request and shows the
  answer; what the requests do is in `RunLifecycle`.
- *The monitors of clipboard, USB drives, connections and sessions*: what they observe
  is Windows'; what they send is an event of `MessageChain`. The work analyzer is not
  called by `main`.
- *Listings and downloads*: they only read.
- *Torn reads*: `Role`, `RunID` and the ids of a client are read by other goroutines
  under no lock (`wshandler.go:438`); the models read each field whole.
- *Windows, TLS, password hashing, SQLite* beyond the outcomes the code can see, and
  the vendored libraries (asio, websocketpp, OpenSSL, nlohmann/json). The last make
  up nearly all of the repository's lines: the program's own code is about ten
  thousand of its more than three hundred thousand lines, so that the share of all
  lines that definitions are mapped to stays small however much of the program is
  modelled.

## 6. What could come next

1. An abstract specification of a single-session account that `StudentSession`
   implements while logins do not overlap, and its proof.
2. A restart of the backend in `TeacherMonitor`.
3. A path that joins connections of the application in `MessageChain`.
