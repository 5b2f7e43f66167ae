----------------------------- MODULE WorkUpload -----------------------------
(***************************************************************************)
(* How a student's work reaches the backend at the end of an exam.         *)
(*                                                                         *)
(* The application: the thread that handles messages (on_ws_message), the  *)
(* overlay with its finish button, and the detached upload threads, which  *)
(* share the guard g_work_uploaded.  Exiting, logging off or being killed  *)
(* ends them all; the logon and unlock triggers start the application anew.*)
(* The backend: the login and event answers that matter here (the rest of  *)
(* them is in StudentSession), the run's status with the two minutes after *)
(* its end, and one goroutine per upload request (handleUploadWork).       *)
(*                                                                         *)
(* An upload thread sends at most one request, so both have the same name. *)
(***************************************************************************)
EXTENDS Integers, FiniteSets, Sequences

CONSTANTS
    Uploads,     \* the upload threads, over every life of the application
    MaxStarts,   \* bound: starts of the application
    MaxChanges,  \* bound: changes of the run's status
    MaxInbox     \* bound: messages at which no refused frame is sent

ASSUME UploadsAssumption ==
    /\ IsFiniteSet(Uploads)
    /\ Uploads \cap {"none", "part", "mixed"} = {}

ASSUME BoundsAssumption ==
    /\ MaxStarts \in Nat
    /\ MaxChanges \in Nat
    /\ MaxInbox \in Nat

VARIABLES
    \* the application
    running,          \* the process is alive
    workUploaded,     \* g_work_uploaded, the guard of upload_student_work
    examEnded,        \* g_exam_ended
    studentFinished,  \* g_student_finished
    loggedIn,         \* g_logged_in: the overlay is shown
    button,           \* the finish button: "on", "asking" in its message box, "off"
    exitBox,          \* on_ws_message is in the box "already been completed"
    at,               \* at[u]: where upload thread u is
    \* the connection
    conn,             \* "down", "open" with a login sent, "in", "refused"
    inbox,            \* messages on their way to the application
    finishSent,       \* a student_finished event is on its way to the backend
    \* the backend
    status,           \* exam_runs.status
    grace,            \* ended_at is at most uploadGracePeriod ago
    finishEvent,      \* the events table has a student_finished
    clientFinished,   \* client.Finished of the connection
    srv,              \* srv[u]: where the handler of request u is
    ans,              \* ans[u]: its answer
    file,             \* the student's directory: "none", "part", "mixed" or whose work
    \* what has happened, for the bounds and the properties
    starts, changes,
    kept,             \* requests whose archive was stored to its end, then
    told,             \* threads that told the student so
    conflicts,        \* requests refused as already uploaded
    warned,           \* a thread told the student of a failure since the last trigger
    abandoned         \* the application stopped waiting for an answer

appVars == <<running, workUploaded, examEnded, studentFinished, loggedIn, button, exitBox>>
connVars == <<conn, inbox, finishSent>>
backVars == <<status, grace, finishEvent, clientFinished>>
srvVars == <<srv, ans, file, kept, conflicts>>
histVars == <<starts, changes, told, warned, abandoned>>
vars == <<appVars, at, connVars, backVars, srvVars, histVars>>

-----------------------------------------------------------------------------
ThreadStates == {"unused", "spawned", "zip", "post", "sent", "told", "skipped", "over"}
HandlerStates == {"none", "received", "timed", "clear", "created", "done"}
Messages == {"exam_ended", "success", "already_finished", "refused"}
Statuses == {"pending", "running", "finished"}

\* Threads between the exchange of the guard and its reset.
InFlight == {u \in Uploads : at[u] \in {"zip", "post", "sent"}}

\* Threads that hold the guard.
Holders == {u \in Uploads : at[u] \in {"zip", "post", "sent", "told", "skipped"}}

TypeOK ==
    /\ running \in BOOLEAN /\ workUploaded \in BOOLEAN /\ examEnded \in BOOLEAN
    /\ studentFinished \in BOOLEAN /\ loggedIn \in BOOLEAN
    /\ button \in {"on", "asking", "off"}
    /\ exitBox \in BOOLEAN
    /\ at \in [Uploads -> ThreadStates]
    /\ conn \in {"down", "open", "in", "refused"}
    /\ inbox \in Seq(Messages)
    /\ finishSent \in BOOLEAN
    /\ status \in Statuses
    /\ grace \in BOOLEAN /\ finishEvent \in BOOLEAN /\ clientFinished \in BOOLEAN
    /\ srv \in [Uploads -> HandlerStates]
    /\ ans \in [Uploads -> {"none", "ok", "error"}]
    /\ file \in Uploads \cup {"none", "part", "mixed"}
    /\ starts \in Nat /\ changes \in Nat
    /\ kept \subseteq Uploads /\ told \subseteq Uploads /\ conflicts \subseteq Uploads
    /\ warned \in BOOLEAN /\ abandoned \in BOOLEAN

Init ==
    /\ running = FALSE
    /\ workUploaded = FALSE /\ examEnded = FALSE /\ studentFinished = FALSE
    /\ loggedIn = FALSE /\ button = "on" /\ exitBox = FALSE
    /\ at = [u \in Uploads |-> "unused"]
    /\ conn = "down" /\ inbox = <<>> /\ finishSent = FALSE
    /\ status = "running"
    /\ grace = FALSE /\ finishEvent = FALSE /\ clientFinished = FALSE
    /\ srv = [u \in Uploads |-> "none"]
    /\ ans = [u \in Uploads |-> "none"]
    /\ file = "none"
    /\ starts = 0 /\ changes = 0
    /\ kept = {} /\ told = {} /\ conflicts = {}
    /\ warned = FALSE /\ abandoned = FALSE

-----------------------------------------------------------------------------
(* The life of the application.                                            *)

\* main, at logon or unlock.
Start ==
    /\ ~running
    /\ starts < MaxStarts
    /\ starts' = starts + 1
    /\ running' = TRUE
    /\ UNCHANGED <<workUploaded, examEnded, studentFinished, loggedIn, button, exitBox>>
    /\ UNCHANGED <<at, connVars, backVars, srvVars, changes, told, warned, abandoned>>

\* The process ends with its globals, its threads and its connection; an answer
\* it still waits for is lost.
Exit ==
    /\ running
    /\ running' = FALSE
    /\ workUploaded' = FALSE /\ examEnded' = FALSE /\ studentFinished' = FALSE
    /\ loggedIn' = FALSE /\ button' = "on" /\ exitBox' = FALSE
    /\ at' = [u \in Uploads |-> IF at[u] = "unused" THEN "unused" ELSE "over"]
    /\ conn' = "down" /\ inbox' = <<>> /\ finishSent' = FALSE
    /\ abandoned' = (abandoned \/ \E u \in Uploads : at[u] = "sent")
    /\ UNCHANGED <<backVars, srvVars, starts, changes, told, warned>>

\* The student logs off, or the process is killed.
LogOff == Exit

\* OK in the box that the exam has already been completed: ExitProcess.
ExitBoxOk == exitBox /\ Exit

\* OK in the box of a successful upload: ExitProcess.
SuccessOk == (\E u \in Uploads : at[u] = "told") /\ Exit

-----------------------------------------------------------------------------
(* The connection and the messages.                                        *)

\* websocket_thread and on_ws_open: connect and send the login.
Connect ==
    /\ running /\ ~exitBox
    /\ conn = "down"
    /\ conn' = "open"
    /\ clientFinished' = FALSE
    /\ UNCHANGED <<appVars, at, inbox, finishSent, status, grace, finishEvent, srvVars, histVars>>

\* on_ws_close: what is on its way gets lost.
Drop ==
    /\ conn # "down"
    /\ conn' = "down" /\ inbox' = <<>> /\ finishSent' = FALSE
    /\ UNCHANGED <<appVars, at, backVars, srvVars, histVars>>

\* wsLogin: the answer by the run's status and the events stored, or by another
\* connection of the student that has not been removed yet.
Login ==
    /\ conn = "open"
    /\ \/ /\ status = "running" /\ ~finishEvent
          /\ conn' = "in" /\ inbox' = Append(inbox, "success")
       \/ /\ status = "running" /\ finishEvent
          /\ conn' = "refused" /\ inbox' = Append(inbox, "already_finished")
       \/ /\ ~(status = "running" /\ finishEvent)
          /\ conn' = "refused" /\ inbox' = Append(inbox, "refused")
    /\ UNCHANGED <<appVars, at, finishSent, backVars, srvVars, histVars>>

\* A heartbeat or another event of a client that is finished: wsEvent refuses it
\* with "exam already finished".
Beat ==
    /\ conn = "in" /\ clientFinished /\ ~exitBox
    /\ Len(inbox) < MaxInbox
    /\ inbox' = Append(inbox, "already_finished")
    /\ UNCHANGED <<appVars, at, conn, finishSent, backVars, srvVars, histVars>>

\* wsEvent on student_finished: stored while the run is running.
StoreFinish ==
    /\ finishSent /\ conn \in {"in", "refused"}
    /\ finishSent' = FALSE
    /\ LET stored == conn = "in" /\ status = "running"
       IN  /\ finishEvent' = (finishEvent \/ stored)
           /\ clientFinished' = (clientFinished \/ stored)
    /\ UNCHANGED <<appVars, at, conn, inbox, status, grace, srvVars, histVars>>

\* A detached thread, std::thread(upload_student_work).detach().
Spawn(u) == at[u] = "unused" /\ at' = [at EXCEPT ![u] = "spawned"]

\* on_ws_message: exam_ended starts an upload.
ReceiveEnd(u) ==
    /\ running /\ ~exitBox
    /\ inbox # <<>> /\ Head(inbox) = "exam_ended"
    /\ inbox' = Tail(inbox)
    /\ examEnded' = TRUE
    /\ Spawn(u)
    /\ warned' = FALSE
    /\ UNCHANGED <<running, workUploaded, studentFinished, loggedIn, button, exitBox>>
    /\ UNCHANGED <<conn, finishSent, backVars, srvVars, starts, changes, told, abandoned>>

\* on_ws_message: the other answers; a text with "already finished" opens the exit box,
\* any other refusal is only printed.
ReceiveAnswer ==
    /\ running /\ ~exitBox
    /\ inbox # <<>> /\ Head(inbox) # "exam_ended"
    /\ inbox' = Tail(inbox)
    /\ loggedIn' = (loggedIn \/ Head(inbox) = "success")
    /\ exitBox' = (Head(inbox) = "already_finished")
    /\ UNCHANGED <<running, workUploaded, examEnded, studentFinished, button>>
    /\ UNCHANGED <<at, conn, finishSent, backVars, srvVars, histVars>>

-----------------------------------------------------------------------------
(* The overlay.                                                            *)

\* WM_COMMAND: the button asks for confirmation in a message box.
ClickFinish ==
    /\ running /\ loggedIn /\ button = "on"
    /\ button' = "asking"
    /\ UNCHANGED <<running, workUploaded, examEnded, studentFinished, loggedIn, exitBox>>
    /\ UNCHANGED <<at, connVars, backVars, srvVars, histVars>>

\* YES: the event is dropped when there is no connection, the upload starts anyway.
ConfirmFinish(u) ==
    /\ running /\ button = "asking"
    /\ button' = "off"
    /\ studentFinished' = TRUE
    /\ finishSent' = (conn # "down")
    /\ Spawn(u)
    /\ warned' = FALSE
    /\ UNCHANGED <<running, workUploaded, examEnded, loggedIn, exitBox>>
    /\ UNCHANGED <<conn, inbox, backVars, srvVars, starts, changes, told, abandoned>>

\* NO: the button is usable again unless a tick under the box has switched it off.
CancelFinish ==
    /\ running /\ button = "asking"
    /\ button' \in IF examEnded THEN {"on", "off"} ELSE {"on"}
    /\ UNCHANGED <<running, workUploaded, examEnded, studentFinished, loggedIn, exitBox>>
    /\ UNCHANGED <<at, connVars, backVars, srvVars, histVars>>

\* WM_TIMER after the end: the button is switched off; an open box stays open.
TimerTick ==
    /\ running /\ loggedIn /\ button = "on"
    /\ examEnded \/ studentFinished
    /\ button' = "off"
    /\ UNCHANGED <<running, workUploaded, examEnded, studentFinished, loggedIn, exitBox>>
    /\ UNCHANGED <<at, connVars, backVars, srvVars, histVars>>

-----------------------------------------------------------------------------
(* The upload threads.                                                     *)

\* upload_student_work: the exchange of the guard, which is taken when g says so.
Take(u, g) ==
    /\ at[u] = "spawned"
    /\ IF g THEN /\ at' = [at EXCEPT ![u] = "over"]
                 /\ UNCHANGED workUploaded
            ELSE /\ \E next \in {"zip", "skipped"} : at' = [at EXCEPT ![u] = next]
                 /\ workUploaded' = TRUE
    /\ UNCHANGED <<running, examEnded, studentFinished, loggedIn, button, exitBox>>
    /\ UNCHANGED <<connVars, backVars, srvVars, histVars>>

\* Mutant: the guard is read before it is set, so that every thread passes.
BeginUnguarded(u) == Take(u, FALSE)

\* g_work_uploaded.exchange(true); a missing your_work folder ends the thread with
\* the guard taken ("skipped").
Begin(u) == Take(u, workUploaded)

\* Every failure resets the guard and shows "contact your teacher".
Fail(u) ==
    /\ at' = [at EXCEPT ![u] = "over"]
    /\ workUploaded' = FALSE
    /\ warned' = TRUE
    /\ UNCHANGED <<running, examEnded, studentFinished, loggedIn, button, exitBox>>
    /\ UNCHANGED <<connVars, backVars, starts, changes, told>>

\* zip_directory: the archive is made, or not within 60 seconds.
Zip(u) ==
    /\ at[u] = "zip"
    /\ at' = [at EXCEPT ![u] = "post"]
    /\ UNCHANGED <<appVars, connVars, backVars, srvVars, histVars>>

ZipFails(u) == at[u] = "zip" /\ Fail(u) /\ UNCHANGED <<srvVars, abandoned>>

\* upload_work_https: the request is with the backend, whose ParseMultipartForm
\* has read it to its end.
Post(u) ==
    /\ at[u] = "post"
    /\ at' = [at EXCEPT ![u] = "sent"]
    /\ srv' = [srv EXCEPT ![u] = "received"]
    /\ UNCHANGED <<ans, file, kept, conflicts>>
    /\ UNCHANGED <<appVars, connVars, backVars, histVars>>

\* The file cannot be read or the request cannot be sent.
PostFails(u) == at[u] = "post" /\ Fail(u) /\ UNCHANGED <<srvVars, abandoned>>

\* Mutant: any answer counts as success.
SuccessAnyStatus(u) ==
    /\ at[u] = "sent" /\ ans[u] # "none"
    /\ at' = [at EXCEPT ![u] = "told"]
    /\ told' = told \cup {u}
    /\ UNCHANGED <<appVars, connVars, backVars, srvVars, starts, changes, warned, abandoned>>

\* Status 200: the student is told, in a box whose OK exits.
Success(u) ==
    /\ at[u] = "sent" /\ ans[u] = "ok"
    /\ at' = [at EXCEPT ![u] = "told"]
    /\ told' = told \cup {u}
    /\ UNCHANGED <<appVars, connVars, backVars, srvVars, starts, changes, warned, abandoned>>

\* Any other status.
Refused(u) == at[u] = "sent" /\ ans[u] = "error" /\ Fail(u) /\ UNCHANGED <<srvVars, abandoned>>

\* Mutant: the request has no time limit.
LostNever(u) == FALSE

\* No answer in WinINet's time, or the connection of the request breaks.
Lost(u) == at[u] = "sent" /\ Fail(u) /\ abandoned' = TRUE /\ UNCHANGED srvVars

-----------------------------------------------------------------------------
(* handleUploadWork, one goroutine per request; the ones of an application *)
(* that is gone go on.                                                     *)

\* Mutant: the handler's progress is answered instead of the outcome.
ReplyProgress(u, a) == ans' = [ans EXCEPT ![u] = srv[u]]

Handler(u, from, to) == srv[u] = from /\ srv' = [srv EXCEPT ![u] = to]

Reply(u, a) == ans' = [ans EXCEPT ![u] = a]

\* The run is running, or it finished at most uploadGracePeriod ago.
Timely == status = "running" \/ (status = "finished" /\ grace)

CheckTiming(u) ==
    /\ IF Timely THEN Handler(u, "received", "timed") /\ UNCHANGED ans
                 ELSE Handler(u, "received", "done") /\ Reply(u, "error")
    /\ UNCHANGED <<file, kept, conflicts>>
    /\ UNCHANGED <<appVars, at, connVars, backVars, histVars>>

\* Mutant: the directory is not looked at.
VacantAlways == TRUE

\* os.ReadDir finds the student's directory empty.
Vacant == file = "none"

CheckDir(u) ==
    /\ IF Vacant THEN Handler(u, "timed", "clear") /\ UNCHANGED <<ans, conflicts>>
                 ELSE /\ Handler(u, "timed", "done") /\ Reply(u, "error")
                      /\ conflicts' = conflicts \cup {u}
    /\ UNCHANGED <<file, kept>>
    /\ UNCHANGED <<appVars, at, connVars, backVars, histVars>>

\* os.Create empties the file, which every request names work.zip, whatever is in it:
\* also a work another request has stored, or is still writing.
Create(u) ==
    /\ Handler(u, "clear", "created")
    /\ file' = IF \E v \in Uploads : srv[v] = "created" THEN "mixed" ELSE "part"
    /\ UNCHANGED <<ans, kept, conflicts>>
    /\ UNCHANGED <<appVars, at, connVars, backVars, histVars>>

CreateFails(u) ==
    /\ Handler(u, "clear", "done") /\ Reply(u, "error")
    /\ UNCHANGED <<file, kept, conflicts>>
    /\ UNCHANGED <<appVars, at, connVars, backVars, histVars>>

\* io.Copy to the end; over another handler's work the longer archive's end remains.
Copy(u) ==
    /\ Handler(u, "created", "done") /\ Reply(u, "ok")
    /\ file' \in IF file = "part" THEN {u} ELSE {u, "mixed"}
    /\ kept' = kept \cup {u}
    /\ UNCHANGED conflicts
    /\ UNCHANGED <<appVars, at, connVars, backVars, histVars>>

\* io.Copy fails: what was written stays.
CopyFails(u) ==
    /\ Handler(u, "created", "done") /\ Reply(u, "error")
    /\ file' \in IF file = "part" THEN {"part"} ELSE {file, "mixed"}
    /\ UNCHANGED <<kept, conflicts>>
    /\ UNCHANGED <<appVars, at, connVars, backVars, histVars>>

-----------------------------------------------------------------------------
(* The run.                                                                *)

\* handleUpdateRunStatus or the expiration checker: an end notifies the clients of
\* the run and finishes them.
ChangeStatus(s) ==
    /\ changes < MaxChanges
    /\ changes' = changes + 1
    /\ status' = s
    /\ grace' = (grace \/ s = "finished")
    /\ IF s = "finished" /\ conn = "in"
       THEN inbox' = Append(inbox, "exam_ended") /\ clientFinished' = TRUE
       ELSE UNCHANGED <<inbox, clientFinished>>
    /\ UNCHANGED <<appVars, at, conn, finishSent, finishEvent, srvVars>>
    /\ UNCHANGED <<starts, told, warned, abandoned>>

\* Two minutes have passed since ended_at.
GraceOver ==
    /\ grace
    /\ grace' = FALSE
    /\ UNCHANGED <<appVars, at, connVars, status, finishEvent, clientFinished, srvVars, histVars>>

\* The backend's process ends and starts again: the requests and the connections
\* are gone, the directory and the database stay.
RestartBackend ==
    /\ changes < MaxChanges
    /\ changes' = changes + 1
    /\ srv' = [u \in Uploads |-> IF srv[u] = "none" THEN "none" ELSE "done"]
    /\ conn' = "down" /\ inbox' = <<>> /\ finishSent' = FALSE
    /\ UNCHANGED <<appVars, at, backVars, ans, file, kept, conflicts>>
    /\ UNCHANGED <<starts, told, warned, abandoned>>

-----------------------------------------------------------------------------
Thread(u) ==
    \/ Begin(u) \/ Zip(u) \/ ZipFails(u) \/ Post(u) \/ PostFails(u)
    \/ Success(u) \/ Refused(u) \/ Lost(u)

Serve(u) ==
    \/ CheckTiming(u) \/ CheckDir(u) \/ Create(u) \/ CreateFails(u) \/ Copy(u) \/ CopyFails(u)

Next ==
    \/ Start \/ LogOff \/ ExitBoxOk \/ SuccessOk
    \/ Connect \/ Drop \/ Login \/ Beat \/ StoreFinish
    \/ ReceiveAnswer \/ ClickFinish \/ CancelFinish \/ TimerTick
    \/ \E u \in Uploads : ReceiveEnd(u) \/ ConfirmFinish(u) \/ Thread(u) \/ Serve(u)
    \/ \E s \in Statuses : ChangeStatus(s)
    \/ GraceOver \/ RestartBackend

Spec == Init /\ [][Next]_vars

\* Threads run, WinINet gives up at some time, messages are handled; what the
\* student, the teacher and the network do is left open.
FairSpec ==
    /\ Spec
    /\ \A u \in Uploads : WF_vars(Thread(u)) /\ WF_vars(Serve(u))
    /\ WF_vars(ReceiveAnswer) /\ WF_vars(\E u \in Uploads : ReceiveEnd(u))

-----------------------------------------------------------------------------
(* Properties.                                                             *)

\* The end of the exam and the finish button may start uploads at the same time and
\* again after a failure: of the threads that passed the guard one at most is at
\* work, and the guard is taken exactly while one is or has ended the matter, so
\* that a failed upload never keeps a later one from trying.
SingleFlight == \A u, v \in Holders : u = v
GuardHeld == workUploaded <=> Holders # {}
Flight == SingleFlight /\ GuardHeld

\* Whatever gets lost, exits or restarts, "Your work has been uploaded successfully" is
\* only shown for a request whose archive the backend stored to its end, and that archive
\* is then in the student's directory and stays there, unless the application has stopped
\* waiting for an answer: from then on a late request can overwrite it.
Submit == INSTANCE Submission WITH
    Requests <- Uploads, stored <- kept, givenUp <- abandoned
SubmitSpec == Submit!Spec

\* The check of the directory, though not atomic with the creation of the file, keeps
\* a stored work from being touched again as long as the application waits for its
\* answers.
KeptUntouched == [][(file \in Uploads /\ file' # file) => abandoned]_vars

\* Once the application knows of the end, it uploads, tells the student of a failure
\* or that there is nothing to upload, or ends.
EndIsActedOn ==
    examEnded ~> (~running \/ told # {} \/ warned \/ \E u \in Uploads : at[u] = "skipped")

-----------------------------------------------------------------------------
(* What a message, a comment or the form says, and what does not hold (README.md). *)

\* "Your work has been uploaded successfully": the archive is there from then on.
ConfirmedIsThere == told # {} => file \in told

\* "Check if student already uploaded (one upload per student per run)": no second
\* request is stored.
OneUploadPerRun == Cardinality(kept) <= 1

\* A request refused with "work already uploaded for this exam" finds work stored.
ConflictMeansKept == conflicts # {} => kept # {}

\* The box "This exam has already been completed" does not end the application while
\* an upload is in flight.
OwnExitWaits == [][ExitBoxOk => InFlight = {}]_vars

\* "To finish your exam, press on finish exam button and then log out from the exam
\* session": doing so hands in the work, or the student has been warned.
FinishThenLogOut == [][studentFinished /\ LogOff => kept # {} \/ warned]_vars
=============================================================================
